----------------------------- MODULE DatasetEdit -----------------------------
(***************************************************************************)
(* Editing recorded datasets: DataEditor deletes episodes, one or several, *)
(* and merges datasets, file by file. An episode's index is the name of    *)
(* its parquet file, of its video per camera and of its folder of images,  *)
(* the key of its rows in the metadata, and a column of the parquet file;  *)
(* nothing but these names ties them together. The editor knows one chunk  *)
(* of a dataset, chunk-000. One request is handled at a time. The server   *)
(* may crash between two operations on files, and an operation may fail; a *)
(* single write is not torn. Frames and tasks are left out.                *)
(***************************************************************************)
EXTENDS Integers, Sequences, FiniteSets, Functions

CONSTANTS
  Datasets,    \* the datasets' directories
  Episodes,    \* of each dataset, at the beginning: their number
  Videos,      \* the cameras' directories under videos/, in a sequence
  Images,      \* the directories under images/, in a sequence
  Missing,     \* what no encoder ever wrote: pairs of a directory and an episode
  MaxIndex,    \* bound on the indices
  MaxEdits,    \* bound on the number of requests
  MaxFaults    \* bound on the number of crashes and of operations that fail

RowFiles == <<"episodes_stats", "episodes">>
Media == Videos \o Images
Stores == <<"data">> \o Media
\* Episodes of chunk-000.
ChunkSize == 1000

ASSUME EditAssumption ==
  /\ Datasets # {}
  /\ Episodes \in [Datasets -> Nat]
  /\ Videos \in Seq(Range(Videos)) /\ Images \in Seq(Range(Images))
  /\ IsInjective(Stores) /\ Videos # << >>
  /\ Missing \subseteq Range(Media) \X (Datasets \X Nat)
  /\ MaxIndex \in Nat /\ MaxIndex < ChunkSize /\ MaxEdits \in Nat /\ MaxFaults \in Nat
  /\ \A d \in Datasets : Episodes[d] <= MaxIndex + 1

VARIABLES
  files,    \* per dataset and directory: from an index to what is in the file
  rows,     \* per dataset and metadata file: rows of index and episode
  count,    \* per dataset: total_episodes of info.json
  job,      \* the request that is handled: its dataset and what is left to do
  asked,    \* history, per dataset: what requests were to delete or overwrite,
            \* and what failed to be renamed
  list,     \* history: the episodes each dataset should hold, in order
  state,    \* history: what can be expected of each dataset
  edits, faults

vars == <<files, rows, count, job, asked, list, state, edits, faults>>
history == <<asked, list, state, edits, faults>>

Indices == 0 .. MaxIndex

\* Column is the column episode_index, of a parquet file.
File(episode, column) == [episode |-> episode, column |-> column]
Row(index, episode) == [index |-> index, episode |-> episode]

\* What a request still has to do is a set of steps, each with its place in the
\* order: a stage, an index, and a number among the steps of that index.
Step(at, op, in, from, to) ==
  [at |-> at, op |-> op, in |-> in, from |-> from, to |-> to]
Earlier(u, v) ==
  \/ u.at[1] < v.at[1]
  \/ u.at[1] = v.at[1] /\ u.at[2] < v.at[2]
  \/ u.at[1] = v.at[1] /\ u.at[2] = v.at[2] /\ u.at[3] < v.at[3]

\* The renumbering of a deletion is its map.
Job(kind, d, map, todo) == [kind |-> kind, on |-> d, map |-> map, todo |-> todo]
NoMap == [i \in {} |-> i]
NoJob == Job("none", CHOOSE d \in Datasets : TRUE, NoMap, {})

----------------------------------------------------------------------------

Init ==
  /\ list = [d \in Datasets |-> [n \in 1 .. Episodes[d] |-> <<d, n>>]]
  /\ files = [d \in Datasets |-> [s \in Range(Stores) |->
       [i \in {i \in 0 .. Episodes[d] - 1 : <<s, list[d][i + 1]>> \notin Missing} |->
          File(list[d][i + 1], IF s = "data" THEN i ELSE 0)]]]
  /\ rows = [d \in Datasets |-> [r \in Range(RowFiles) |->
       {Row(i, list[d][i + 1]) : i \in 0 .. Episodes[d] - 1}]]
  /\ count = Episodes
  /\ job = NoJob
  /\ asked = [d \in Datasets |-> {}]
  /\ state = [d \in Datasets |-> "exact"]
  /\ edits = 0 /\ faults = 0

----------------------------------------------------------------------------
(* What a request will do: the steps of its operations on files.           *)

In(d, s) == DOMAIN files[d][s]

\* episode_mapping: from what is in data/, less the deleted.
Renumbered(d, D) ==
  [i \in In(d, "data") \ D |->
     i - Cardinality({k \in In(d, "data") \cap D : k < i})]

\* _shift_episode_paths: whatever is behind the deleted index.
Shifted(k) == [i \in Indices \ {k} |-> IF i > k THEN i - 1 ELSE i]

\* A mutant of Turn: the files are renamed from the last to the first.
TurnBack(i) == MaxIndex - i
Turn(i) == i

\* Where the loops go over all directories of data, of videos or of images.
KindOf(n) == IF n = 1 THEN 1 ELSE IF n <= Len(Videos) + 1 THEN 2 ELSE 3

Unlink(at, s, i) == Step(at, "unlink", s, i, i)

\* The files with an index of D in the directories N: data/ first, then videos,
\* then images, of each kind those of an index after the other.
Unlinks(d, N, D) ==
  {Unlink(<<KindOf(u[1]), u[2], u[1]>>, Stores[u[1]], u[2]) :
     u \in {u \in N \X D : u[2] \in In(d, Stores[u[1]])}}

\* The files of the directories N that get another index: directory and index.
Moved(d, N, map) ==
  {u \in N \X Indices :
     u[2] \in In(d, Stores[u[1]]) \cap DOMAIN map /\ map[u[2]] # u[2]}

DataDir == {1}
MediaDirs == 2 .. Len(Stores)

Last == 8 + Len(Stores)
RowsAndInfo(removed) ==
  {Step(<<Last, n, 0>>, "rows", RowFiles[n], 0, 0) : n \in DOMAIN RowFiles}
    \cup {Step(<<Last + 1, 0, 0>>, "info", "info", removed, 0)}

\* delete_episodes_batch: a directory of media after the other. total_episodes
\* shrinks by the number of indices in the request, whether they exist or not.
BatchSteps(d, D) ==
  LET map == Renumbered(d, D)
  IN  Unlinks(d, DOMAIN Stores, D)
        \cup {Step(<<4, Turn(u[2]), 0>>, "copy", "data", u[2], map[u[2]]) :
                u \in Moved(d, DataDir, map)}
        \cup {Unlink(<<4, Turn(u[2]), 1>>, "data", u[2]) : u \in Moved(d, DataDir, map)}
        \cup {Step(<<4 + u[1], Turn(u[2]), 0>>, "rename", Stores[u[1]], u[2], map[u[2]]) :
                u \in Moved(d, MediaDirs, map)}
        \cup RowsAndInfo(Cardinality(D))

\* What merges have made has no directory images/.
Held(d) == IF Episodes[d] > 0 THEN DOMAIN Stores ELSE 1 .. Len(Videos) + 1
Lacks(d, k) == {n \in Held(d) : k \notin In(d, Stores[n])}

\* A mutant of FirstLack: a file that is missing does not end the deletion.
NoLack(d, k) == 0

\* The first directory without a file of the episode, FileNotFoundError; or 0.
FirstLack(d, k) ==
  IF Lacks(d, k) = {} THEN 0
  ELSE CHOOSE n \in Lacks(d, k) : \A m \in Lacks(d, k) : n <= m

\* delete_episode: what came before a missing file is deleted already. The
\* files of all directories of a kind are renamed in the order of their index.
SingleSteps(d, k) ==
  IF FirstLack(d, k) # 0
  THEN Unlinks(d, 1 .. FirstLack(d, k) - 1, {k})
         \cup {Step(<<4, 0, 0>>, "raise", "data", k, k)}
  ELSE Unlinks(d, DOMAIN Stores, {k})
         \cup {Step(<<4, u[2], 0>>, "rename", "data", u[2], u[2] - 1) :
                 u \in Moved(d, DataDir, Shifted(k))}
         \cup {Step(<<4, u[2], 1>>, "patch", "data", u[2] - 1, u[2] - 1) :
                 u \in Moved(d, DataDir, Shifted(k))}
         \cup {Step(<<4 + KindOf(u[1]), u[2], u[1]>>, "rename",
                    Stores[u[1]], u[2], u[2] - 1) : u \in Moved(d, MediaDirs, Shifted(k))}
         \cup RowsAndInfo(1)

\* A mutant of Share: the parquet files are counted for the next offset, less one.
ShareLess(d) == IF count[d] > 0 THEN count[d] - 1 ELSE Cardinality(In(d, "data"))

\* By how much the next dataset's indices are moved.
Share(d) == IF count[d] > 0 THEN count[d] ELSE Cardinality(In(d, "data"))

\* merge_datasets of two datasets: the parquet files of both, then the metadata,
\* then the videos, each dataset's in one step. Folders of images are not merged,
\* and no copy fails within a step. A step's dataset is moved
\* by "from"; its videos from the index "to" on are left out.
MergeSteps(first, second) ==
  LET Both(stage, op) ==
        {Step(<<stage, 1, 0>>, op, first, 0, Share(first)),
         Step(<<stage, 2, 0>>, op, second, Share(first), Share(second))}
  IN  Both(1, "merge data") \cup {Step(<<2, 0, 0>>, "clear", "meta", 0, 0)}
        \cup Both(3, "merge meta") \cup Both(4, "merge videos")

----------------------------------------------------------------------------
(* The requests.                                                           *)

Request(kind, d, map, steps) ==
  /\ job = NoJob /\ edits < MaxEdits
  /\ job' = Job(kind, d, map, steps)
  /\ edits' = edits + 1
  /\ UNCHANGED <<files, rows, count, faults>>

\* The episodes of which some file has a name to delete now.
Named(d, D) ==
  UNION {{files[d][s][i].episode : i \in D \cap In(d, s)} : s \in Range(Stores)}
Asks(d, D) == asked' = [asked EXCEPT ![d] = @ \cup Named(d, D)]

\* What the dataset should hold when those at the indices D are gone: as the n-th
\* the one with n - 1 of what is kept before it.
Less(d, D) ==
  LET kept == (0 .. Len(list[d]) - 1) \ D
  IN  [n \in 1 .. Cardinality(kept) |->
         list[d][1 + CHOOSE i \in kept : Cardinality({k \in kept : k < i}) = n - 1]]

\* A dataset is exact at first; aligned after a deletion that found less than it
\* was to delete; broken after a request that was cut short or had a failure, or a
\* merge over what it held; adrift after a deletion of several from a broken one.
Worse(d, to) == [state EXCEPT ![d] = IF @ \in {"broken", "adrift"} THEN @ ELSE to]

\* Several indices, of which some may be the same.
DeleteBatch(d, D) ==
  /\ Request("batch", d, Renumbered(d, D), BatchSteps(d, D))
  /\ Asks(d, D)
  /\ list' = [list EXCEPT ![d] = Less(d, D)]
  /\ state' = IF state[d] = "broken" THEN [state EXCEPT ![d] = "adrift"]
              ELSE IF D \subseteq In(d, "data") THEN state ELSE Worse(d, "aligned")

DeleteSingle(d, k) ==
  /\ Request("single", d, Shifted(k), SingleSteps(d, k))
  /\ Asks(d, {k})
  /\ list' = IF FirstLack(d, k) = 1 THEN list ELSE [list EXCEPT ![d] = Less(d, {k})]
  /\ state' = IF FirstLack(d, k) <= 1 THEN state ELSE Worse(d, "aligned")

\* MaxIndex bounds the indices of the output.
Fits(first, second) ==
  /\ \A s \in Range(Stores) : \A i \in In(second, s) : Share(first) + i <= MaxIndex
  /\ \A r \in Range(RowFiles) : \A q \in rows[second][r] :
       Share(first) + q.index <= MaxIndex

\* Into a new directory; into one that holds something, nothing is expected. That
\* it is not one of the two is left to those who call the editor.
MergeDatasets(first, second, out) ==
  /\ out \notin {first, second} /\ Fits(first, second)
  /\ Request("merge", out, NoMap, MergeSteps(first, second))
  /\ Asks(out, Indices)
  /\ list' = [list EXCEPT ![out] = list[first] \o list[second]]
  /\ state' =
       IF /\ \A s \in Range(Stores) : In(out, s) = {}
          /\ state[first] = "exact" /\ state[second] = "exact" /\ state[out] = "exact"
          /\ count[out] = 0
       THEN state ELSE Worse(out, "broken")

----------------------------------------------------------------------------
(* The operations on files, one at a time.                                 *)

IsNext(step) == \A other \in job.todo \ {step} : Earlier(step, other)
Doing(op, step) == step.op = op /\ IsNext(step)
Done(step) ==
  job' = IF job.todo = {step} THEN NoJob ELSE [job EXCEPT !.todo = @ \ {step}]
Here == files[job.on]
Store(s, f) == files' = [files EXCEPT ![job.on][s] = f]

Without(f, i) == [k \in DOMAIN f \ {i} |-> f[k]]
With(f, i, file) == [k \in DOMAIN f \cup {i} |-> IF k = i THEN file ELSE f[k]]

UnlinkFile(step) ==
  /\ Doing("unlink", step) /\ Done(step)
  /\ Store(step.in, Without(Here[step.in], step.from))
  /\ UNCHANGED <<rows, count, history>>

\* A folder cannot take the name of another one.
Clash(step) ==
  step.op = "rename" /\ step.in \in Range(Images) /\ step.to \in In(job.on, step.in)

RenameFile(step) ==
  /\ Doing("rename", step) /\ ~Clash(step) /\ Done(step)
  /\ Store(step.in, With(Without(Here[step.in], step.from), step.to,
                        Here[step.in][step.from]))
  /\ UNCHANGED <<rows, count, history>>

\* to_parquet under the new name, with the new index in the column.
CopyParquet(step) ==
  /\ Doing("copy", step) /\ Done(step)
  /\ Store("data", With(Here["data"], step.to,
                        File(Here["data"][step.from].episode, step.to)))
  /\ UNCHANGED <<rows, count, history>>

\* _adjust_parquet_episode_index
PatchParquet(step) ==
  /\ Doing("patch", step) /\ Done(step)
  /\ Store("data", [Here["data"] EXCEPT ![step.to].column = @ - 1])
  /\ UNCHANGED <<rows, count, history>>

\* Rows that the renumbering does not know are dropped.
RewriteRows(step) ==
  /\ Doing("rows", step) /\ Done(step)
  /\ rows' = [rows EXCEPT ![job.on][step.in] =
       {Row(job.map[r.index], r.episode) :
          r \in {r \in @ : r.index \in DOMAIN job.map}}]
  /\ UNCHANGED <<files, count, history>>

WriteInfo(step) ==
  /\ Doing("info", step) /\ Done(step)
  /\ count' = [count EXCEPT ![job.on] = IF @ > step.from THEN @ - step.from ELSE 0]
  /\ UNCHANGED <<files, rows, history>>

\* FileNotFoundError; or the OSError of a batch's rename of a folder.
Raise(step) ==
  /\ \/ Doing("raise", step) /\ state' = state
     \/ /\ IsNext(step) /\ Clash(step) /\ job.kind = "batch"
        /\ state' = Worse(job.on, "broken")
  /\ job' = NoJob
  /\ UNCHANGED <<files, rows, count, asked, list, edits, faults>>

\* The deletion of one episode goes on when an operation fails, both go on when
\* that of a metadata file does. A parquet file that was not renamed is not
\* patched; a file that was not renamed is overwritten by the next, unless it is
\* a folder.
GoesOn(step) ==
  \/ job.kind = "single" /\ step.op \in {"unlink", "rename", "patch", "rows", "info"}
  \/ job.kind = "batch" /\ step.op = "rows"
Dropped(step) ==
  {step} \cup {p \in job.todo : /\ p.op = "patch" /\ p.to = step.to
                               /\ step.op = "rename" /\ step.in = "data"}
Fail(step) ==
  /\ IsNext(step) /\ GoesOn(step)
  /\ IF Clash(step) THEN faults' = faults
     ELSE faults < MaxFaults /\ faults' = faults + 1
  /\ job' = IF job.todo = Dropped(step) THEN NoJob
            ELSE [job EXCEPT !.todo = @ \ Dropped(step)]
  /\ asked' =
       IF step.op = "unlink" \/ (step.op = "rename" /\ step.in \notin Range(Images))
       THEN [asked EXCEPT ![job.on] = @ \cup {Here[step.in][step.from].episode}]
       ELSE asked
  /\ state' = Worse(job.on, "broken")
  /\ UNCHANGED <<files, rows, count, list, edits>>

\* A file of the output that has the name is overwritten ...
MergeData(step) ==
  /\ Doing("merge data", step) /\ Done(step)
  /\ LET source == files[step.in]["data"]
         old == Here["data"]
     IN  Store("data",
           [i \in DOMAIN old \cup {k + step.from : k \in DOMAIN source} |->
              IF i - step.from \in DOMAIN source
              THEN File(source[i - step.from].episode, i) ELSE old[i]])
  /\ UNCHANGED <<rows, count, history>>

\* ... a row is added to those of the dataset before ...
ClearMeta(step) ==
  /\ Doing("clear", step) /\ Done(step)
  /\ rows' = [rows EXCEPT ![job.on] = [r \in Range(RowFiles) |-> {}]]
  /\ count' = [count EXCEPT ![job.on] = 0]
  /\ UNCHANGED <<files, history>>

MergeMeta(step) ==
  /\ Doing("merge meta", step) /\ Done(step)
  /\ rows' = [rows EXCEPT ![job.on] = [r \in Range(RowFiles) |->
       @[r] \cup {Row(q.index + step.from, q.episode) : q \in rows[step.in][r]}]]
  /\ count' = [count EXCEPT ![job.on] = @ + count[step.in]]
  /\ UNCHANGED <<files, history>>

\* ... and a video that has the name stays.
MergeVideos(step) ==
  /\ Doing("merge videos", step) /\ Done(step)
  /\ files' = [files EXCEPT ![job.on] = [s \in Range(Stores) |->
       IF s \notin Range(Videos) THEN @[s]
       ELSE LET source == {i \in In(step.in, s) : i < step.to}
            IN  [i \in DOMAIN @[s] \cup {k + step.from : k \in source} |->
                   IF i \in DOMAIN @[s] THEN @[s][i]
                   ELSE files[step.in][s][i - step.from]]]]
  /\ UNCHANGED <<rows, count, history>>

\* The server crashes; or another operation fails, which ends the request.
Crash ==
  /\ job # NoJob /\ faults < MaxFaults
  /\ job' = NoJob /\ faults' = faults + 1
  /\ state' = Worse(job.on, "broken")
  /\ UNCHANGED <<files, rows, count, asked, list, edits>>

Next ==
  \/ \E d \in Datasets :
       \/ \E D \in SUBSET Indices : D # {} /\ DeleteBatch(d, D)
       \/ \E k \in Indices : DeleteSingle(d, k)
       \/ \E first, second \in Datasets : MergeDatasets(first, second, d)
  \/ \E step \in job.todo :
       \/ UnlinkFile(step) \/ RenameFile(step) \/ CopyParquet(step)
       \/ PatchParquet(step) \/ RewriteRows(step) \/ WriteInfo(step)
       \/ Raise(step) \/ Fail(step)
       \/ MergeData(step) \/ ClearMeta(step) \/ MergeMeta(step) \/ MergeVideos(step)
  \/ Crash

Spec == Init /\ [][Next]_vars

----------------------------------------------------------------------------

Quiet(d) == job = NoJob \/ job.on # d

\* The state of a dataset that holds the episodes of its list, and only these.
Holds(d, s) ==
  {n \in DOMAIN list[d] : <<s, list[d][n]>> \notin Missing}

\* After any sequence of deletions of episodes that exist, one or several at a
\* time, and merges into new directories, whatever videos were missing: files,
\* column, metadata and count of a dataset are exactly those of the episodes
\* that were left, in their order, without gaps.
EditsAreExact ==
  \A d \in Datasets : Quiet(d) /\ state[d] = "exact" =>
    /\ files[d]["data"] =
         [i \in 0 .. Len(list[d]) - 1 |-> File(list[d][i + 1], i)]
    /\ \A s \in Range(Videos) : files[d][s] =
         [i \in {n - 1 : n \in Holds(d, s)} |-> File(list[d][i + 1], 0)]
    /\ \A r \in Range(RowFiles) :
         rows[d][r] = {Row(n - 1, list[d][n]) : n \in DOMAIN list[d]}
    /\ count[d] = Len(list[d])

\* Also after deletions that ended half-way at a missing file, and of indices
\* that do not exist, with further deletions after them: files and rows of the
\* same index are of the same episode, but for a video or a folder that such a
\* deletion left of an episode it was to delete.
NamesAgree ==
  \A d \in Datasets : Quiet(d) /\ state[d] \in {"exact", "aligned"} =>
    \A i \in In(d, "data") :
      /\ files[d]["data"][i].column = i
      /\ \A s \in Range(Media) : i \in In(d, s) =>
           \/ files[d][s][i].episode = files[d]["data"][i].episode
           \/ state[d] = "aligned" /\ files[d][s][i].episode \in asked[d]
      /\ \A r \in Range(RowFiles) : \A q \in rows[d][r] :
           q.index = i => q.episode = files[d]["data"][i].episode

\* Whatever fails and at whatever point the server crashes, an episode of which no
\* file of its dataset had a name that was to be deleted when a request came, and
\* no parquet file and no video failed to be renamed, keeps its files, under some
\* name: no rename overwrites another episode. This also holds of what is asked of
\* the dataset after that, except when several episodes are deleted at once from a
\* dataset that a crash or a failure left half-way.
NothingElseLost ==
  \A d \in Datasets : state[d] # "adrift" =>
    \A n \in 1 .. Episodes[d] : <<d, n>> \notin asked[d] =>
      \A s \in Range(Stores) : <<s, <<d, n>>>> \notin Missing =>
        \E i \in In(d, s) : files[d][s][i].episode = <<d, n>>
=============================================================================
