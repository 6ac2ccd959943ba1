-------------------------- MODULE DatasetEdit_proofs --------------------------
(***************************************************************************)
(* Proofs about DatasetEdit, for datasets of up to a chunk, and any number *)
(* of cameras, requests and faults. The invariant speaks of a dataset in   *)
(* the middle of a request: not of the names that files have, but of those *)
(* they will have when the steps that are left are done (Goes). What a     *)
(* deletion establishes, its steps only have to keep: each takes a file    *)
(* one step on its way (Flow). For that the steps must not get in each     *)
(* other's way, which is what their order is for (Ordered). A merge is     *)
(* followed by what it has brought over so far (Merged). That an exact     *)
(* dataset holds all of its list, and in its order, is a second invariant  *)
(* (EInv): the place where a file or a row will be is that of its episode  *)
(* in the list, every place is taken, and the ranks of what a deletion     *)
(* keeps, by which the list is shortened, are its renumbering.             *)
(***************************************************************************)
EXTENDS DatasetEdit, FiniteSetTheorems, WellFoundedInduction, TLAPS

----------------------------------------------------------------------------
(* The inductive invariant.                                                *)

\* The types of the variables: files, rows, and steps of a request.
Episode == Datasets \X Nat
Contents == [episode : Episode, column : Int]
FileMaps == UNION {[S -> Contents] : S \in SUBSET Indices}
IndexMaps == UNION {[S -> Indices] : S \in SUBSET Indices}
Rows == SUBSET [index : Indices, episode : Episode]
Places == Range(Stores) \cup Range(RowFiles) \cup Datasets \cup {"meta", "info"}
FileOps == {"unlink", "copy", "rename", "patch", "raise"}
MergeOps == {"merge data", "clear", "merge meta", "merge videos"}
Steps == [at : Nat \X Nat \X Nat, op : FileOps \cup MergeOps \cup {"rows", "info"},
          in : Places, from : Nat, to : Nat]
Kinds == {"none", "batch", "single", "merge"}

\* The type invariant.
TypeOK ==
  /\ files \in [Datasets -> [Range(Stores) -> FileMaps]]
  /\ rows \in [Datasets -> [Range(RowFiles) -> Rows]]
  /\ count \in [Datasets -> Nat]
  /\ job \in [kind : Kinds, on : Datasets, map : IndexMaps, todo : SUBSET Steps]
  /\ asked \in [Datasets -> SUBSET Episode]
  /\ state \in [Datasets -> {"exact", "aligned", "broken", "adrift"}]
  /\ edits \in Nat /\ faults \in Nat

\* Which steps take a file from its name, and which give it another.
Takes(q) == q.op \in {"unlink", "copy", "rename"}
Moves(q) == q.op \in {"copy", "rename"}
\* The step that is next among T.
NextIn(T, q) == \A other \in T \ {q} : Earlier(q, other)
\* Nothing comes between the two.
Follows(q, next) == next.at = <<q.at[1], q.at[2], q.at[3] + 1>>

\* What the steps of a request have to do with each other, whatever the files are.
Ordered(T) ==
  /\ \A q, p \in T : q.at = p.at => q = p
  /\ \A q, p \in T : q # p /\ Moves(q) /\ Moves(p) /\ q.in = p.in =>
       q.from # p.from /\ q.to # p.to
  /\ \A q, p \in T : q # p /\ q.op = "unlink" /\ p.op = "unlink" /\ q.in = p.in =>
       q.from # p.from
  /\ \A q, p \in T : q.op = "unlink" /\ Moves(p) /\ q.in = p.in /\ q.from = p.from =>
       p.op = "copy" /\ Follows(p, q)
  /\ \A q, p \in T : Takes(q) /\ Moves(p) /\ q.in = p.in /\ q.from = p.to => Earlier(q, p)
  /\ \A q \in T : q.op = "copy" =>
       \E p \in T : p.op = "unlink" /\ p.in = q.in /\ p.from = q.from /\ Follows(q, p)
  /\ \A q \in T : q.op = "rename" /\ q.in = "data" =>
       /\ q.from = q.to + 1
       /\ \E p \in T : p.op = "patch" /\ p.to = q.to /\ Follows(q, p)
  /\ \A p \in T : p.op = "patch" =>
       \/ NextIn(T, p)
       \/ \E q \in T : /\ q.op = "rename" /\ q.in = "data" /\ q.to = p.to
                       /\ Follows(q, p)
  /\ \A q, p \in T : q # p /\ p.op = "raise" => Earlier(q, p)
  /\ \A q, p \in T : q.op = p.op /\ (q.op = "info" \/ (q.op = "rows" /\ q.in = p.in)) => q = p

\* What is left to do for a dataset.
Todo(d) == IF job.on = d THEN job.todo ELSE {}
\* The episode that a file holds.
Ep(d, s, i) == files[d][s][i].episode

\* Every step finds its file.
Feasible(d) ==
  \A q \in Todo(d) :
    /\ Takes(q) => q.in \in Range(Stores) /\ q.from \in In(d, q.in) /\ q.to \in Indices
    /\ q.op = "copy" => q.in = "data"
    /\ q.op = "rows" => q.in \in Range(RowFiles)

\* A file is unlinked when it was asked for, or has been copied.
Spared(d) ==
  \A u \in Todo(d) : u.op = "unlink" =>
    \/ Ep(d, u.in, u.from) \in asked[d]
    \/ \E c \in Todo(d) : c.op = "copy" /\ c.in = u.in /\ c.from = u.from /\ Follows(c, u)
    \/ /\ NextIn(Todo(d), u)
       /\ \E i \in In(d, u.in) \ {u.from} : Ep(d, u.in, i) = Ep(d, u.in, u.from)

\* What is in the way of a file was asked for, moves away before, or is a folder.
Room(d) ==
  \A m \in Todo(d) : Moves(m) /\ m.to \in In(d, m.in) =>
    \/ Ep(d, m.in, m.to) \in asked[d]
    \/ \E q \in Todo(d) : q.op \in {"unlink", "rename"} /\ q.in = m.in /\ q.from = m.to
    \/ m.op = "rename" /\ m.in \in Range(Images)

\* The file i of a directory will have the index j when the request is done.
Goes(d, s, i, j) ==
  /\ i \in In(d, s)
  /\ \/ \E m \in Todo(d) : Moves(m) /\ m.in = s /\ m.from = i /\ m.to = j
     \/ /\ i = j
        /\ \A q \in Todo(d) : Takes(q) /\ q.in = s => q.from # i
        /\ \A q \in Todo(d) : Moves(q) /\ q.in = s => q.to # i

\* The row q will have the index j when the request is done.
RowGoes(d, r, q, j) ==
  /\ q \in rows[d][r]
  /\ IF \E v \in Todo(d) : v.op = "rows" /\ v.in = r
     THEN q.index \in DOMAIN job.map /\ j = job.map[q.index]
     ELSE j = q.index

\* A dataset whose names can be relied on.
Sound(d) == state[d] \in {"exact", "aligned"}

\* Media will have the index of their episode's parquet file.
MediaAgree(d) ==
  \A s \in Range(Media) : \A i, j \in Indices :
    Goes(d, s, i, j) /\ (state[d] = "exact" \/ Ep(d, s, i) \notin asked[d]) =>
      \E k \in Indices : Goes(d, "data", k, j) /\ Ep(d, "data", k) = Ep(d, s, i)

\* Rows will have the index of their episode's parquet file.
RowsAgree(d) ==
  \A r \in Range(RowFiles) : \A q \in rows[d][r] : \A k, j \in Indices :
    RowGoes(d, r, q, j) /\ Goes(d, "data", k, j) => q.episode = Ep(d, "data", k)

\* The columns are the indices, but for a file just renamed, which is patched
\* next.
ColumnsAgree(d) ==
  \A i \in In(d, "data") :
    files[d]["data"][i].column =
      IF \E p \in Todo(d) : p.op = "patch" /\ p.to = i /\ NextIn(Todo(d), p)
      THEN i + 1 ELSE i

\* The indices of an exact dataset are less than its number of episodes will be.
Below(d, n) ==
  /\ \A i, j \in Indices : Goes(d, "data", i, j) => j < n
  /\ \A r \in Range(RowFiles) : \A q \in rows[d][r] : \A j \in Indices :
       RowGoes(d, r, q, j) => j < n

\* When the number of episodes is written, the indices will be below it.
Counted(d) ==
  /\ \A q \in Todo(d) : q.op = "info" => q.from <= count[d] /\ Below(d, count[d] - q.from)
  /\ (\A q \in Todo(d) : q.op # "info") => Below(d, count[d])

\* A dataset that is merged into.
Merging(d) == job.kind = "merge" /\ job.on = d

\* The steps of a merge belong to merges, the others to deletions.
KindsOfSteps ==
  \A q \in job.todo : q.op \in MergeOps <=> job.kind = "merge"

\* What was in a dataset that is merged over.
MergedOver(d) ==
  Merging(d) /\ state[d] # "adrift" =>
    \A n \in 1 .. Episodes[d] : <<d, n>> \in asked[d]

\* A merge finds room for the indices of its datasets.
MergesFit ==
  \A q \in job.todo : q.op \in MergeOps \ {"clear"} =>
    /\ q.in \in Datasets \ {job.on}
    /\ \A s \in Range(Stores) : \A i \in In(q.in, s) : i + q.from \in Indices
    /\ \A r \in Range(RowFiles) : \A w \in rows[q.in][r] : w.index + q.from \in Indices

\* The step at the place is done.
Past(at) == \A q \in job.todo : q.at # at

\* What is at j has come from the first dataset, or from the second.
Comes(d, x, y, s, j) ==
  \/ j \in In(x, s) /\ j < Share(x) /\ Ep(d, s, j) = Ep(x, s, j)
  \/ j - Share(x) \in In(y, s) /\ Ep(d, s, j) = Ep(y, s, j - Share(x))

\* What has been merged, of what is to be merged, from the datasets x and y.
Merged(d, x, y) ==
  /\ job.todo \subseteq MergeSteps(x, y)
  /\ ~Past(<<2, 0, 0>>) => ~Past(<<3, 1, 0>>) /\ ~Past(<<3, 2, 0>>)
  /\ \A j \in In(d, "data") : Comes(d, x, y, "data", j)
  /\ Past(<<1, 1, 0>>) => In(x, "data") \subseteq In(d, "data")
  /\ Past(<<1, 2, 0>>) => \A k \in In(y, "data") : k + Share(x) \in In(d, "data")
  /\ \A s \in Range(Media) : \A j \in In(d, s) :
       Comes(d, x, y, s, j) /\ Past(<<1, 1, 0>>) /\ Past(<<1, 2, 0>>)
  /\ \A r \in Range(RowFiles) : \A q \in rows[d][r] :
       \/ q \in rows[x][r]
       \/ \E w \in rows[y][r] : q = Row(w.index + Share(x), w.episode)
  /\ count[d] = (IF Past(<<3, 1, 0>>) THEN count[x] ELSE 0)
                  + (IF Past(<<3, 2, 0>>) THEN count[y] ELSE 0)

\* A merge of exact datasets into a new one.
ExactMerge(d) ==
  Merging(d) /\ Sound(d) =>
    \E x, y \in Datasets \ {d} :
      state[x] = "exact" /\ state[y] = "exact" /\ Merged(d, x, y)

\* What NothingElseLost says of a dataset.
Kept(d) ==
  \A n \in 1 .. Episodes[d] : <<d, n>> \notin asked[d] =>
    \A s \in Range(Stores) : <<s, <<d, n>>>> \notin Missing =>
      \E i \in In(d, s) : Ep(d, s, i) = <<d, n>>

\* What holds of every dataset, at whatever point of a request.
Good(d) ==
  /\ Feasible(d) /\ Spared(d)
  /\ state[d] # "adrift" => Room(d) /\ Kept(d)
  /\ Sound(d) => MediaAgree(d) /\ RowsAgree(d) /\ ColumnsAgree(d)
  /\ state[d] = "exact" /\ ~Merging(d) => Counted(d)

\* The inductive invariant.
IInv ==
  /\ TypeOK /\ KindsOfSteps /\ MergesFit
  /\ Ordered(job.todo)
  /\ \A d \in Datasets : Good(d) /\ MergedOver(d) /\ ExactMerge(d)

----------------------------------------------------------------------------
(* The order of steps.                                                     *)

\* No step comes before the next one.
LEMMA NextIsFirst ==
  ASSUME NEW T \in SUBSET Steps, NEW x \in T, NextIn(T, x), NEW y \in T
  PROVE  ~Earlier(y, x)
<1>1. x.at[1] \in Nat /\ x.at[2] \in Nat /\ x.at[3] \in Nat
  BY DEF Steps
<1>2. y.at[1] \in Nat /\ y.at[2] \in Nat /\ y.at[3] \in Nat
  BY DEF Steps
<1>3. CASE x = y
  BY <1>1, <1>3 DEF Earlier
<1>4. CASE x # y
  <2>1. Earlier(x, y)
    BY <1>4 DEF NextIn
  <2> QED
    BY <1>1, <1>2, <2>1 DEF Earlier
<1> QED
  BY <1>3, <1>4

\* A step that follows another comes later.
LEMMA FollowerIsLater ==
  ASSUME NEW q \in Steps, NEW p \in Steps, Follows(q, p)
  PROVE  Earlier(q, p) /\ q # p
<1>1. q.at[1] \in Nat /\ q.at[2] \in Nat /\ q.at[3] \in Nat
  BY DEF Steps
<1>2. p.at[1] = q.at[1] /\ p.at[2] = q.at[2] /\ p.at[3] = q.at[3] + 1
  BY DEF Follows
<1> QED
  BY <1>1, <1>2 DEF Earlier

\* When the next step is done, the one that follows it is next.
LEMMA FollowerIsNext ==
  ASSUME NEW T \in SUBSET Steps, NEW q \in T, NextIn(T, q), NEW p \in T, Follows(q, p),
         \A v, w \in T : v.at = w.at => v = w
  PROVE  NextIn(T \ {q}, p)
<1> SUFFICES ASSUME NEW v \in T, v # q, v # p
             PROVE  Earlier(p, v)
  BY DEF NextIn
<1>1. q.at[1] \in Nat /\ q.at[2] \in Nat /\ q.at[3] \in Nat
  BY DEF Steps
<1>2. p.at[1] = q.at[1] /\ p.at[2] = q.at[2] /\ p.at[3] = q.at[3] + 1
  BY DEF Follows
<1>3. /\ v.at[1] \in Nat /\ v.at[2] \in Nat /\ v.at[3] \in Nat
      /\ v.at = <<v.at[1], v.at[2], v.at[3]>>
  BY DEF Steps
<1>4. Earlier(q, v)
  BY DEF NextIn
<1>5. v.at # p.at
  OBVIOUS
<1>6. ~(v.at[1] = p.at[1] /\ v.at[2] = p.at[2] /\ v.at[3] = p.at[3])
  BY <1>2, <1>3, <1>5 DEF Follows
<1> QED
  BY <1>1, <1>2, <1>3, <1>4, <1>6 DEF Earlier

\* The next step stays next when another one is gone.
LEMMA NextStays ==
  ASSUME NEW T, NEW x \in T, NEW p \in T \ {x}, NextIn(T, p)
  PROVE  NextIn(T \ {x}, p)
BY DEF NextIn

\* What is left of the steps when the next one is done is ordered as well.
LEMMA OrderedShrinks ==
  ASSUME NEW T \in SUBSET Steps, Ordered(T), NEW x \in T, NextIn(T, x)
  PROVE  Ordered(T \ {x})
<1> DEFINE S == T \ {x}
<1>1. \A q \in S : q.op = "copy" =>
        \E p \in S : p.op = "unlink" /\ p.in = q.in /\ p.from = q.from /\ Follows(q, p)
  <2> SUFFICES ASSUME NEW q \in S, q.op = "copy"
               PROVE  \E p \in S : p.op = "unlink" /\ p.in = q.in /\ p.from = q.from
                                   /\ Follows(q, p)
    OBVIOUS
  <2>1. PICK p \in T : p.op = "unlink" /\ p.in = q.in /\ p.from = q.from /\ Follows(q, p)
    BY DEF Ordered
  <2>2. p # x
    BY <2>1, NextIsFirst, FollowerIsLater
  <2> QED
    BY <2>1, <2>2
<1>2. \A q \in S : q.op = "rename" /\ q.in = "data" =>
        /\ q.from = q.to + 1
        /\ \E p \in S : p.op = "patch" /\ p.to = q.to /\ Follows(q, p)
  <2> SUFFICES ASSUME NEW q \in S, q.op = "rename", q.in = "data"
               PROVE  /\ q.from = q.to + 1
                      /\ \E p \in S : p.op = "patch" /\ p.to = q.to /\ Follows(q, p)
    OBVIOUS
  <2>1. /\ q.from = q.to + 1
        /\ \E p \in T : p.op = "patch" /\ p.to = q.to /\ Follows(q, p)
    BY DEF Ordered
  <2>2. PICK p \in T : p.op = "patch" /\ p.to = q.to /\ Follows(q, p)
    BY <2>1
  <2>3. p # x
    BY <2>2, NextIsFirst, FollowerIsLater
  <2> QED
    BY <2>1, <2>2, <2>3
<1>3. \A p \in S : p.op = "patch" =>
        \/ NextIn(S, p)
        \/ \E q \in S : q.op = "rename" /\ q.in = "data" /\ q.to = p.to /\ Follows(q, p)
  <2> SUFFICES ASSUME NEW p \in S, p.op = "patch", ~NextIn(S, p)
               PROVE  \E q \in S : /\ q.op = "rename" /\ q.in = "data" /\ q.to = p.to
                                   /\ Follows(q, p)
    OBVIOUS
  <2>1. ~NextIn(T, p)
    BY NextStays
  <2>2. PICK q \in T : q.op = "rename" /\ q.in = "data" /\ q.to = p.to /\ Follows(q, p)
    BY <2>1 DEF Ordered
  <2>3. \A v, w \in T : v.at = w.at => v = w
    BY DEF Ordered
  <2>4. q # x
    BY <2>2, <2>3, FollowerIsNext
  <2> QED
    BY <2>2, <2>4
<1>4. /\ \A q, p \in S : q.at = p.at => q = p
      /\ \A q, p \in S : q # p /\ Moves(q) /\ Moves(p) /\ q.in = p.in =>
           q.from # p.from /\ q.to # p.to
      /\ \A q, p \in S : q # p /\ q.op = "unlink" /\ p.op = "unlink" /\ q.in = p.in =>
           q.from # p.from
      /\ \A q, p \in S : q.op = "unlink" /\ Moves(p) /\ q.in = p.in /\ q.from = p.from =>
           p.op = "copy" /\ Follows(p, q)
      /\ \A q, p \in S : Takes(q) /\ Moves(p) /\ q.in = p.in /\ q.from = p.to => Earlier(q, p)
      /\ \A q, p \in S : q # p /\ p.op = "raise" => Earlier(q, p)
      /\ \A q, p \in S : q.op = p.op /\ (q.op = "info" \/ (q.op = "rows" /\ q.in = p.in)) => q = p
  BY DEF Ordered
<1> QED
  BY <1>1, <1>2, <1>3, <1>4 DEF Ordered

\* Nothing to do is ordered.
LEMMA NoneOrdered == Ordered({})
BY DEF Ordered

----------------------------------------------------------------------------
(* What a step does to the request and to the files.                       *)

\* Having no request is a value of job, with nothing to do.
LEMMA NoJobOK ==
  ASSUME TypeOK
  PROVE  /\ NoJob \in [kind : Kinds, on : Datasets, map : IndexMaps, todo : SUBSET Steps]
         /\ NoJob.kind = "none" /\ NoJob.todo = {}
<1>1. job.on \in Datasets
  BY DEF TypeOK
<1>2. (CHOOSE d \in Datasets : TRUE) \in Datasets
  BY <1>1
<1>3. NoMap \in [{} -> Indices]
  BY DEF NoMap
<1>4. NoMap \in IndexMaps
  BY <1>3 DEF IndexMaps
<1> QED
  BY <1>2, <1>4 DEF NoJob, Job, Kinds

\* When there is no request any more, nothing is to be done for any dataset.
LEMMA JobEnds ==
  ASSUME TypeOK, job' = NoJob
  PROVE  /\ job' \in [kind : Kinds, on : Datasets, map : IndexMaps, todo : SUBSET Steps]
         /\ job'.kind = "none" /\ job'.todo = {}
         /\ \A d \in Datasets : Todo(d)' = {}
BY NoJobOK DEF Todo

\* Done takes the step off, and leaves no request when it was the last.
LEMMA JobGoesOn ==
  ASSUME TypeOK, NEW x \in job.todo, Done(x)
  PROVE  /\ job' \in [kind : Kinds, on : Datasets, map : IndexMaps, todo : SUBSET Steps]
         /\ job'.todo = job.todo \ {x}
         /\ \/ job' = NoJob /\ job.todo \ {x} = {}
            \/ job'.kind = job.kind /\ job'.on = job.on /\ job'.map = job.map
         /\ \A d \in Datasets : Todo(d)' = Todo(d) \ {x}
<1>1. job \in [kind : Kinds, on : Datasets, map : IndexMaps, todo : SUBSET Steps]
  BY DEF TypeOK
<1>2. CASE job.todo = {x}
  <2>1. job' = NoJob
    BY <1>2 DEF Done
  <2> QED
    BY <1>1, <1>2, <2>1, JobEnds, NoJobOK DEF Todo
<1>3. CASE job.todo # {x}
  <2>1. job' = [job EXCEPT !.todo = @ \ {x}]
    BY <1>3 DEF Done
  <2> QED
    BY <1>1, <2>1 DEF Todo
<1> QED
  BY <1>2, <1>3

\* Dropping some steps takes them off, and leaves no request when they were all.
LEMMA JobShrinks ==
  ASSUME TypeOK, NEW D \in SUBSET job.todo,
         job' = IF job.todo = D THEN NoJob ELSE [job EXCEPT !.todo = @ \ D]
  PROVE  /\ job' \in [kind : Kinds, on : Datasets, map : IndexMaps, todo : SUBSET Steps]
         /\ job'.todo = job.todo \ D
         /\ \/ job' = NoJob
            \/ job'.kind = job.kind /\ job'.on = job.on /\ job'.map = job.map
         /\ \A d \in Datasets : Todo(d)' = Todo(d) \ D
<1>1. job \in [kind : Kinds, on : Datasets, map : IndexMaps, todo : SUBSET Steps]
  BY DEF TypeOK
<1>2. CASE job.todo = D
  <2>1. job' = NoJob
    BY <1>2
  <2> QED
    BY <1>1, <1>2, <2>1, JobEnds, NoJobOK DEF Todo
<1>3. CASE job.todo # D
  <2>1. job' = [job EXCEPT !.todo = @ \ D]
    BY <1>3
  <2> QED
    BY <1>1, <2>1 DEF Todo
<1> QED
  BY <1>2, <1>3

\* What the types say of one directory: its indices, files and episodes.
LEMMA MapsOK ==
  ASSUME TypeOK, NEW d \in Datasets, NEW s \in Range(Stores)
  PROVE  /\ files[d][s] \in [In(d, s) -> Contents]
         /\ In(d, s) \in SUBSET Indices
         /\ \A i \in In(d, s) : files[d][s][i] \in Contents /\ Ep(d, s, i) \in Episode
<1>1. files[d][s] \in FileMaps
  BY DEF TypeOK
<1>2. PICK S \in SUBSET Indices : files[d][s] \in [S -> Contents]
  BY <1>1 DEF FileMaps
<1>3. In(d, s) = S
  BY <1>2 DEF In
<1>4. \A i \in S : files[d][s][i] \in Contents
  BY <1>2
<1>5. \A c \in Contents : c.episode \in Episode
  BY DEF Contents
<1> QED
  BY <1>2, <1>3, <1>4, <1>5 DEF Ep

\* Store changes one directory of the dataset of the request.
LEMMA Stored ==
  ASSUME TypeOK, NEW s \in Range(Stores), NEW f \in FileMaps, Store(s, f)
  PROVE  /\ files' \in [Datasets -> [Range(Stores) -> FileMaps]]
         /\ files'[job.on][s] = f
         /\ \A d \in Datasets : \A t \in Range(Stores) :
              d # job.on \/ t # s => files'[d][t] = files[d][t]
BY DEF TypeOK, Store

\* The directory without the name i.
LEMMA WithoutOK ==
  ASSUME NEW f \in FileMaps, NEW i
  PROVE  /\ Without(f, i) \in FileMaps
         /\ DOMAIN Without(f, i) = DOMAIN f \ {i}
         /\ \A k \in DOMAIN f \ {i} : Without(f, i)[k] = f[k]
<1>1. PICK S \in SUBSET Indices : f \in [S -> Contents]
  BY DEF FileMaps
<1>2. DOMAIN f = S
  BY <1>1
<1>3. Without(f, i) \in [S \ {i} -> Contents]
  BY <1>1, <1>2 DEF Without
<1> QED
  BY <1>2, <1>3 DEF Without, FileMaps

\* The directory with a file under the name i.
LEMMA WithOK ==
  ASSUME NEW f \in FileMaps, NEW i \in Indices, NEW c \in Contents
  PROVE  /\ With(f, i, c) \in FileMaps
         /\ DOMAIN With(f, i, c) = DOMAIN f \cup {i}
         /\ With(f, i, c)[i] = c
         /\ \A k \in DOMAIN f \ {i} : With(f, i, c)[k] = f[k]
<1>1. PICK S \in SUBSET Indices : f \in [S -> Contents]
  BY DEF FileMaps
<1>2. DOMAIN f = S
  BY <1>1
<1>3. With(f, i, c) \in [S \cup {i} -> Contents]
  BY <1>1, <1>2 DEF With
<1> QED
  BY <1>2, <1>3 DEF With, FileMaps

\* Unlinking takes one name away and leaves the other files.
LEMMA UnlinkDoes ==
  ASSUME TypeOK, NEW d \in Datasets, d = job.on, Feasible(d),
         NEW x \in job.todo, UnlinkFile(x)
  PROVE  /\ files' \in [Datasets -> [Range(Stores) -> FileMaps]]
         /\ x.op = "unlink" /\ x.in \in Range(Stores) /\ x.from \in In(d, x.in)
         /\ \A e \in Datasets : \A s \in Range(Stores) :
              e # d \/ s # x.in => files'[e][s] = files[e][s]
         /\ In(d, x.in)' = In(d, x.in) \ {x.from}
         /\ \A i \in In(d, x.in) \ {x.from} : files'[d][x.in][i] = files[d][x.in][i]
<1>1. x.op = "unlink" /\ x.in \in Range(Stores) /\ x.from \in In(d, x.in)
  BY DEF Feasible, UnlinkFile, Doing, Takes, Todo
<1> DEFINE h == files[d][x.in]
           g == Without(h, x.from)
<1>2. h \in FileMaps /\ DOMAIN h = In(d, x.in)
  BY <1>1 DEF TypeOK, In
<1>3. Store(x.in, g)
  BY DEF UnlinkFile, Here
<1> HIDE DEF h
<1>4. /\ g \in FileMaps /\ DOMAIN g = DOMAIN h \ {x.from}
      /\ \A i \in DOMAIN h \ {x.from} : g[i] = h[i]
  BY <1>2, WithoutOK
<1> HIDE DEF g
<1>5. /\ files' \in [Datasets -> [Range(Stores) -> FileMaps]]
      /\ files'[d][x.in] = g
      /\ \A e \in Datasets : \A s \in Range(Stores) :
           e # d \/ s # x.in => files'[e][s] = files[e][s]
  BY <1>1, <1>3, <1>4, Stored
<1>6. DOMAIN (files'[d][x.in]) = In(d, x.in) \ {x.from}
  BY <1>2, <1>4, <1>5
<1> QED
  BY <1>1, <1>2, <1>4, <1>5, <1>6 DEF In, h

\* Renaming puts the file under its new name, in place of what was there.
LEMMA RenameDoes ==
  ASSUME TypeOK, NEW d \in Datasets, d = job.on, Feasible(d),
         NEW x \in job.todo, RenameFile(x), x.from # x.to
  PROVE  /\ files' \in [Datasets -> [Range(Stores) -> FileMaps]]
         /\ x.op = "rename" /\ x.in \in Range(Stores) /\ x.from \in In(d, x.in)
         /\ \A e \in Datasets : \A s \in Range(Stores) :
              e # d \/ s # x.in => files'[e][s] = files[e][s]
         /\ In(d, x.in)' = (In(d, x.in) \ {x.from}) \cup {x.to}
         /\ files'[d][x.in][x.to] = files[d][x.in][x.from]
         /\ \A i \in In(d, x.in) \ {x.from, x.to} :
              files'[d][x.in][i] = files[d][x.in][i]
<1>1. /\ x.op = "rename" /\ x.in \in Range(Stores) /\ x.from \in In(d, x.in)
      /\ x.to \in Indices
  BY DEF Feasible, RenameFile, Doing, Takes, Todo
<1>2. files[d][x.in] \in FileMaps /\ files[d][x.in][x.from] \in Contents
  BY <1>1, MapsOK DEF TypeOK
<1> DEFINE h == files[d][x.in]
           c == h[x.from]
           f == Without(h, x.from)
           g == With(f, x.to, c)
<1>3. Store(x.in, g) /\ DOMAIN h = In(d, x.in)
  BY DEF RenameFile, Here, In
<1>a. h \in FileMaps /\ c \in Contents
  BY <1>2
<1> HIDE DEF h, c
<1>4. /\ f \in FileMaps /\ DOMAIN f = DOMAIN h \ {x.from}
      /\ \A k \in DOMAIN h \ {x.from} : f[k] = h[k]
  BY <1>a, WithoutOK
<1> HIDE DEF f
<1>b. f \in FileMaps /\ x.to \in Indices
  BY <1>1, <1>4
<1>5. /\ g \in FileMaps /\ DOMAIN g = DOMAIN f \cup {x.to}
      /\ g[x.to] = c
      /\ \A k \in DOMAIN f \ {x.to} : g[k] = f[k]
  <2>1. With(f, x.to, c) \in FileMaps
    BY <1>a, <1>b, WithOK
  <2>2. DOMAIN With(f, x.to, c) = DOMAIN f \cup {x.to}
    BY DEF With
  <2>3. With(f, x.to, c)[x.to] = c
    BY DEF With
  <2>4. \A k \in DOMAIN f \ {x.to} : With(f, x.to, c)[k] = f[k]
    BY DEF With
  <2> QED
    BY <2>1, <2>2, <2>3, <2>4
<1> HIDE DEF g
<1>6. /\ files' \in [Datasets -> [Range(Stores) -> FileMaps]]
      /\ files'[d][x.in] = g
      /\ \A e \in Datasets : \A s \in Range(Stores) :
           e # d \/ s # x.in => files'[e][s] = files[e][s]
  BY <1>1, <1>3, <1>5, Stored
<1>7. DOMAIN (files'[d][x.in]) = (In(d, x.in) \ {x.from}) \cup {x.to}
  BY <1>3, <1>4, <1>5, <1>6
<1> QED
  BY <1>1, <1>3, <1>4, <1>5, <1>6, <1>7 DEF In, h, c

\* Copying a parquet file adds it under the new name, with the new index.
LEMMA CopyDoes ==
  ASSUME TypeOK, NEW d \in Datasets, d = job.on, Feasible(d),
         NEW x \in job.todo, CopyParquet(x), x.from # x.to
  PROVE  /\ files' \in [Datasets -> [Range(Stores) -> FileMaps]]
         /\ x.op = "copy" /\ x.in = "data" /\ x.in \in Range(Stores) 
         /\ x.from \in In(d, x.in)
         /\ \A e \in Datasets : \A s \in Range(Stores) :
              e # d \/ s # x.in => files'[e][s] = files[e][s]
         /\ In(d, x.in)' = In(d, x.in) \cup {x.to}
         /\ files'[d][x.in][x.to] = File(files[d][x.in][x.from].episode, x.to)
         /\ \A i \in In(d, x.in) \ {x.to} : files'[d][x.in][i] = files[d][x.in][i]
<1>1. /\ x.op = "copy" /\ x.in \in Range(Stores) /\ x.from \in In(d, x.in)
      /\ x.to \in Indices /\ x.in = "data"
  BY DEF Feasible, CopyParquet, Doing, Takes, Todo
<1>2. files[d][x.in] \in FileMaps /\ files[d][x.in][x.from].episode \in Episode
  BY <1>1, MapsOK DEF TypeOK, Ep
<1> DEFINE h == files[d][x.in]
           c == File(h[x.from].episode, x.to)
           g == With(h, x.to, c)
<1>3. Store(x.in, g) /\ DOMAIN h = In(d, x.in)
  BY <1>1 DEF CopyParquet, Here, In
<1>4. c \in Contents /\ h \in FileMaps
  BY <1>1, <1>2 DEF File, Contents, Indices
<1> HIDE DEF c, h
<1>b. x.to \in Indices
  BY <1>1
<1>5. /\ g \in FileMaps /\ DOMAIN g = DOMAIN h \cup {x.to}
      /\ g[x.to] = c
      /\ \A k \in DOMAIN h \ {x.to} : g[k] = h[k]
  <2>1. With(h, x.to, c) \in FileMaps
    BY <1>4, <1>b, WithOK
  <2>2. DOMAIN With(h, x.to, c) = DOMAIN h \cup {x.to}
    BY DEF With
  <2>3. With(h, x.to, c)[x.to] = c
    BY DEF With
  <2>4. \A k \in DOMAIN h \ {x.to} : With(h, x.to, c)[k] = h[k]
    BY DEF With
  <2> QED
    BY <2>1, <2>2, <2>3, <2>4
<1> HIDE DEF g
<1>6. /\ files' \in [Datasets -> [Range(Stores) -> FileMaps]]
      /\ files'[d][x.in] = g
      /\ \A e \in Datasets : \A s \in Range(Stores) :
           e # d \/ s # x.in => files'[e][s] = files[e][s]
  BY <1>1, <1>3, <1>5, Stored
<1>7. DOMAIN (files'[d][x.in]) = In(d, x.in) \cup {x.to}
  BY <1>3, <1>5, <1>6
<1> QED
  BY <1>1, <1>3, <1>5, <1>6, <1>7 DEF In, c, h

\* The directories: data is the first of them, and none of the media.
LEMMA DataIsStore ==
  /\ "data" \in Range(Stores) /\ DOMAIN Stores = 1 .. Len(Stores)
  /\ Len(Stores) \in Nat /\ Len(Stores) = 1 + Len(Media) /\ Stores[1] = "data"
  /\ \A s \in Range(Media) : s \in Range(Stores) /\ s # "data"
  /\ \A s \in Range(Videos) \cup Range(Images) : s \in Range(Media)
  /\ \A n \in DOMAIN Stores : n # 1 => Stores[n] \in Range(Media)
  /\ Len(Videos) \in Nat /\ Len(Videos) <= Len(Media)
<1>1. Videos \in Seq(Range(Videos)) /\ Images \in Seq(Range(Images))
  BY EditAssumption
<1> DEFINE R == Range(Videos) \cup Range(Images)
           Q == R \cup {"data"}
<1>2. Videos \in Seq(R) /\ Images \in Seq(R) /\ R \subseteq Q
  BY <1>1
<1>3. /\ Media \in Seq(R) /\ Len(Media) = Len(Videos) + Len(Images)
      /\ \A n \in 1 .. Len(Videos) : Media[n] = Videos[n]
      /\ \A n \in 1 .. Len(Images) : Media[n + Len(Videos)] = Images[n]
      /\ Len(Videos) \in Nat /\ Len(Images) \in Nat
  BY <1>2 DEF Media
<1>a. Media \in Seq(Q) /\ <<"data">> \in Seq(Q)
  BY <1>2, <1>3
<1> HIDE DEF R, Q
<1>b. DOMAIN Media = 1 .. Len(Media) /\ Len(Media) \in Nat
  BY <1>3
<1>4. /\ Stores \in Seq(Q) /\ Len(Stores) = 1 + Len(Media) /\ Len(Stores) \in Nat
      /\ DOMAIN Stores = 1 .. Len(Stores) /\ Stores[1] = "data"
      /\ \A n \in 1 .. Len(Media) : Stores[n + 1] = Media[n]
      /\ DOMAIN Media = 1 .. Len(Media) /\ Len(Media) \in Nat
      /\ DOMAIN Videos = 1 .. Len(Videos) /\ DOMAIN Images = 1 .. Len(Images)
  BY <1>2, <1>a, <1>b DEF Stores
<1>5. \A s \in Range(Media) : s \in Range(Stores) /\ s # "data"
  <2> SUFFICES ASSUME NEW n \in DOMAIN Media
               PROVE  Media[n] \in Range(Stores) /\ Media[n] # "data"
    BY DEF Range
  <2>1. n + 1 \in DOMAIN Stores /\ Stores[n + 1] = Media[n] /\ n + 1 # 1
    BY <1>4
  <2>2. 1 \in DOMAIN Stores
    BY <1>4
  <2>3. Stores[n + 1] # Stores[1]
    BY <2>1, <2>2, EditAssumption DEF IsInjective
  <2> QED
    BY <1>4, <2>1, <2>3 DEF Range
<1>6. \A s \in Range(Videos) \cup Range(Images) : s \in Range(Media)
  <2>1. \A n \in DOMAIN Videos : n \in DOMAIN Media /\ Media[n] = Videos[n]
    BY <1>3, <1>4
  <2>2. \A n \in DOMAIN Images :
          n + Len(Videos) \in DOMAIN Media /\ Media[n + Len(Videos)] = Images[n]
    BY <1>3, <1>4
  <2> QED
    BY <2>1, <2>2 DEF Range
<1>7. \A n \in DOMAIN Stores : n # 1 => Stores[n] \in Range(Media)
  <2> SUFFICES ASSUME NEW n \in DOMAIN Stores, n # 1
               PROVE  Stores[n] \in Range(Media)
    OBVIOUS
  <2>1. n \in 1 .. Len(Stores) /\ Len(Stores) = 1 + Len(Media) /\ Len(Media) \in Nat
    BY <1>4
  <2>2. n - 1 \in 1 .. Len(Media) /\ (n - 1) + 1 = n
    BY <2>1
  <2>3. Stores[n] = Media[n - 1] /\ n - 1 \in DOMAIN Media
    BY <1>4, <2>2
  <2> QED
    BY <2>3 DEF Range
<1> QED
  BY <1>3, <1>4, <1>5, <1>6, <1>7 DEF Range

\* Patching changes the column of one parquet file, and no episode.
LEMMA PatchDoes ==
  ASSUME TypeOK, NEW d \in Datasets, d = job.on,
         NEW x \in job.todo, PatchParquet(x)
  PROVE  /\ files' \in [Datasets -> [Range(Stores) -> FileMaps]]
         /\ x.op = "patch"
         /\ \A e \in Datasets : \A s \in Range(Stores) :
              e # d \/ s # "data" => files'[e][s] = files[e][s]
         /\ In(d, "data")' = In(d, "data")
         /\ \A i \in In(d, "data") :
              /\ files'[d]["data"][i].episode = files[d]["data"][i].episode
              /\ files'[d]["data"][i].column = IF i = x.to
                   THEN files[d]["data"][i].column - 1 ELSE files[d]["data"][i].column
<1> DEFINE f == files[d]["data"]
           g == [f EXCEPT ![x.to].column = @ - 1]
<1>1. f \in [In(d, "data") -> Contents] /\ In(d, "data") \in SUBSET Indices
  BY MapsOK, DataIsStore
<1>2. Store("data", g)
  BY DEF PatchParquet, Here
<1>3. \A c \in Contents : [c EXCEPT !.column = @ - 1] \in Contents
  BY DEF Contents
<1>4. /\ g \in [In(d, "data") -> Contents]
      /\ \A i \in In(d, "data") :
           /\ g[i].episode = f[i].episode
           /\ g[i].column = IF i = x.to THEN f[i].column - 1 ELSE f[i].column
  <2>1. \A i \in In(d, "data") : f[i] \in Contents
    BY <1>1
  <2>2. \A i \in In(d, "data") : 
          g[i] = IF i = x.to THEN [f[i] EXCEPT !.column = @ - 1] ELSE f[i]
    BY <1>1
  <2>3. g \in [In(d, "data") -> Contents]
    BY <1>1, <1>3
  <2>4. \A c \in Contents : /\ [c EXCEPT !.column = @ - 1].episode = c.episode
                            /\ [c EXCEPT !.column = @ - 1].column = c.column - 1
    BY DEF Contents
  <2> QED
    BY <2>1, <2>2, <2>3, <2>4
<1>5. g \in FileMaps
  BY <1>1, <1>4 DEF FileMaps
<1> HIDE DEF g
<1>6. /\ files' \in [Datasets -> [Range(Stores) -> FileMaps]]
      /\ files'[d]["data"] = g
      /\ \A e \in Datasets : \A s \in Range(Stores) :
           e # d \/ s # "data" => files'[e][s] = files[e][s]
  BY <1>2, <1>5, Stored, DataIsStore
<1>7. DOMAIN g = In(d, "data")
  BY <1>4
<1>8. x.op = "patch"
  BY DEF PatchParquet, Doing
<1> QED
  BY <1>4, <1>6, <1>7, <1>8 DEF In

\* Adding and taking away the same number.
LEMMA PlusMinus ==
  ASSUME NEW a \in Int, NEW b \in Int
  PROVE  (a + b) - b = a
OBVIOUS

\* Merging data adds the parquet files of the source, moved, over what is
\* there.
LEMMA MergeDataDoes ==
  ASSUME TypeOK, MergesFit, NEW d \in Datasets, d = job.on,
         NEW x \in job.todo, MergeData(x)
  PROVE  /\ files' \in [Datasets -> [Range(Stores) -> FileMaps]]
         /\ x.op = "merge data" /\ x.in \in Datasets \ {d} /\ x.from \in Nat
         /\ \A e \in Datasets : \A s \in Range(Stores) :
              e # d \/ s # "data" => files'[e][s] = files[e][s]
         /\ In(d, "data")' = In(d, "data") \cup {k + x.from : k \in In(x.in, "data")}
         /\ \A i \in In(d, "data") \cup {k + x.from : k \in In(x.in, "data")} :
              files'[d]["data"][i] =
                IF i - x.from \in In(x.in, "data")
                THEN File(Ep(x.in, "data", i - x.from), i) ELSE files[d]["data"][i]
<1>1. /\ x.op = "merge data" /\ x.in \in Datasets \ {d} /\ x.from \in Nat
      /\ \A i \in In(x.in, "data") : i + x.from \in Indices
  <2>1. x.op = "merge data"
    BY DEF MergeData, Doing
  <2>2. x \in Steps
    BY DEF TypeOK
  <2> QED
    BY <2>1, <2>2, DataIsStore DEF MergesFit, MergeOps, Steps
<1>0. x.from \in Int
  <2>1. x \in Steps
    BY DEF TypeOK
  <2> QED
    BY <2>1 DEF Steps
<1> DEFINE source == files[x.in]["data"]
           old == files[d]["data"]
           S == DOMAIN old \cup {k + x.from : k \in DOMAIN source}
           g == [i \in S |-> IF i - x.from \in DOMAIN source
                             THEN File(source[i - x.from].episode, i) ELSE old[i]]
<1>2. Store("data", g)
  BY DEF MergeData, Here
<1>3. /\ DOMAIN source = In(x.in, "data") /\ DOMAIN old = In(d, "data")
      /\ In(d, "data") \in SUBSET Indices /\ In(x.in, "data") \in SUBSET Indices
      /\ \A i \in In(x.in, "data") : source[i].episode \in Episode
      /\ \A i \in In(d, "data") : old[i] \in Contents
  BY <1>1, MapsOK, DataIsStore DEF In, Ep
<1>4. S \in SUBSET Indices
  BY <1>1, <1>3
<1>5. g \in [S -> Contents]
  <2> SUFFICES ASSUME NEW i \in S
               PROVE  (IF i - x.from \in DOMAIN source
                       THEN File(source[i - x.from].episode, i) ELSE old[i]) \in Contents
    OBVIOUS
  <2>1. i \in Int
    BY <1>4 DEF Indices
  <2>2. CASE i - x.from \in DOMAIN source
    BY <1>3, <2>1, <2>2 DEF File, Contents
  <2>3. CASE i - x.from \notin DOMAIN source
    <3>1. i \in DOMAIN old
      <4> SUFFICES ASSUME NEW k \in DOMAIN source, i = k + x.from
                   PROVE  FALSE
        OBVIOUS
      <4>1. k \in Int
        BY <1>3 DEF Indices
      <4>2. i - x.from = k
        BY <1>0, <4>1, PlusMinus
      <4> QED
        BY <2>3, <4>2
    <3> QED
      BY <1>3, <2>3, <3>1
  <2> QED
    BY <2>2, <2>3
<1>6. g \in FileMaps
  BY <1>4, <1>5 DEF FileMaps
<1>7. /\ files' \in [Datasets -> [Range(Stores) -> FileMaps]]
      /\ files'[d]["data"] = g
      /\ \A e \in Datasets : \A s \in Range(Stores) :
           e # d \/ s # "data" => files'[e][s] = files[e][s]
  <2> HIDE DEF g
  <2> QED
    BY <1>2, <1>6, Stored, DataIsStore
<1>8. DOMAIN g = S /\ \A i \in S : g[i] = IF i - x.from \in DOMAIN source
                             THEN File(source[i - x.from].episode, i) ELSE old[i]
  OBVIOUS
<1> HIDE DEF g
<1>9. In(d, "data")' = S
  BY <1>7, <1>8 DEF In
<1> QED
  BY <1>1, <1>3, <1>7, <1>8, <1>9 DEF Ep

\* Merging videos adds those of the source, moved, where there are none.
LEMMA MergeVideosDoes ==
  ASSUME TypeOK, MergesFit, NEW d \in Datasets, d = job.on,
         NEW x \in job.todo, MergeVideos(x)
  PROVE  /\ files' \in [Datasets -> [Range(Stores) -> FileMaps]]
         /\ x.op = "merge videos" /\ x.in \in Datasets \ {d} /\ x.from \in Nat
         /\ x.to \in Nat
         /\ \A e \in Datasets : \A s \in Range(Stores) :
              e # d \/ s \notin Range(Videos) => files'[e][s] = files[e][s]
         /\ \A s \in Range(Videos) :
              /\ In(d, s)' = In(d, s) \cup {k + x.from : k \in {i \in In(x.in, s) : i < x.to}}
              /\ \A i \in In(d, s) : files'[d][s][i] = files[d][s][i]
              /\ \A k \in In(x.in, s) : k < x.to /\ k + x.from \notin In(d, s) =>
                   files'[d][s][k + x.from] = files[x.in][s][k]
<1>1. /\ x.op = "merge videos" /\ x.in \in Datasets \ {d} /\ x.from \in Nat
      /\ x.to \in Nat
      /\ \A s \in Range(Stores) : \A i \in In(x.in, s) : i + x.from \in Indices
  <2>1. x.op = "merge videos"
    BY DEF MergeVideos, Doing
  <2>2. x \in Steps
    BY DEF TypeOK
  <2> QED
    BY <2>1, <2>2 DEF MergesFit, MergeOps, Steps
<1>0. x.from \in Int
  <2>1. x \in Steps
    BY DEF TypeOK
  <2> QED
    BY <2>1 DEF Steps
<1> DEFINE source(s) == {i \in In(x.in, s) : i < x.to}
           S(s) == In(d, s) \cup {k + x.from : k \in source(s)}
           g(s) == [i \in S(s) |-> IF i \in In(d, s) THEN files[d][s][i]
                                   ELSE files[x.in][s][i - x.from]]
           h == [s \in Range(Stores) |-> IF s \notin Range(Videos) THEN files[d][s] ELSE g(s)]
<1>2. files' = [files EXCEPT ![d] = h]
  <2>1. files \in [Datasets -> [Range(Stores) -> FileMaps]]
    BY DEF TypeOK
  <2> QED
    BY <2>1 DEF MergeVideos, In
<1>3. \A s \in Range(Videos) : s \in Range(Stores)
  BY DataIsStore
<1>4. ASSUME NEW s \in Range(Videos)
      PROVE  g(s) \in FileMaps
  <2>1. /\ s \in Range(Stores)
        /\ In(d, s) \in SUBSET Indices /\ In(x.in, s) \in SUBSET Indices
        /\ \A i \in In(d, s) : files[d][s][i] \in Contents
        /\ \A i \in In(x.in, s) : files[x.in][s][i] \in Contents
    BY <1>1, <1>3, MapsOK
  <2>2. S(s) \in SUBSET Indices
    BY <1>1, <2>1
  <2>3. g(s) \in [S(s) -> Contents]
    <3> SUFFICES ASSUME NEW i \in S(s), i \notin In(d, s)
                 PROVE  files[x.in][s][i - x.from] \in Contents
      BY <2>1
    <3>1. PICK k \in source(s) : i = k + x.from
      OBVIOUS
    <3>2. k \in Int
      BY <2>1 DEF Indices
    <3>3. i - x.from = k
      BY <1>0, <3>1, <3>2, PlusMinus
    <3> QED
      BY <2>1, <3>3
  <2> QED
    BY <2>2, <2>3 DEF FileMaps
<1>5. h \in [Range(Stores) -> FileMaps]
  <2> SUFFICES ASSUME NEW s \in Range(Stores)
               PROVE  (IF s \notin Range(Videos) THEN files[d][s] ELSE g(s)) \in FileMaps
    OBVIOUS
  <2>1. files[d][s] \in FileMaps
    BY DEF TypeOK
  <2> HIDE DEF g
  <2> QED
    BY <1>4, <2>1
<1>6. /\ \A s \in Range(Stores) : s \notin Range(Videos) => h[s] = files[d][s]
      /\ \A s \in Range(Videos) : h[s] = g(s)
  BY <1>3
<1> HIDE DEF h
<1>7. /\ files' \in [Datasets -> [Range(Stores) -> FileMaps]]
      /\ files'[d] = h
      /\ \A e \in Datasets : e # d => files'[e] = files[e]
  <2>1. files \in [Datasets -> [Range(Stores) -> FileMaps]]
    BY DEF TypeOK
  <2> QED
    BY <1>2, <1>5, <2>1
<1>8. ASSUME NEW s \in Range(Videos)
      PROVE  /\ In(d, s)' = S(s)
             /\ \A i \in In(d, s) : files'[d][s][i] = files[d][s][i]
             /\ \A k \in In(x.in, s) : k < x.to /\ k + x.from \notin In(d, s) =>
                   files'[d][s][k + x.from] = files[x.in][s][k]
  <2>1. files'[d][s] = g(s)
    BY <1>6, <1>7
  <2>2. In(d, s)' = S(s)
    BY <2>1 DEF In
  <2>3. \A i \in In(d, s) : files'[d][s][i] = files[d][s][i]
    BY <2>1
  <2>4. ASSUME NEW k \in In(x.in, s), k < x.to, k + x.from \notin In(d, s)
        PROVE  files'[d][s][k + x.from] = files[x.in][s][k]
    <3>1. k \in Int
      <4>1. In(x.in, s) \in SUBSET Indices
        BY <1>1, <1>3, MapsOK
      <4> QED
        BY <4>1 DEF Indices
    <3>2. (k + x.from) - x.from = k
      BY <1>0, <3>1, PlusMinus
    <3>3. k + x.from \in S(s)
      BY <2>4
    <3>4. files'[d][s][k + x.from] = files[x.in][s][(k + x.from) - x.from]
      BY <2>1, <2>4, <3>3
    <3> QED
      BY <3>2, <3>4
  <2> QED
    BY <2>2, <2>3, <2>4
<1> QED
  BY <1>1, <1>3, <1>6, <1>7, <1>8

\* The map of a request is from indices to indices.
LEMMA MapIsMap ==
  ASSUME TypeOK, NEW i \in DOMAIN job.map
  PROVE  i \in Indices /\ job.map[i] \in Indices
<1>1. job.map \in IndexMaps
  BY DEF TypeOK
<1>2. PICK S \in SUBSET Indices : job.map \in [S -> Indices]
  BY <1>1 DEF IndexMaps
<1> QED
  BY <1>2

\* Rewriting one file of metadata renumbers its rows and drops the others.
LEMMA RewriteDoes ==
  ASSUME TypeOK, NEW d \in Datasets, d = job.on, Feasible(d),
         NEW x \in job.todo, RewriteRows(x)
  PROVE  /\ rows' \in [Datasets -> [Range(RowFiles) -> Rows]]
         /\ x.op = "rows" /\ x.in \in Range(RowFiles)
         /\ \A e \in Datasets : \A r \in Range(RowFiles) :
              e # d \/ r # x.in => rows'[e][r] = rows[e][r]
         /\ rows'[d][x.in] = {Row(job.map[q.index], q.episode) :
                                q \in {q \in rows[d][x.in] : q.index \in DOMAIN job.map}}
<1>1. x.op = "rows" /\ x.in \in Range(RowFiles)
  BY DEF Feasible, RewriteRows, Doing, Todo
<1> DEFINE R == {Row(job.map[q.index], q.episode) :
                   q \in {q \in rows[d][x.in] : q.index \in DOMAIN job.map}}
<1>2. rows' = [rows EXCEPT ![d][x.in] = R]
  BY <1>1 DEF RewriteRows, TypeOK
<1>3. rows[d][x.in] \in Rows
  BY <1>1 DEF TypeOK
<1>4. R \in Rows
  <2>1. \A q \in rows[d][x.in] : q.episode \in Episode
    BY <1>3 DEF Rows
  <2> QED
    BY <2>1, MapIsMap DEF Rows, Row
<1> HIDE DEF R
<1>5. rows \in [Datasets -> [Range(RowFiles) -> Rows]]
  BY DEF TypeOK
<1>6. /\ rows' \in [Datasets -> [Range(RowFiles) -> Rows]]
      /\ \A e \in Datasets : \A r \in Range(RowFiles) :
           e # d \/ r # x.in => rows'[e][r] = rows[e][r]
      /\ rows'[d][x.in] = R
  BY <1>1, <1>2, <1>4, <1>5
<1> QED
  BY <1>1, <1>6 DEF R

\* Clearing leaves a dataset without rows and with no episodes counted.
LEMMA ClearDoes ==
  ASSUME TypeOK, NEW d \in Datasets, d = job.on, NEW x \in job.todo, ClearMeta(x)
  PROVE  /\ rows' \in [Datasets -> [Range(RowFiles) -> Rows]]
         /\ count' \in [Datasets -> Nat]
         /\ x.op = "clear"
         /\ \A e \in Datasets : e # d => rows'[e] = rows[e] /\ count'[e] = count[e]
         /\ \A r \in Range(RowFiles) : rows'[d][r] = {}
         /\ count'[d] = 0
<1> DEFINE R == [r \in Range(RowFiles) |-> {}]
<1>1. R \in [Range(RowFiles) -> Rows]
  BY DEF Rows
<1>2. rows' = [rows EXCEPT ![d] = R] /\ count' = [count EXCEPT ![d] = 0] /\ x.op = "clear"
  BY DEF ClearMeta, Doing
<1>3. \A r \in Range(RowFiles) : R[r] = {}
  OBVIOUS
<1> HIDE DEF R
<1>4. rows \in [Datasets -> [Range(RowFiles) -> Rows]] /\ count \in [Datasets -> Nat]
  BY DEF TypeOK
<1> QED
  BY <1>1, <1>2, <1>3, <1>4

\* Merging metadata adds the rows and the number of episodes of the source.
LEMMA MergeMetaDoes ==
  ASSUME TypeOK, MergesFit, NEW d \in Datasets, d = job.on,
         NEW x \in job.todo, MergeMeta(x)
  PROVE  /\ rows' \in [Datasets -> [Range(RowFiles) -> Rows]]
         /\ count' \in [Datasets -> Nat]
         /\ x.op = "merge meta" /\ x.in \in Datasets \ {d}
         /\ \A e \in Datasets : e # d => rows'[e] = rows[e] /\ count'[e] = count[e]
         /\ \A r \in Range(RowFiles) : rows'[d][r] =
              rows[d][r] \cup {Row(q.index + x.from, q.episode) : q \in rows[x.in][r]}
         /\ count'[d] = count[d] + count[x.in]
<1>1. x.op = "merge meta"
  BY DEF MergeMeta, Doing
<1>2. /\ x.in \in Datasets \ {d}
      /\ \A r \in Range(RowFiles) : \A w \in rows[x.in][r] : w.index + x.from \in Indices
  BY <1>1 DEF MergesFit, MergeOps
<1>3. rows \in [Datasets -> [Range(RowFiles) -> Rows]] /\ count \in [Datasets -> Nat]
  BY DEF TypeOK
<1> DEFINE S(r) == rows[d][r] \cup {Row(q.index + x.from, q.episode) : q \in rows[x.in][r]}
           R == [r \in Range(RowFiles) |-> S(r)]
<1>4. ASSUME NEW r \in Range(RowFiles)
      PROVE  S(r) \in Rows
  <2>1. rows[d][r] \in Rows /\ rows[x.in][r] \in Rows
    BY <1>2, <1>3
  <2>2. \A q \in rows[x.in][r] : q.episode \in Episode /\ q.index + x.from \in Indices
    BY <1>2, <2>1 DEF Rows
  <2>3. \A q \in rows[x.in][r] :
          Row(q.index + x.from, q.episode) \in [index : Indices, episode : Episode]
    BY <2>2 DEF Row
  <2> QED
    BY <2>1, <2>3 DEF Rows
<1>5. rows' = [rows EXCEPT ![d] = R] /\ count' = [count EXCEPT ![d] = @ + count[x.in]]
  BY <1>3 DEF MergeMeta
<1>6. R \in [Range(RowFiles) -> Rows] /\ \A r \in Range(RowFiles) : R[r] = S(r)
  <2> HIDE DEF S
  <2> QED
    BY <1>4
<1> HIDE DEF R
<1>7. /\ rows' \in [Datasets -> [Range(RowFiles) -> Rows]]
      /\ \A e \in Datasets : e # d => rows'[e] = rows[e]
      /\ rows'[d] = R
  BY <1>3, <1>5, <1>6
<1>8. /\ count' \in [Datasets -> Nat]
      /\ \A e \in Datasets : e # d => count'[e] = count[e]
      /\ count'[d] = count[d] + count[x.in]
  BY <1>2, <1>3, <1>5
<1> QED
  BY <1>1, <1>2, <1>6, <1>7, <1>8

\* Writing the info lessens the number of episodes, to zero at least.
LEMMA InfoDoes ==
  ASSUME TypeOK, NEW d \in Datasets, d = job.on, NEW x \in job.todo, WriteInfo(x)
  PROVE  /\ count' \in [Datasets -> Nat] /\ x.op = "info" /\ x.from \in Nat
         /\ \A e \in Datasets : e # d => count'[e] = count[e]
         /\ count'[d] = IF count[d] > x.from THEN count[d] - x.from ELSE 0
<1>1. x \in Steps
  BY DEF TypeOK
<1>2. x.from \in Nat
  BY <1>1 DEF Steps
<1>3. count \in [Datasets -> Nat]
  BY DEF TypeOK
<1> DEFINE n == IF count[d] > x.from THEN count[d] - x.from ELSE 0
<1>4. n \in Nat
  BY <1>2, <1>3
<1>5. count' = [count EXCEPT ![d] = n]
  BY <1>3 DEF WriteInfo
<1> HIDE DEF n
<1>6. /\ count' \in [Datasets -> Nat]
      /\ \A e \in Datasets : e # d => count'[e] = count[e]
      /\ count'[d] = n
  BY <1>3, <1>4, <1>5
<1> QED
  BY <1>2, <1>6 DEF WriteInfo, Doing, n

----------------------------------------------------------------------------
(* Deletions: what a step does to the files of its dataset.                *)

\* A step neither loses nor changes what will be under an index in the end.
Flow(d) ==
  \A s \in Range(Stores) : \A i, j \in Indices :
    /\ Goes(d, s, i, j)' =>
         \E k \in Indices : Goes(d, s, k, j) /\ Ep(d, s, k) = Ep(d, s, i)'
    /\ Goes(d, s, i, j) =>
         \E k \in Indices : Goes(d, s, k, j)' /\ Ep(d, s, k)' = Ep(d, s, i)

\* Nor does it lose or change a row's.
RowFlow(d) ==
  \A r \in Range(RowFiles) : \A q \in rows'[d][r] : \A j \in Indices :
    RowGoes(d, r, q, j)' =>
      \E w \in rows[d][r] : RowGoes(d, r, w, j) /\ w.episode = q.episode

\* Media keep agreeing with the parquet files when no file's way is changed.
LEMMA FlowKeepsMedia ==
  ASSUME NEW d \in Datasets, Flow(d), state'[d] = state[d], asked'[d] = asked[d],
         MediaAgree(d)
  PROVE  MediaAgree(d)'
<1> SUFFICES ASSUME NEW s \in Range(Media), NEW i \in Indices, NEW j \in Indices,
                    Goes(d, s, i, j)',
                    state'[d] = "exact" \/ Ep(d, s, i)' \notin asked'[d]
             PROVE  \E k \in Indices : Goes(d, "data", k, j)' /\ Ep(d, "data", k)' = Ep(d, s, i)'
  BY DEF MediaAgree
<1>1. s \in Range(Stores) /\ "data" \in Range(Stores)
  BY DataIsStore
<1>2. PICK i0 \in Indices : Goes(d, s, i0, j) /\ Ep(d, s, i0) = Ep(d, s, i)'
  BY <1>1 DEF Flow
<1>3. PICK k0 \in Indices : Goes(d, "data", k0, j) /\ Ep(d, "data", k0) = Ep(d, s, i0)
  BY <1>2 DEF MediaAgree
<1>4. PICK k \in Indices : Goes(d, "data", k, j)' /\ Ep(d, "data", k)' = Ep(d, "data", k0)
  BY <1>1, <1>3 DEF Flow
<1> QED
  BY <1>2, <1>3, <1>4

\* So do the rows,
LEMMA FlowKeepsRows ==
  ASSUME NEW d \in Datasets, Flow(d), RowFlow(d), RowsAgree(d)
  PROVE  RowsAgree(d)'
<1> SUFFICES ASSUME NEW r \in Range(RowFiles), NEW q \in rows'[d][r],
                    NEW k \in Indices, NEW j \in Indices,
                    RowGoes(d, r, q, j)', Goes(d, "data", k, j)'
             PROVE  q.episode = Ep(d, "data", k)'
  BY DEF RowsAgree
<1>1. PICK w \in rows[d][r] : RowGoes(d, r, w, j) /\ w.episode = q.episode
  BY DEF RowFlow
<1>2. PICK k0 \in Indices : Goes(d, "data", k0, j) /\ Ep(d, "data", k0) = Ep(d, "data", k)'
  BY DataIsStore DEF Flow
<1> QED
  BY <1>1, <1>2 DEF RowsAgree

\* Below, of the next state; the bound is a value of this one.
BelowNext(d, n) ==
  /\ \A i, j \in Indices : Goes(d, "data", i, j)' => j < n
  /\ \A r \in Range(RowFiles) : \A q \in rows'[d][r] : \A j \in Indices :
       RowGoes(d, r, q, j)' => j < n

\* and the bound of the indices.
LEMMA FlowKeepsBelow ==
  ASSUME NEW d \in Datasets, Flow(d), RowFlow(d)
  PROVE  \A n : Below(d, n) => BelowNext(d, n)
<1> SUFFICES ASSUME NEW n, Below(d, n)
             PROVE  BelowNext(d, n)
  OBVIOUS
<1>1. ASSUME NEW i \in Indices, NEW j \in Indices, Goes(d, "data", i, j)'
      PROVE  j < n
  <2>1. PICK k \in Indices : Goes(d, "data", k, j)
    BY <1>1, DataIsStore DEF Flow
  <2> QED
    BY <2>1 DEF Below
<1>2. ASSUME NEW r \in Range(RowFiles), NEW q \in rows'[d][r], NEW j \in Indices,
             RowGoes(d, r, q, j)'
      PROVE  j < n
  <2>1. PICK w \in rows[d][r] : RowGoes(d, r, w, j)
    BY <1>2 DEF RowFlow
  <2> QED
    BY <2>1 DEF Below
<1> QED
  BY <1>1, <1>2 DEF BelowNext

\* A file is never copied or renamed onto itself.
LEMMA MovesSomewhere ==
  ASSUME NEW T \in SUBSET Steps, Ordered(T), NEW x \in T, Moves(x)
  PROVE  x.from # x.to
<1>1. x.at[1] \in Nat /\ x.at[2] \in Nat /\ x.at[3] \in Nat
  BY DEF Steps
<1>2. ~Earlier(x, x)
  BY <1>1 DEF Earlier
<1>3. Takes(x)
  BY DEF Takes, Moves
<1> QED
  BY <1>2, <1>3 DEF Ordered

\* The dataset that is edited and the step that is next.
Working(d, x) ==
  /\ TypeOK /\ d = job.on /\ Ordered(job.todo) /\ Feasible(d)
  /\ x \in job.todo /\ NextIn(job.todo, x) /\ Done(x)
  /\ UNCHANGED <<asked, state>>

\* What the step that is next has ahead of it and behind it.
LEMMA AtWork ==
  ASSUME NEW d \in Datasets, NEW x, Working(d, x)
  PROVE  /\ Todo(d) = job.todo /\ Todo(d) \in SUBSET Steps
         /\ Todo(d)' = job.todo \ {x}
         /\ asked'[d] = asked[d] /\ state'[d] = state[d]
         /\ \A q \in Todo(d) : ~Earlier(q, x)
<1>1. Todo(d) = job.todo /\ job.todo \in SUBSET Steps
  BY DEF Working, Todo, TypeOK
<1>2. Todo(d)' = Todo(d) \ {x}
  BY JobGoesOn DEF Working
<1>3. \A q \in Todo(d) : ~Earlier(q, x)
  BY <1>1, NextIsFirst DEF Working
<1> QED
  BY <1>1, <1>2, <1>3 DEF Working

\* Unlinking: a file that went somewhere was not to be unlinked.
LEMMA UnlinkFlows ==
  ASSUME NEW d \in Datasets, NEW x, Working(d, x), UnlinkFile(x)
  PROVE  Flow(d) /\ Feasible(d)' /\ UNCHANGED rows
<1> DEFINE T == job.todo
<1>1. /\ Todo(d) = T /\ Todo(d)' = T \ {x} /\ x \in T /\ \A q \in T : ~Earlier(q, x)
      /\ Ordered(T) /\ Feasible(d)
  BY AtWork DEF Working
<1>2. /\ x.op = "unlink" /\ x.in \in Range(Stores) /\ x.from \in In(d, x.in)
      /\ \A e \in Datasets : \A s \in Range(Stores) :
              e # d \/ s # x.in => files'[e][s] = files[e][s]
      /\ In(d, x.in)' = In(d, x.in) \ {x.from}
      /\ \A i \in In(d, x.in) \ {x.from} : files'[d][x.in][i] = files[d][x.in][i]
  BY UnlinkDoes DEF Working
<1>3. \A s \in Range(Stores) :
        /\ In(d, s)' = IF s = x.in THEN In(d, s) \ {x.from} ELSE In(d, s)
        /\ \A i \in In(d, s)' : Ep(d, s, i)' = Ep(d, s, i)
  BY <1>2 DEF In, Ep
<1>4. \A m \in T : Moves(m) /\ m.in = x.in => m.from # x.from
  <2> SUFFICES ASSUME NEW m \in T, Moves(m), m.in = x.in, m.from = x.from
               PROVE  FALSE
    OBVIOUS
  <2>1. Follows(m, x)
    BY <1>1, <1>2 DEF Ordered
  <2>2. T \in SUBSET Steps
    BY AtWork, <1>1
  <2> QED
    BY <1>1, <2>1, <2>2, FollowerIsLater
<1> HIDE DEF T
<1>5. ASSUME NEW s \in Range(Stores), NEW i, NEW j
      PROVE  Goes(d, s, i, j)' <=> Goes(d, s, i, j)
  <2>1. Takes(x) /\ ~Moves(x)
    BY <1>2 DEF Takes, Moves
  <2>2. CASE s = x.in /\ i = x.from
    <3>1. ~Goes(d, s, i, j)'
      BY <1>3, <2>2 DEF Goes
    <3>2. ~Goes(d, s, i, j)
      BY <1>1, <1>4, <2>1, <2>2 DEF Goes
    <3> QED
      BY <3>1, <3>2
  <2>3. CASE ~(s = x.in /\ i = x.from)
    <3>1. i \in In(d, s)' <=> i \in In(d, s)
      BY <1>3, <2>3
    <3>2. (\E m \in T \ {x} : Moves(m) /\ m.in = s /\ m.from = i /\ m.to = j)
            <=> (\E m \in T : Moves(m) /\ m.in = s /\ m.from = i /\ m.to = j)
      BY <2>1
    <3>3. (\A q \in T \ {x} : Takes(q) /\ q.in = s => q.from # i)
            <=> (\A q \in T : Takes(q) /\ q.in = s => q.from # i)
      BY <2>3
    <3>4. (\A q \in T \ {x} : Moves(q) /\ q.in = s => q.to # i)
            <=> (\A q \in T : Moves(q) /\ q.in = s => q.to # i)
      BY <2>1
    <3>5. Goes(d, s, i, j)' <=>
            /\ i \in In(d, s)'
            /\ \/ \E m \in T \ {x} : Moves(m) /\ m.in = s /\ m.from = i /\ m.to = j
               \/ /\ i = j
                  /\ \A q \in T \ {x} : Takes(q) /\ q.in = s => q.from # i
                  /\ \A q \in T \ {x} : Moves(q) /\ q.in = s => q.to # i
      BY <1>1 DEF Goes, Moves, Takes
    <3> QED
      BY <1>1, <3>1, <3>2, <3>3, <3>4, <3>5 DEF Goes
  <2> QED
    BY <2>2, <2>3
<1>6. Flow(d)
  <2>1. \A s \in Range(Stores) : \A i, j : Goes(d, s, i, j)' => i \in In(d, s)'
    BY DEF Goes
  <2> QED
    BY <1>3, <1>5, <2>1 DEF Flow
<1>7. Feasible(d)'
  <2> SUFFICES ASSUME NEW q \in T \ {x}
               PROVE  /\ Takes(q) => /\ q.in \in Range(Stores) /\ q.from \in In(d, q.in)'
                                     /\ q.to \in Indices
                      /\ q.op = "copy" => q.in = "data"
                      /\ q.op = "rows" => q.in \in Range(RowFiles)
    BY <1>1 DEF Feasible, Takes
  <2>1. /\ Takes(q) => q.in \in Range(Stores) /\ q.from \in In(d, q.in) /\ q.to \in Indices
        /\ q.op = "copy" => q.in = "data"
        /\ q.op = "rows" => q.in \in Range(RowFiles)
    BY <1>1 DEF Feasible
  <2>2. ASSUME Takes(q), q.in = x.in
        PROVE  q.from # x.from
    <3>1. CASE q.op = "unlink"
      BY <1>1, <1>2, <2>2, <3>1 DEF Ordered
    <3>2. CASE Moves(q)
      BY <1>4, <2>2, <3>2
    <3> QED
      BY <2>2, <3>1, <3>2 DEF Takes, Moves
  <2> QED
    BY <1>3, <2>1, <2>2
<1> QED
  BY <1>6, <1>7 DEF UnlinkFile

\* Copying and renaming: the file goes where it went, under a name nobody else
\* is given.
LEMMA MoveFlows ==
  ASSUME NEW d \in Datasets, NEW x, Working(d, x), Moves(x),
         \A s \in Range(Stores) : s # x.in => files'[d][s] = files[d][s],
         In(d, x.in)' =
           (IF x.op = "rename" THEN In(d, x.in) \ {x.from} ELSE In(d, x.in)) \cup {x.to},
         Ep(d, x.in, x.to)' = Ep(d, x.in, x.from),
         \A i \in In(d, x.in)' \ {x.to} : Ep(d, x.in, i)' = Ep(d, x.in, i)
  PROVE  Flow(d) /\ Feasible(d)'
<1> DEFINE T == job.todo
<1>1. /\ Todo(d) = T /\ Todo(d)' = T \ {x} /\ x \in T /\ \A q \in T : ~Earlier(q, x)
      /\ Ordered(T) /\ Feasible(d) /\ T \in SUBSET Steps
  BY AtWork DEF Working
<1> HIDE DEF T
<1>2. /\ x.in \in Range(Stores) /\ x.from \in In(d, x.in) /\ x.to \in Indices
      /\ x.from # x.to /\ Takes(x)
  BY <1>1, MovesSomewhere DEF Feasible, Takes, Moves
<1>3. \A q \in T : Takes(q) /\ q.in = x.in => q.from # x.to
  BY <1>1 DEF Ordered
<1>4. \A m \in T \ {x} : Moves(m) /\ m.in = x.in => m.from # x.from /\ m.to # x.to
  BY <1>1 DEF Ordered
<1>5. x.from \in In(d, x.in)' => \E u \in T \ {x} : Takes(u) /\ u.in = x.in /\ u.from = x.from
  <2> SUFFICES ASSUME x.from \in In(d, x.in)'
               PROVE  \E u \in T \ {x} : Takes(u) /\ u.in = x.in /\ u.from = x.from
    OBVIOUS
  <2>1. x.op = "copy"
    BY <1>2 DEF Moves
  <2>2. PICK u \in T : u.op = "unlink" /\ u.in = x.in /\ u.from = x.from
    BY <1>1, <2>1 DEF Ordered
  <2>3. u # x
    BY <2>1, <2>2
  <2> QED
    BY <2>2, <2>3 DEF Takes
<1>6. \A i, j : ~Goes(d, x.in, i, j)' \/ i # x.from
  BY <1>1, <1>4, <1>5 DEF Goes, Moves, Takes
<1>7. \A j : Goes(d, x.in, x.from, j) <=> j = x.to
  <2>1. Goes(d, x.in, x.from, x.to)
    BY <1>1, <1>2 DEF Goes
  <2>2. ASSUME NEW j, Goes(d, x.in, x.from, j)
        PROVE  j = x.to
    <3>1. CASE \E m \in T : Moves(m) /\ m.in = x.in /\ m.from = x.from /\ m.to = j
      BY <1>4, <3>1
    <3>2. CASE \A q \in T : Takes(q) /\ q.in = x.in => q.from # x.from
      BY <1>1, <1>2, <3>2
    <3> QED
      BY <1>1, <2>2, <3>1, <3>2 DEF Goes
  <2> QED
    BY <2>1, <2>2
<1>8. \A j : ~Goes(d, x.in, x.to, j)
  <2> SUFFICES ASSUME NEW j, Goes(d, x.in, x.to, j)
               PROVE  FALSE
    OBVIOUS
  <2>1. ~ \E m \in T : Moves(m) /\ m.in = x.in /\ m.from = x.to /\ m.to = j
    BY <1>3 DEF Moves, Takes
  <2>2. ~ \A q \in T : Moves(q) /\ q.in = x.in => q.to # x.to
    BY <1>1
  <2> QED
    BY <1>1, <2>1, <2>2 DEF Goes
<1>9. \A j : Goes(d, x.in, x.to, j)' <=> j = x.to
  <2>1. \A m \in T \ {x} : Takes(m) /\ m.in = x.in => m.from # x.to
    BY <1>3
  <2>2. \A m \in T \ {x} : Moves(m) => Takes(m)
    BY DEF Moves, Takes
  <2>3. x.to \in In(d, x.in)'
    OBVIOUS
  <2>4. \A j : Goes(d, x.in, x.to, j)' <=>
            /\ x.to \in In(d, x.in)'
            /\ \/ \E m \in T \ {x} : Moves(m) /\ m.in = x.in /\ m.from = x.to /\ m.to = j
               \/ /\ x.to = j
                  /\ \A q \in T \ {x} : Takes(q) /\ q.in = x.in => q.from # x.to
                  /\ \A q \in T \ {x} : Moves(q) /\ q.in = x.in => q.to # x.to
    BY <1>1 DEF Goes, Moves, Takes
  <2> QED
    BY <1>4, <2>1, <2>2, <2>3, <2>4
<1>10. ASSUME NEW s \in Range(Stores), NEW i, NEW j, s = x.in => i # x.from /\ i # x.to
       PROVE  Goes(d, s, i, j)' <=> Goes(d, s, i, j)
  <2>1. i \in In(d, s)' <=> i \in In(d, s)
    <3>1. CASE s = x.in
      BY <1>10, <3>1
    <3>2. CASE s # x.in
      BY <3>2 DEF In
    <3> QED
      BY <3>1, <3>2
  <2>2. (\E m \in T \ {x} : Moves(m) /\ m.in = s /\ m.from = i /\ m.to = j)
          <=> (\E m \in T : Moves(m) /\ m.in = s /\ m.from = i /\ m.to = j)
    BY <1>10
  <2>3. (\A q \in T \ {x} : Takes(q) /\ q.in = s => q.from # i)
          <=> (\A q \in T : Takes(q) /\ q.in = s => q.from # i)
    BY <1>10
  <2>4. (\A q \in T \ {x} : Moves(q) /\ q.in = s => q.to # i)
          <=> (\A q \in T : Moves(q) /\ q.in = s => q.to # i)
    BY <1>10
  <2>5. Goes(d, s, i, j)' <=>
            /\ i \in In(d, s)'
            /\ \/ \E m \in T \ {x} : Moves(m) /\ m.in = s /\ m.from = i /\ m.to = j
               \/ /\ i = j
                  /\ \A q \in T \ {x} : Takes(q) /\ q.in = s => q.from # i
                  /\ \A q \in T \ {x} : Moves(q) /\ q.in = s => q.to # i
    BY <1>1 DEF Goes, Moves, Takes
  <2> QED
    BY <1>1, <2>1, <2>2, <2>3, <2>4, <2>5 DEF Goes
<1>11. Flow(d)
  <2> SUFFICES ASSUME NEW s \in Range(Stores), NEW i \in Indices, NEW j \in Indices
               PROVE  /\ Goes(d, s, i, j)' =>
                           \E k \in Indices : Goes(d, s, k, j) /\ Ep(d, s, k) = Ep(d, s, i)'
                      /\ Goes(d, s, i, j) =>
                           \E k \in Indices : Goes(d, s, k, j)' /\ Ep(d, s, k)' = Ep(d, s, i)
    BY DEF Flow
  <2>1. x.from \in Indices
    BY <1>2, MapsOK DEF Working
  <2>2. CASE s = x.in /\ i = x.from
    BY <1>2, <1>6, <1>7, <1>9, <2>2
  <2>3. CASE s = x.in /\ i = x.to
    BY <1>7, <1>8, <1>9, <2>1, <2>3
  <2>4. CASE s = x.in => i # x.from /\ i # x.to
    <3>1. Goes(d, s, i, j)' <=> Goes(d, s, i, j)
      BY <1>10, <2>4
    <3>2. Goes(d, s, i, j)' => Ep(d, s, i)' = Ep(d, s, i)
      <4>1. CASE s = x.in
        BY <2>4, <4>1 DEF Goes
      <4>2. CASE s # x.in
        BY <4>2 DEF Ep
      <4> QED
        BY <4>1, <4>2
    <3> QED
      BY <3>1, <3>2
  <2> QED
    BY <2>2, <2>3, <2>4
<1>12. Feasible(d)'
  <2> SUFFICES ASSUME NEW q \in T \ {x}
               PROVE  /\ Takes(q) => /\ q.in \in Range(Stores) /\ q.from \in In(d, q.in)'
                                     /\ q.to \in Indices
                      /\ q.op = "copy" => q.in = "data"
                      /\ q.op = "rows" => q.in \in Range(RowFiles)
    BY <1>1 DEF Feasible, Takes
  <2>1. /\ Takes(q) => q.in \in Range(Stores) /\ q.from \in In(d, q.in) /\ q.to \in Indices
        /\ q.op = "copy" => q.in = "data"
        /\ q.op = "rows" => q.in \in Range(RowFiles)
    BY <1>1 DEF Feasible
  <2>2. ASSUME Takes(q), q.in = x.in, x.op = "rename"
        PROVE  q.from # x.from
    <3>1. CASE q.op = "unlink"
      BY <1>1, <2>2, <3>1 DEF Ordered
    <3>2. CASE Moves(q)
      BY <1>4, <2>2, <3>2
    <3> QED
      BY <2>2, <3>1, <3>2 DEF Takes, Moves
  <2>3. ASSUME Takes(q)
        PROVE  q.from \in In(d, q.in)'
    <3>1. CASE q.in = x.in
      BY <2>1, <2>2, <2>3, <3>1
    <3>2. CASE q.in # x.in
      BY <2>1, <2>3, <3>2 DEF In
    <3> QED
      BY <3>1, <3>2
  <2> QED
    BY <2>1, <2>3
<1> QED
  BY <1>11, <1>12

\* A step that takes no file away leaves the ways of all files as they were.
LEMMA StillFlows ==
  ASSUME NEW d \in Datasets, NEW x, Working(d, x), ~Takes(x),
         \A s \in Range(Stores) : In(d, s)' = In(d, s),
         \A s \in Range(Stores) : \A i \in In(d, s) : Ep(d, s, i)' = Ep(d, s, i)
  PROVE  Flow(d) /\ Feasible(d)'
<1> DEFINE T == job.todo
<1>1. Todo(d) = T /\ Todo(d)' = T \ {x} /\ x \in T /\ Feasible(d)
  BY AtWork DEF Working
<1> HIDE DEF T
<1>2. ~Moves(x)
  BY DEF Moves, Takes
<1>3. ASSUME NEW s \in Range(Stores), NEW i, NEW j
      PROVE  Goes(d, s, i, j)' <=> Goes(d, s, i, j)
  <2>1. Goes(d, s, i, j)' <=>
            /\ i \in In(d, s)'
            /\ \/ \E m \in T \ {x} : Moves(m) /\ m.in = s /\ m.from = i /\ m.to = j
               \/ /\ i = j
                  /\ \A q \in T \ {x} : Takes(q) /\ q.in = s => q.from # i
                  /\ \A q \in T \ {x} : Moves(q) /\ q.in = s => q.to # i
    BY <1>1 DEF Goes, Moves, Takes
  <2> QED
    BY <1>1, <1>2, <2>1 DEF Goes
<1>4. \A s, i, j : Goes(d, s, i, j) => i \in In(d, s)
  BY DEF Goes
<1>5. Flow(d)
  BY <1>3, <1>4 DEF Flow
<1>6. Feasible(d)'
  BY <1>1 DEF Feasible, Takes
<1> QED
  BY <1>5, <1>6

\* The rows of a file of metadata that is not rewritten go where they went.
LEMMA RowsStill ==
  ASSUME NEW d \in Datasets, NEW x, Working(d, x), NEW r \in Range(RowFiles),
         ~(x.op = "rows" /\ x.in = r), rows'[d][r] = rows[d][r],
         NEW q \in rows[d][r], NEW j, RowGoes(d, r, q, j)'
  PROVE  RowGoes(d, r, q, j)
<1> DEFINE T == job.todo
<1>1. Todo(d) = T /\ Todo(d)' = T \ {x} /\ x \in T
  BY AtWork DEF Working
<1>2. \/ job' = NoJob /\ T \ {x} = {}
      \/ job'.map = job.map
  BY JobGoesOn DEF Working
<1> HIDE DEF T
<1>3. RowGoes(d, r, q, j)' <=>
         IF \E v \in T \ {x} : v.op = "rows" /\ v.in = r
         THEN q.index \in DOMAIN job'.map /\ j = job'.map[q.index] ELSE j = q.index
  BY <1>1 DEF RowGoes
<1>4. (\E v \in T \ {x} : v.op = "rows" /\ v.in = r)
        <=> (\E v \in T : v.op = "rows" /\ v.in = r)
  OBVIOUS
<1>5. RowGoes(d, r, q, j) <=>
         IF \E v \in T : v.op = "rows" /\ v.in = r
         THEN q.index \in DOMAIN job.map /\ j = job.map[q.index] ELSE j = q.index
  BY <1>1 DEF RowGoes
<1> QED
  BY <1>2, <1>3, <1>4, <1>5

\* Rewritten rows are where they were to go.
LEMMA RowsFlow ==
  ASSUME NEW d \in Datasets, NEW x, Working(d, x),
         \/ x.op # "rows" /\ \A r \in Range(RowFiles) : rows'[d][r] = rows[d][r]
         \/ RewriteRows(x)
  PROVE  RowFlow(d)
<1> SUFFICES ASSUME NEW r \in Range(RowFiles), NEW q \in rows'[d][r], NEW j \in Indices,
                    RowGoes(d, r, q, j)'
             PROVE  \E w \in rows[d][r] : RowGoes(d, r, w, j) /\ w.episode = q.episode
  BY DEF RowFlow
<1>1. CASE x.op # "rows" /\ \A t \in Range(RowFiles) : rows'[d][t] = rows[d][t]
  BY <1>1, RowsStill
<1>2. CASE RewriteRows(x)
  <2>1. /\ x.op = "rows" /\ x.in \in Range(RowFiles)
        /\ \A t \in Range(RowFiles) : t # x.in => rows'[d][t] = rows[d][t]
        /\ rows'[d][x.in] = {Row(job.map[w.index], w.episode) :
                                w \in {w \in rows[d][x.in] : w.index \in DOMAIN job.map}}
    BY <1>2, RewriteDoes DEF Working
  <2>2. CASE r # x.in
    BY <2>1, <2>2, RowsStill
  <2>3. CASE r = x.in
    <3>1. PICK w \in rows[d][r] : /\ w.index \in DOMAIN job.map
                                  /\ q = Row(job.map[w.index], w.episode)
      BY <2>1, <2>3
    <3>2. Todo(d) = job.todo /\ Todo(d)' = job.todo \ {x} /\ x \in job.todo
      BY AtWork DEF Working
    <3>3. \A v \in job.todo : v.op = "rows" /\ v.in = r => v = x
      BY <2>1, <2>3, <3>2 DEF Working, Ordered
    <3>4. j = q.index
      BY <3>2, <3>3 DEF RowGoes
    <3>5. RowGoes(d, r, w, j)
      BY <2>1, <2>3, <3>1, <3>2, <3>4 DEF RowGoes, Row
    <3> QED
      BY <3>1, <3>5 DEF Row
  <2> QED
    BY <2>2, <2>3
<1> QED
  BY <1>1, <1>2

\* What a step of a deletion does to the names in the directories.
Effect(d, x) ==
  \A s \in Range(Stores) :
    /\ s # x.in \/ ~Takes(x) =>
         In(d, s)' = In(d, s) /\ \A i \in In(d, s) : Ep(d, s, i)' = Ep(d, s, i)
    /\ s = x.in /\ Takes(x) =>
         /\ In(d, s)' =
              (IF x.op = "copy" THEN In(d, s) ELSE In(d, s) \ {x.from})
                \cup (IF Moves(x) THEN {x.to} ELSE {})
         /\ Moves(x) => Ep(d, s, x.to)' = Ep(d, s, x.from)
         /\ \A i \in In(d, s)' : ~Moves(x) \/ i # x.to => Ep(d, s, i)' = Ep(d, s, i)

\* The effect of unlinking,
LEMMA UnlinkHasEffect ==
  ASSUME NEW d \in Datasets, NEW x, Working(d, x), UnlinkFile(x)
  PROVE  Effect(d, x)
<1>1. /\ x.op = "unlink" /\ x.in \in Range(Stores) /\ x.from \in In(d, x.in)
      /\ \A e \in Datasets : \A s \in Range(Stores) :
              e # d \/ s # x.in => files'[e][s] = files[e][s]
      /\ In(d, x.in)' = In(d, x.in) \ {x.from}
      /\ \A i \in In(d, x.in) \ {x.from} : files'[d][x.in][i] = files[d][x.in][i]
  BY UnlinkDoes DEF Working
<1>2. Takes(x) /\ ~Moves(x) /\ x.op # "copy"
  BY <1>1 DEF Takes, Moves
<1>3. \A s \in Range(Stores) : s # x.in =>
        In(d, s)' = In(d, s) /\ \A i \in In(d, s) : Ep(d, s, i)' = Ep(d, s, i)
  BY <1>1 DEF In, Ep
<1>4. \A i \in In(d, x.in)' : Ep(d, x.in, i)' = Ep(d, x.in, i)
  BY <1>1 DEF Ep
<1> QED
  BY <1>1, <1>2, <1>3, <1>4 DEF Effect

\* of renaming,
LEMMA RenameHasEffect ==
  ASSUME NEW d \in Datasets, NEW x, Working(d, x), RenameFile(x)
  PROVE  Effect(d, x) /\ Flow(d) /\ Feasible(d)'
<1>0. x.op = "rename" /\ Moves(x) /\ Takes(x)
  BY DEF RenameFile, Doing, Moves, Takes
<1>a. x.from # x.to
  BY <1>0, MovesSomewhere, AtWork DEF Working
<1>1. /\ x.op = "rename" /\ x.in \in Range(Stores) /\ x.from \in In(d, x.in)
      /\ \A e \in Datasets : \A s \in Range(Stores) :
           e # d \/ s # x.in => files'[e][s] = files[e][s]
      /\ In(d, x.in)' = (In(d, x.in) \ {x.from}) \cup {x.to}
      /\ files'[d][x.in][x.to] = files[d][x.in][x.from]
      /\ \A i \in In(d, x.in) \ {x.from, x.to} :
           files'[d][x.in][i] = files[d][x.in][i]
  BY <1>a, RenameDoes DEF Working
<1>2. \A s \in Range(Stores) : s # x.in =>
        In(d, s)' = In(d, s) /\ \A i \in In(d, s) : Ep(d, s, i)' = Ep(d, s, i)
  BY <1>1 DEF In, Ep
<1>3. Ep(d, x.in, x.to)' = Ep(d, x.in, x.from)
  BY <1>1 DEF Ep
<1>4. \A i \in In(d, x.in)' \ {x.to} : Ep(d, x.in, i)' = Ep(d, x.in, i)
  BY <1>1 DEF Ep
<1>5. Effect(d, x)
  BY <1>0, <1>1, <1>2, <1>3, <1>4 DEF Effect
<1>6. Flow(d) /\ Feasible(d)'
  BY <1>0, <1>1, <1>3, <1>4, MoveFlows
<1> QED
  BY <1>5, <1>6

\* of copying,
LEMMA CopyHasEffect ==
  ASSUME NEW d \in Datasets, NEW x, Working(d, x), CopyParquet(x)
  PROVE  Effect(d, x) /\ Flow(d) /\ Feasible(d)'
<1>0. x.op = "copy" /\ Moves(x) /\ Takes(x)
  BY DEF CopyParquet, Doing, Moves, Takes
<1>a. x.from # x.to
  BY <1>0, MovesSomewhere, AtWork DEF Working
<1>1. /\ x.op = "copy" /\ x.in = "data" /\ x.in \in Range(Stores)
      /\ x.from \in In(d, x.in)
      /\ \A e \in Datasets : \A s \in Range(Stores) :
              e # d \/ s # x.in => files'[e][s] = files[e][s]
      /\ In(d, x.in)' = In(d, x.in) \cup {x.to}
      /\ files'[d][x.in][x.to] = File(files[d][x.in][x.from].episode, x.to)
      /\ \A i \in In(d, x.in) \ {x.to} : files'[d][x.in][i] = files[d][x.in][i]
  BY <1>a, CopyDoes DEF Working
<1>2. \A s \in Range(Stores) : s # x.in =>
        In(d, s)' = In(d, s) /\ \A i \in In(d, s) : Ep(d, s, i)' = Ep(d, s, i)
  BY <1>1 DEF In, Ep
<1>3. Ep(d, x.in, x.to)' = Ep(d, x.in, x.from)
  BY <1>1 DEF Ep, File
<1>4. \A i \in In(d, x.in)' \ {x.to} : Ep(d, x.in, i)' = Ep(d, x.in, i)
  BY <1>1 DEF Ep
<1>5. Effect(d, x)
  BY <1>0, <1>1, <1>2, <1>3, <1>4 DEF Effect
<1>6. Flow(d) /\ Feasible(d)'
  BY <1>0, <1>1, <1>3, <1>4, MoveFlows
<1> QED
  BY <1>5, <1>6

\* and of the steps that touch no names.
LEMMA StillHasEffect ==
  ASSUME NEW d \in Datasets, NEW x, Working(d, x),
         PatchParquet(x) \/ (x.op \in {"rows", "info", "raise"} /\ UNCHANGED files)
  PROVE  Effect(d, x) /\ Flow(d) /\ Feasible(d)'
<1>0. ~Takes(x)
  BY DEF PatchParquet, Doing, Takes
<1>1. /\ \A s \in Range(Stores) : In(d, s)' = In(d, s)
      /\ \A s \in Range(Stores) : \A i \in In(d, s) : Ep(d, s, i)' = Ep(d, s, i)
  <2>1. CASE PatchParquet(x)
    <3>1. /\ \A s \in Range(Stores) : s # "data" => files'[d][s] = files[d][s]
          /\ In(d, "data")' = In(d, "data")
          /\ \A i \in In(d, "data") : Ep(d, "data", i)' = Ep(d, "data", i)
      BY <2>1, PatchDoes DEF Working, Ep
    <3> QED
      BY <3>1 DEF In, Ep
  <2>2. CASE UNCHANGED files
    BY <2>2 DEF In, Ep
  <2> QED
    BY <2>1, <2>2
<1>2. Effect(d, x)
  BY <1>0, <1>1 DEF Effect
<1>3. Flow(d) /\ Feasible(d)'
  BY <1>0, <1>1, StillFlows
<1> QED
  BY <1>2, <1>3

\* Files are still unlinked only when asked for or copied.
LEMMA SparedAfter ==
  ASSUME NEW d \in Datasets, NEW x, Working(d, x), Effect(d, x), Feasible(d)', Spared(d)
  PROVE  Spared(d)'
<1> DEFINE T == job.todo
<1>1. /\ Todo(d) = T /\ Todo(d)' = T \ {x} /\ x \in T /\ \A q \in T : ~Earlier(q, x)
      /\ Ordered(T) /\ Feasible(d) /\ T \in SUBSET Steps /\ NextIn(T, x)
      /\ asked'[d] = asked[d]
  BY AtWork DEF Working
<1> HIDE DEF T
<1> SUFFICES ASSUME NEW u \in T \ {x}, u.op = "unlink"
             PROVE  \/ Ep(d, u.in, u.from)' \in asked[d]
                    \/ \E c \in T \ {x} : c.op = "copy" /\ c.in = u.in /\ c.from = u.from
                                          /\ Follows(c, u)
                    \/ /\ NextIn(T \ {x}, u)
                       /\ \E i \in In(d, u.in)' \ {u.from} :
                            Ep(d, u.in, i)' = Ep(d, u.in, u.from)'
  BY <1>1 DEF Spared
<1>2. u.in \in Range(Stores) /\ u.from \in In(d, u.in) /\ u.from \in In(d, u.in)'
  BY <1>1 DEF Feasible, Takes
<1>3. Moves(x) /\ u.in = x.in => u.from # x.to
  <2>1. Takes(u)
    BY DEF Takes
  <2> QED
    BY <1>1, <2>1 DEF Ordered
<1>4. Ep(d, u.in, u.from)' = Ep(d, u.in, u.from)
  BY <1>2, <1>3 DEF Effect
<1>5. ~NextIn(T, u)
  BY <1>1, NextIsFirst DEF NextIn
<1>6. CASE Ep(d, u.in, u.from) \in asked[d]
  BY <1>4, <1>6
<1>7. CASE \E c \in T \ {x} : c.op = "copy" /\ c.in = u.in /\ c.from = u.from /\ Follows(c, u)
  BY <1>7
<1>8. CASE x.op = "copy" /\ x.in = u.in /\ x.from = u.from /\ Follows(x, u)
  <2>1. NextIn(T \ {x}, u)
    BY <1>1, <1>8, FollowerIsNext DEF Ordered
  <2>2. Moves(x) /\ Takes(x)
    BY <1>8 DEF Moves, Takes
  <2>3. x.from # x.to
    BY <1>1, <2>2, MovesSomewhere
  <2>4. x.to \in In(d, x.in)' /\ Ep(d, x.in, x.to)' = Ep(d, x.in, x.from)
    BY <1>2, <1>8, <2>2 DEF Effect
  <2> QED
    BY <1>4, <1>8, <2>1, <2>3, <2>4
<1> QED
  BY <1>1, <1>5, <1>6, <1>7, <1>8 DEF Spared

\* Still nothing is in the way of a file but what was asked for or moves away.
LEMMA RoomAfter ==
  ASSUME NEW d \in Datasets, NEW x, Working(d, x), Effect(d, x), Room(d)
  PROVE  Room(d)'
<1> DEFINE T == job.todo
<1>1. /\ Todo(d) = T /\ Todo(d)' = T \ {x} /\ x \in T
      /\ Ordered(T) /\ Feasible(d) /\ T \in SUBSET Steps
      /\ asked'[d] = asked[d]
  BY AtWork DEF Working
<1> HIDE DEF T
<1> SUFFICES ASSUME NEW m \in T \ {x}, Moves(m), m.to \in In(d, m.in)'
             PROVE  \/ Ep(d, m.in, m.to)' \in asked[d]
                    \/ \E q \in T \ {x} : q.op \in {"unlink", "rename"} /\ q.in = m.in
                                          /\ q.from = m.to
                    \/ m.op = "rename" /\ m.in \in Range(Images)
  BY <1>1 DEF Room, Moves
<1>2. m.in \in Range(Stores)
  BY <1>1 DEF Feasible, Takes, Moves
<1>3. Moves(x) /\ m.in = x.in => m.to # x.to
  BY <1>1 DEF Ordered
<1>4. m.to \in In(d, m.in) /\ Ep(d, m.in, m.to)' = Ep(d, m.in, m.to)
  BY <1>2, <1>3 DEF Effect
<1>5. CASE Ep(d, m.in, m.to) \in asked[d]
  BY <1>4, <1>5
<1>6. ASSUME NEW q \in T, q.op \in {"unlink", "rename"}, q.in = m.in, q.from = m.to
      PROVE  q # x
  <2> SUFFICES ASSUME q = x
               PROVE  FALSE
    OBVIOUS
  <2>1. Takes(x) /\ x.op # "copy"
    BY <1>6 DEF Takes
  <2>2. m.to \notin In(d, m.in)'
    BY <1>2, <1>3, <1>6, <2>1 DEF Effect
  <2> QED
    BY <2>2
<1> QED
  BY <1>1, <1>4, <1>5, <1>6 DEF Room

\* No episode is lost by a step of a deletion: what it unlinks was asked for or
\* copied, and what it overwrites was asked for or has moved away.
LEMMA KeptAfter ==
  ASSUME NEW d \in Datasets, NEW x, Working(d, x), Effect(d, x), Spared(d), Room(d), Kept(d),
         ~Clash(x)
  PROVE  Kept(d)'
<1> DEFINE T == job.todo
<1>1. /\ Todo(d) = T /\ Todo(d)' = T \ {x} /\ x \in T /\ \A q \in T : ~Earlier(q, x)
      /\ Ordered(T) /\ Feasible(d) /\ T \in SUBSET Steps
      /\ asked'[d] = asked[d]
  BY AtWork DEF Working
<1> HIDE DEF T
<1> SUFFICES ASSUME NEW n \in 1 .. Episodes[d], <<d, n>> \notin asked[d],
                    NEW s \in Range(Stores), <<s, <<d, n>>>> \notin Missing
             PROVE  \E i \in In(d, s)' : Ep(d, s, i)' = <<d, n>>
  BY <1>1 DEF Kept
<1>2. PICK i \in In(d, s) : Ep(d, s, i) = <<d, n>>
  BY DEF Kept
<1>3. CASE s # x.in \/ ~Takes(x)
  BY <1>2, <1>3 DEF Effect
<1>4. CASE s = x.in /\ x.op = "unlink"
  <2>1. Takes(x) /\ ~Moves(x) /\ x.op # "copy"
    BY <1>4 DEF Takes, Moves
  <2>2. CASE i # x.from
    BY <1>2, <1>4, <2>1, <2>2 DEF Effect
  <2>3. CASE i = x.from
    <3>1. ~ \E c \in T : Follows(c, x)
      BY <1>1, FollowerIsLater
    <3>2. PICK k \in In(d, s) \ {x.from} : Ep(d, s, k) = Ep(d, s, x.from)
      BY <1>1, <1>2, <1>4, <2>3, <3>1 DEF Spared
    <3> QED
      BY <1>2, <1>4, <2>1, <2>3, <3>2 DEF Effect
  <2> QED
    BY <2>2, <2>3
<1>5. CASE s = x.in /\ Moves(x)
  <2>1. Takes(x)
    BY <1>5 DEF Takes, Moves
  <2>2. CASE i = x.to
    <3>1. \A q \in T : Takes(q) /\ q.in = x.in => q.from # x.to
      BY <1>1, <1>5 DEF Ordered
    <3>2. ~ \E q \in T : q.op \in {"unlink", "rename"} /\ q.in = x.in /\ q.from = x.to
      BY <3>1 DEF Takes
    <3>3. ~(x.op = "rename" /\ x.in \in Range(Images))
      BY <1>2, <1>5, <2>2 DEF Clash, Working
    <3> QED
      BY <1>1, <1>2, <1>5, <2>2, <3>2, <3>3 DEF Room
  <2>3. CASE i = x.from
    BY <1>2, <1>5, <2>1, <2>3 DEF Effect
  <2>4. CASE i # x.to /\ i # x.from
    <3>1. i \in In(d, s)'
      BY <1>5, <2>1, <2>4 DEF Effect
    <3> QED
      BY <1>2, <1>5, <2>1, <2>4, <3>1 DEF Effect
  <2> QED
    BY <2>2, <2>3, <2>4
<1> QED
  BY <1>3, <1>4, <1>5 DEF Takes, Moves

\* Which patch is next: that of the parquet file that has just been renamed.
Patched(d, i) == \E p \in Todo(d) : p.op = "patch" /\ p.to = i /\ NextIn(Todo(d), p)

\* A parquet file waits for its patch only right after its renaming.
LEMMA PatchIsNext ==
  ASSUME NEW d \in Datasets, NEW x, Working(d, x), NEW i
  PROVE  /\ Patched(d, i) <=> x.op = "patch" /\ x.to = i
         /\ Patched(d, i)' <=> x.op = "rename" /\ x.in = "data" /\ x.to = i
<1> DEFINE T == job.todo
<1>1. /\ Todo(d) = T /\ Todo(d)' = T \ {x} /\ x \in T /\ \A q \in T : ~Earlier(q, x)
      /\ Ordered(T) /\ T \in SUBSET Steps /\ NextIn(T, x)
  BY AtWork DEF Working
<1> HIDE DEF T
<1>2. \A p \in T : NextIn(T, p) => p = x
  BY <1>1 DEF NextIn
<1>3. Patched(d, i) <=> x.op = "patch" /\ x.to = i
  BY <1>1, <1>2 DEF Patched
<1>4. Patched(d, i)' <=> \E p \in T \ {x} : p.op = "patch" /\ p.to = i /\ NextIn(T \ {x}, p)
  BY <1>1 DEF Patched, NextIn, Earlier
<1>5. ASSUME NEW p \in T \ {x}, p.op = "patch", p.to = i, NextIn(T \ {x}, p)
      PROVE  x.op = "rename" /\ x.in = "data" /\ x.to = i
  <2>1. ~NextIn(T, p)
    BY <1>2
  <2>2. PICK q \in T : q.op = "rename" /\ q.in = "data" /\ q.to = p.to /\ Follows(q, p)
    BY <1>1, <1>5, <2>1 DEF Ordered
  <2>3. q = x
    <3> SUFFICES ASSUME q # x
                 PROVE  FALSE
      OBVIOUS
    <3>1. Earlier(q, p) /\ q # p
      BY <1>1, <2>2, FollowerIsLater
    <3>2. T \ {x} \in SUBSET Steps
      BY <1>1
    <3> QED
      BY <1>5, <3>1, <3>2, NextIsFirst
  <2> QED
    BY <1>5, <2>2, <2>3
<1>6. ASSUME x.op = "rename", x.in = "data", x.to = i
      PROVE  \E p \in T \ {x} : p.op = "patch" /\ p.to = i /\ NextIn(T \ {x}, p)
  <2>1. PICK p \in T : p.op = "patch" /\ p.to = x.to /\ Follows(x, p)
    BY <1>1, <1>6 DEF Ordered
  <2>2. NextIn(T \ {x}, p)
    BY <1>1, <2>1, FollowerIsNext DEF Ordered
  <2>3. p # x
    BY <1>6, <2>1
  <2> QED
    BY <1>6, <2>1, <2>2, <2>3
<1> QED
  BY <1>3, <1>4, <1>5, <1>6

\* So the columns that disagree are those of that file.
LEMMA ColumnsAre ==
  ASSUME NEW d \in Datasets, NEW x, Working(d, x)
  PROVE  /\ ColumnsAgree(d) <=>
              \A i \in In(d, "data") : files[d]["data"][i].column =
                IF x.op = "patch" /\ x.to = i THEN i + 1 ELSE i
         /\ ColumnsAgree(d)' <=>
              \A i \in In(d, "data")' : files'[d]["data"][i].column =
                IF x.op = "rename" /\ x.in = "data" /\ x.to = i THEN i + 1 ELSE i
<1>1. ColumnsAgree(d) <=> \A i \in In(d, "data") : files[d]["data"][i].column =
                            IF Patched(d, i) THEN i + 1 ELSE i
  BY DEF ColumnsAgree, Patched
<1>2. ColumnsAgree(d)' <=> \A i \in In(d, "data")' : files'[d]["data"][i].column =
                            IF Patched(d, i)' THEN i + 1 ELSE i
  BY DEF ColumnsAgree, Patched
<1> QED
  BY <1>1, <1>2, PatchIsNext

\* Columns are put right by the steps of a deletion,
LEMMA ColumnsAfter ==
  ASSUME NEW d \in Datasets, NEW x, Working(d, x), ColumnsAgree(d),
         \/ UnlinkFile(x) \/ RenameFile(x) \/ CopyParquet(x) \/ PatchParquet(x)
         \/ x.op \in {"rows", "info", "raise"} /\ UNCHANGED files
  PROVE  ColumnsAgree(d)'
<1> DEFINE f == files[d]["data"]
           g == files'[d]["data"]
<1>1. \A i \in In(d, "data") : f[i].column = IF x.op = "patch" /\ x.to = i THEN i + 1 ELSE i
  BY ColumnsAre
<1>2. In(d, "data") \in SUBSET Int
  BY MapsOK, DataIsStore DEF Working, Indices
<1> SUFFICES \A i \in In(d, "data")' : g[i].column =
                IF x.op = "rename" /\ x.in = "data" /\ x.to = i THEN i + 1 ELSE i
  BY ColumnsAre
<1>a. /\ Ordered(job.todo) /\ x \in job.todo /\ job.todo \in SUBSET Steps
      /\ TypeOK /\ d = job.on /\ Feasible(d)
  BY DEF Working, TypeOK
<1>3. CASE UnlinkFile(x)
  <2>1. /\ x.op = "unlink" /\ x.in \in Range(Stores)
        /\ \A s \in Range(Stores) : s # x.in => files'[d][s] = files[d][s]
        /\ In(d, x.in)' = In(d, x.in) \ {x.from}
        /\ \A i \in In(d, x.in) \ {x.from} : files'[d][x.in][i] = files[d][x.in][i]
    BY <1>3, <1>a, UnlinkDoes
  <2>2. \A i \in In(d, "data")' : i \in In(d, "data") /\ g[i] = f[i]
    BY <2>1, DataIsStore DEF In
  <2> QED
    BY <1>1, <2>1, <2>2
<1>4. CASE RenameFile(x)
  <2>0. x.op = "rename" /\ Moves(x)
    BY <1>4 DEF RenameFile, Doing, Moves
  <2>1. x.from # x.to
    BY <1>a, <2>0, MovesSomewhere
  <2>2. /\ x.in \in Range(Stores) /\ x.from \in In(d, x.in)
        /\ \A s \in Range(Stores) : s # x.in => files'[d][s] = files[d][s]
        /\ In(d, x.in)' = (In(d, x.in) \ {x.from}) \cup {x.to}
        /\ files'[d][x.in][x.to] = files[d][x.in][x.from]
        /\ \A i \in In(d, x.in) \ {x.from, x.to} :
             files'[d][x.in][i] = files[d][x.in][i]
    BY <1>4, <2>1, RenameDoes DEF Working
  <2>3. CASE x.in # "data"
    <3>1. \A i \in In(d, "data")' : i \in In(d, "data") /\ g[i] = f[i]
      BY <2>2, <2>3, DataIsStore DEF In
    <3> QED
      BY <1>1, <2>0, <2>3, <3>1
  <2>4. CASE x.in = "data"
    <3>1. x.from = x.to + 1
      BY <1>a, <2>0, <2>4 DEF Ordered
    <3>2. g[x.to].column = x.from
      BY <1>1, <2>0, <2>2, <2>4
    <3>3. \A i \in In(d, "data")' \ {x.to} : i \in In(d, "data") /\ g[i] = f[i]
      BY <2>2, <2>4
    <3> QED
      BY <1>1, <2>0, <2>4, <3>1, <3>2, <3>3
  <2> QED
    BY <2>3, <2>4
<1>5. CASE CopyParquet(x)
  <2>0. x.op = "copy" /\ Moves(x)
    BY <1>5 DEF CopyParquet, Doing, Moves
  <2>1. x.from # x.to
    BY <1>a, <2>0, MovesSomewhere
  <2>2. /\ x.in = "data"
        /\ In(d, x.in)' = In(d, x.in) \cup {x.to}
        /\ files'[d][x.in][x.to] = File(files[d][x.in][x.from].episode, x.to)
        /\ \A i \in In(d, x.in) \ {x.to} : files'[d][x.in][i] = files[d][x.in][i]
    BY <1>5, <1>a, <2>1, CopyDoes
  <2>3. g[x.to].column = x.to
    BY <2>2 DEF File
  <2> QED
    BY <1>1, <2>0, <2>2, <2>3
<1>6. CASE PatchParquet(x)
  <2>1. /\ x.op = "patch" /\ In(d, "data")' = In(d, "data")
        /\ \A i \in In(d, "data") : g[i].column =
             IF i = x.to THEN f[i].column - 1 ELSE f[i].column
    BY <1>6, <1>a, PatchDoes
  <2>2. \A i \in In(d, "data") : g[i].column = i
    <3> SUFFICES ASSUME NEW i \in In(d, "data")
                 PROVE  g[i].column = i
      OBVIOUS
    <3>1. i \in Int
      BY <1>2
    <3>2. (i + 1) - 1 = i
      BY <3>1
    <3> QED
      BY <1>1, <2>1, <3>2
  <2> QED
    BY <2>1, <2>2
<1>7. CASE x.op \in {"rows", "info", "raise"} /\ UNCHANGED files
  BY <1>1, <1>7 DEF In
<1> QED
  BY <1>3, <1>4, <1>5, <1>6, <1>7

\* and so is the number of episodes.
LEMMA CountedAfter ==
  ASSUME NEW d \in Datasets, NEW x, Working(d, x), Flow(d), RowFlow(d), Counted(d),
         WriteInfo(x) \/ (x.op # "info" /\ UNCHANGED count)
  PROVE  Counted(d)'
<1> DEFINE T == job.todo
<1>1. /\ Todo(d) = T /\ Todo(d)' = T \ {x} /\ x \in T /\ Ordered(T)
      /\ TypeOK /\ d = job.on /\ T \in SUBSET Steps
  BY AtWork DEF Working
<1> HIDE DEF T
<1>2. Counted(d)' <=>
        /\ \A q \in T \ {x} : q.op = "info" =>
             q.from <= count'[d] /\ BelowNext(d, count'[d] - q.from)
        /\ (\A q \in T \ {x} : q.op # "info") => BelowNext(d, count'[d])
  BY <1>1 DEF Counted, Below, BelowNext
<1>3. CASE x.op # "info" /\ UNCHANGED count
  <2>1. ASSUME NEW q \in T \ {x}, q.op = "info"
        PROVE  q.from <= count[d] /\ BelowNext(d, count[d] - q.from)
    <3>1. q.from <= count[d] /\ Below(d, count[d] - q.from)
      BY <1>1, <2>1 DEF Counted
    <3> QED
      BY <3>1, FlowKeepsBelow
  <2>2. ASSUME \A q \in T \ {x} : q.op # "info"
        PROVE  BelowNext(d, count[d])
    <3>1. Below(d, count[d])
      BY <1>1, <1>3, <2>2 DEF Counted
    <3> QED
      BY <3>1, FlowKeepsBelow
  <2> QED
    BY <1>2, <1>3, <2>1, <2>2
<1>4. CASE WriteInfo(x)
  <2>1. /\ x.op = "info" /\ x.from \in Nat
        /\ count'[d] = IF count[d] > x.from THEN count[d] - x.from ELSE 0
    BY <1>4, InfoDoes DEF Working
  <2>2. \A q \in T \ {x} : q.op # "info"
    BY <1>1, <2>1 DEF Ordered
  <2>3. x.from <= count[d] /\ Below(d, count[d] - x.from)
    BY <1>1, <2>1 DEF Counted
  <2>4. count[d] \in Nat
    BY <1>1 DEF TypeOK
  <2>5. count'[d] = count[d] - x.from
    BY <2>1, <2>3, <2>4
  <2>6. BelowNext(d, count[d] - x.from)
    BY <2>3, FlowKeepsBelow
  <2> QED
    BY <1>2, <2>2, <2>5, <2>6
<1> QED
  BY <1>3, <1>4

\* All together, given what the step does to names, ways, columns and number.
LEMMA GoodAfter ==
  ASSUME NEW d \in Datasets, NEW x, Working(d, x), Good(d), ~Merging(d),
         Effect(d, x), Flow(d), RowFlow(d), Feasible(d)',
         \/ UnlinkFile(x) \/ RenameFile(x) \/ CopyParquet(x) \/ PatchParquet(x)
         \/ x.op \in {"rows", "info", "raise"} /\ UNCHANGED files,
         WriteInfo(x) \/ (x.op # "info" /\ UNCHANGED count)
  PROVE  Good(d)'
<1>1. asked'[d] = asked[d] /\ state'[d] = state[d]
  BY AtWork
<1>2. Spared(d)'
  BY SparedAfter DEF Good
<1>3. state[d] # "adrift" => Room(d)' /\ Kept(d)'
  <2>1. ~Clash(x)
    BY DEF Clash, UnlinkFile, RenameFile, CopyParquet, PatchParquet, Doing
  <2> QED
    BY <2>1, RoomAfter, KeptAfter DEF Good
<1>4. ASSUME Sound(d)
      PROVE  MediaAgree(d)' /\ RowsAgree(d)' /\ ColumnsAgree(d)'
  <2>1. MediaAgree(d)'
    BY <1>1, <1>4, FlowKeepsMedia DEF Good
  <2>2. RowsAgree(d)'
    BY <1>4, FlowKeepsRows DEF Good
  <2>3. ColumnsAgree(d)'
    BY <1>4, ColumnsAfter DEF Good
  <2> QED
    BY <2>1, <2>2, <2>3
<1>5. state[d] = "exact" => Counted(d)'
  BY CountedAfter DEF Good
<1> QED
  BY <1>1, <1>2, <1>3, <1>4, <1>5 DEF Good, Sound

\* The steps of a deletion.
Deletes(x) ==
  \/ UnlinkFile(x) \/ RenameFile(x) \/ CopyParquet(x) \/ PatchParquet(x)
  \/ RewriteRows(x) \/ WriteInfo(x)
  \/ Doing("raise", x) /\ Done(x) /\ UNCHANGED <<files, rows, count, history>>

\* Each step of a deletion leaves a good dataset good.
LEMMA DeletionGoesOn ==
  ASSUME NEW d \in Datasets, NEW x, Working(d, x), Good(d), ~Merging(d), Deletes(x)
  PROVE  Good(d)'
<1>1. CASE UnlinkFile(x)
  <2>1. Effect(d, x) /\ Flow(d) /\ Feasible(d)' /\ UNCHANGED <<rows, count>> /\ x.op = "unlink"
    BY <1>1, UnlinkHasEffect, UnlinkFlows DEF UnlinkFile, Doing
  <2>2. RowFlow(d)
    BY <2>1, RowsFlow
  <2> QED
    BY <1>1, <2>1, <2>2, GoodAfter
<1>2. CASE RenameFile(x)
  <2>1. Effect(d, x) /\ Flow(d) /\ Feasible(d)' /\ UNCHANGED <<rows, count>> /\ x.op = "rename"
    BY <1>2, RenameHasEffect DEF RenameFile, Doing
  <2>2. RowFlow(d)
    BY <2>1, RowsFlow
  <2> QED
    BY <1>2, <2>1, <2>2, GoodAfter
<1>3. CASE CopyParquet(x)
  <2>1. Effect(d, x) /\ Flow(d) /\ Feasible(d)' /\ UNCHANGED <<rows, count>> /\ x.op = "copy"
    BY <1>3, CopyHasEffect DEF CopyParquet, Doing
  <2>2. RowFlow(d)
    BY <2>1, RowsFlow
  <2> QED
    BY <1>3, <2>1, <2>2, GoodAfter
<1>4. CASE PatchParquet(x)
  <2>1. UNCHANGED <<rows, count>> /\ x.op = "patch"
    BY <1>4 DEF PatchParquet, Doing
  <2>2. Effect(d, x) /\ Flow(d) /\ Feasible(d)'
    BY <1>4, StillHasEffect
  <2>3. RowFlow(d)
    BY <2>1, RowsFlow
  <2> QED
    BY <1>4, <2>1, <2>2, <2>3, GoodAfter
<1>5. CASE RewriteRows(x)
  <2>1. UNCHANGED <<files, count>> /\ x.op = "rows"
    BY <1>5 DEF RewriteRows, Doing
  <2>2. Effect(d, x) /\ Flow(d) /\ Feasible(d)'
    BY <2>1, StillHasEffect
  <2>3. RowFlow(d)
    BY <1>5, RowsFlow
  <2> QED
    BY <2>1, <2>2, <2>3, GoodAfter
<1>6. CASE WriteInfo(x)
  <2>1. UNCHANGED <<files, rows>> /\ x.op = "info"
    BY <1>6 DEF WriteInfo, Doing
  <2>2. Effect(d, x) /\ Flow(d) /\ Feasible(d)'
    BY <2>1, StillHasEffect
  <2>3. RowFlow(d)
    BY <2>1, RowsFlow
  <2> QED
    BY <1>6, <2>1, <2>2, <2>3, GoodAfter
<1>7. CASE Doing("raise", x) /\ Done(x) /\ UNCHANGED <<files, rows, count, history>>
  <2>1. UNCHANGED <<files, rows, count>> /\ x.op = "raise"
    BY <1>7 DEF Doing
  <2>2. Effect(d, x) /\ Flow(d) /\ Feasible(d)'
    BY <2>1, StillHasEffect
  <2>3. RowFlow(d)
    BY <2>1, RowsFlow
  <2> QED
    BY <2>1, <2>2, <2>3, GoodAfter
<1> QED
  BY <1>1, <1>2, <1>3, <1>4, <1>5, <1>6, <1>7 DEF Deletes

----------------------------------------------------------------------------
(* Datasets that no request is about.                                      *)

\* When nothing is to be done, files and rows stay where they are.
LEMMA GoesAtRest ==
  ASSUME NEW d \in Datasets, Todo(d) = {}
  PROVE  /\ \A s, i, j : Goes(d, s, i, j) <=> i \in In(d, s) /\ i = j
         /\ \A r, q, j : RowGoes(d, r, q, j) <=> q \in rows[d][r] /\ j = q.index
BY DEF Goes, RowGoes

\* What agreement means then.
LEMMA AgreeAtRest ==
  ASSUME NEW d \in Datasets, Todo(d) = {}, TypeOK
  PROVE  /\ MediaAgree(d) <=>
              \A s \in Range(Media) : \A i \in In(d, s) :
                state[d] = "exact" \/ Ep(d, s, i) \notin asked[d] =>
                  i \in In(d, "data") /\ Ep(d, "data", i) = Ep(d, s, i)
         /\ RowsAgree(d) <=>
              \A r \in Range(RowFiles) : \A q \in rows[d][r] :
                q.index \in In(d, "data") => q.episode = Ep(d, "data", q.index)
         /\ ColumnsAgree(d) <=> \A i \in In(d, "data") : files[d]["data"][i].column = i
<1>1. /\ \A s \in Range(Media) : In(d, s) \in SUBSET Indices
      /\ In(d, "data") \in SUBSET Indices
  BY MapsOK, DataIsStore
<1>2. MediaAgree(d) <=>
              \A s \in Range(Media) : \A i \in In(d, s) :
                state[d] = "exact" \/ Ep(d, s, i) \notin asked[d] =>
                  i \in In(d, "data") /\ Ep(d, "data", i) = Ep(d, s, i)
  BY <1>1, GoesAtRest DEF MediaAgree
<1>3. RowsAgree(d) <=>
              \A r \in Range(RowFiles) : \A q \in rows[d][r] :
                q.index \in In(d, "data") => q.episode = Ep(d, "data", q.index)
  BY <1>1, GoesAtRest DEF RowsAgree
<1>4. ColumnsAgree(d) <=> \A i \in In(d, "data") : files[d]["data"][i].column = i
  BY DEF ColumnsAgree
<1> QED
  BY <1>2, <1>3, <1>4

\* What the number of episodes means then.
LEMMA CountedAtRest ==
  ASSUME NEW d \in Datasets, Todo(d) = {}, TypeOK
  PROVE  Counted(d) <=>
           /\ \A i \in In(d, "data") : i < count[d]
           /\ \A r \in Range(RowFiles) : \A q \in rows[d][r] : q.index < count[d]
<1>1. In(d, "data") \in SUBSET Indices
  BY MapsOK, DataIsStore
<1>2. \A r \in Range(RowFiles) : \A q \in rows[d][r] : q.index \in Indices
  BY DEF TypeOK, Rows
<1>3. Counted(d) <=> Below(d, count[d])
  BY DEF Counted
<1> QED
  BY <1>1, <1>2, <1>3, GoesAtRest DEF Below

\* A dataset that nothing happens to stays good.
LEMMA GoodStays ==
  ASSUME NEW d \in Datasets, Todo(d) = {}, Todo(d)' = {}, ~Merging(d), Good(d),
         files'[d] = files[d], rows'[d] = rows[d], count'[d] = count[d],
         asked'[d] = asked[d], state'[d] = state[d]
  PROVE  Good(d)'
<1>1. \A s : In(d, s)' = In(d, s) /\ \A i : Ep(d, s, i)' = Ep(d, s, i)
  BY DEF In, Ep
<1>2. /\ \A s, i, j : Goes(d, s, i, j)' <=> Goes(d, s, i, j)
      /\ \A r, q, j : RowGoes(d, r, q, j)' <=> RowGoes(d, r, q, j)
  BY <1>1 DEF Goes, RowGoes, Moves, Takes
<1>3. Feasible(d)' /\ Spared(d)' /\ Room(d)'
  BY DEF Feasible, Spared, Room
<1>4. Kept(d) => Kept(d)'
  BY <1>1 DEF Kept
<1>5. MediaAgree(d) => MediaAgree(d)'
  BY <1>1, <1>2 DEF MediaAgree
<1>6. RowsAgree(d) => RowsAgree(d)'
  BY <1>1, <1>2 DEF RowsAgree
<1>7. ColumnsAgree(d) => ColumnsAgree(d)'
  BY <1>1 DEF ColumnsAgree
<1>8. Counted(d) => Counted(d)'
  <2>1. Counted(d) => Below(d, count[d])
    BY DEF Counted
  <2>2. Below(d, count[d]) => Below(d, count[d])'
    BY <1>2 DEF Below
  <2> QED
    BY <2>1, <2>2 DEF Counted
<1> QED
  BY <1>3, <1>4, <1>5, <1>6, <1>7, <1>8 DEF Good, Sound

\* A request that is broken off: what it leaves is not relied on.
LEMMA BreaksOff ==
  ASSUME NEW d \in Datasets, Good(d), Todo(d)' = {}, files' = files,
         asked'[d] = asked[d], state'[d] \in {"broken", "adrift"},
         state[d] = "adrift" => state'[d] = "adrift"
  PROVE  Good(d)'
<1>1. Feasible(d)' /\ Spared(d)' /\ Room(d)'
  BY DEF Feasible, Spared, Room
<1>2. Kept(d) => Kept(d)'
  BY DEF Kept, In, Ep
<1>3. ~Sound(d)' /\ state'[d] # "exact"
  BY DEF Sound
<1> QED
  BY <1>1, <1>2, <1>3 DEF Good

----------------------------------------------------------------------------
(* Merges.                                                                 *)

\* An exact dataset moves the next one by its number of episodes.
LEMMA ShareIsCount ==
  ASSUME NEW x \in Datasets, Todo(x) = {}, TypeOK, Counted(x)
  PROVE  Share(x) = count[x] /\ Share(x) \in Nat
<1>1. count[x] \in Nat
  BY DEF TypeOK
<1>2. CASE count[x] > 0
  BY <1>1, <1>2 DEF Share
<1>3. CASE count[x] = 0
  <2>1. In(x, "data") \in SUBSET Indices
    BY MapsOK, DataIsStore
  <2>2. \A i \in In(x, "data") : i \in Nat /\ i < 0
    BY <1>3, <2>1, CountedAtRest DEF Indices
  <2>3. In(x, "data") = {}
    BY <2>2
  <2> QED
    BY <1>1, <1>3, <2>3, FS_EmptySet DEF Share
<1> QED
  BY <1>1, <1>2, <1>3

\* An exact dataset that no request is about.
Source(x) == Todo(x) = {} /\ state[x] = "exact" /\ Good(x) /\ ~Merging(x)

\* What an exact dataset brings into a merge: all its indices are below its
\* number of episodes.
LEMMA SourceIs ==
  ASSUME NEW x \in Datasets, TypeOK, Source(x)
  PROVE  /\ Share(x) = count[x] /\ Share(x) \in Nat
         /\ \A s \in Range(Stores) : In(x, s) \in SUBSET Indices
         /\ \A i \in In(x, "data") : i < Share(x)
         /\ \A r \in Range(RowFiles) : \A q \in rows[x][r] :
              /\ q.index \in Indices /\ q.index < Share(x)
              /\ q.index \in In(x, "data") => q.episode = Ep(x, "data", q.index)
         /\ \A s \in Range(Media) : \A i \in In(x, s) :
              i \in In(x, "data") /\ Ep(x, "data", i) = Ep(x, s, i)
<1>1. /\ Todo(x) = {} /\ state[x] = "exact" /\ MediaAgree(x) /\ RowsAgree(x) /\ Counted(x)
  BY DEF Source, Good, Sound
<1>2. Share(x) = count[x] /\ Share(x) \in Nat
  BY <1>1, ShareIsCount
<1>3. \A s \in Range(Stores) : In(x, s) \in SUBSET Indices
  BY MapsOK
<1>4. /\ \A i \in In(x, "data") : i < Share(x)
      /\ \A r \in Range(RowFiles) : \A q \in rows[x][r] : q.index < Share(x)
  BY <1>1, <1>2, CountedAtRest
<1>5. \A r \in Range(RowFiles) : \A q \in rows[x][r] : q.index \in Indices
  BY DEF TypeOK, Rows
<1>6. \A r \in Range(RowFiles) : \A q \in rows[x][r] :
        q.index \in In(x, "data") => q.episode = Ep(x, "data", q.index)
  BY <1>1, AgreeAtRest
<1>7. \A s \in Range(Media) : \A i \in In(x, s) :
        i \in In(x, "data") /\ Ep(x, "data", i) = Ep(x, s, i)
  BY <1>1, AgreeAtRest
<1> QED
  BY <1>2, <1>3, <1>4, <1>5, <1>6, <1>7

\* A merge moves nothing that is in the output.
LEMMA GoesWhileMerging ==
  ASSUME NEW d \in Datasets, \A q \in Todo(d) : q.op \in MergeOps
  PROVE  /\ \A s, i, j : Goes(d, s, i, j) <=> i \in In(d, s) /\ i = j
         /\ \A r, q, j : RowGoes(d, r, q, j) <=> q \in rows[d][r] /\ j = q.index
<1>1. \A q \in Todo(d) : ~Takes(q) /\ ~Moves(q) /\ q.op # "rows"
  BY DEF MergeOps, Takes, Moves
<1> QED
  BY <1>1 DEF Goes, RowGoes

\* The indices of the two sources do not overlap in the output.
LEMMA ComesOnce ==
  ASSUME NEW d \in Datasets, NEW x \in Datasets, NEW y \in Datasets,
         TypeOK, Source(x), Source(y), NEW j \in Indices, NEW s \in Range(Stores),
         Comes(d, x, y, s, j)
  PROVE  /\ j < Share(x) => j \in In(x, s) /\ Ep(d, s, j) = Ep(x, s, j)
         /\ ~(j < Share(x)) =>
              /\ j - Share(x) \in In(y, s) /\ Ep(d, s, j) = Ep(y, s, j - Share(x))
              /\ j - Share(x) \in Indices
<1>1. In(x, s) \in SUBSET Indices /\ In(y, s) \in SUBSET Indices /\ Share(x) \in Nat
  BY SourceIs
<1>2. j - Share(x) \in In(y, s) => ~(j < Share(x))
  BY <1>1 DEF Indices
<1> QED
  BY <1>1, <1>2 DEF Comes

\* What Merged means for the agreement of the output.
MergeLaw ==
  \A d \in Datasets : \A x, y \in Datasets \ {d} :
    /\ TypeOK /\ Todo(d) = job.todo /\ \A q \in job.todo : q.op \in MergeOps
    /\ Merged(d, x, y) /\ Source(x) /\ Source(y)
    => /\ MediaAgree(d) /\ RowsAgree(d)
       /\ Todo(d) = {} => Counted(d)

\* The output of a merge of exact datasets agrees with itself.
LEMMA MergeAgrees == MergeLaw
<1> SUFFICES ASSUME NEW d \in Datasets, NEW x \in Datasets \ {d}, NEW y \in Datasets \ {d},
                    TypeOK, Todo(d) = job.todo, \A q \in job.todo : q.op \in MergeOps,
                    Merged(d, x, y), Source(x), Source(y)
             PROVE  /\ MediaAgree(d) /\ RowsAgree(d)
                    /\ Todo(d) = {} => Counted(d)
  BY DEF MergeLaw
<1>1. /\ \A s, i, j : Goes(d, s, i, j) <=> i \in In(d, s) /\ i = j
      /\ \A r, q, j : RowGoes(d, r, q, j) <=> q \in rows[d][r] /\ j = q.index
  BY GoesWhileMerging
<1>2. \A s \in Range(Stores) : In(d, s) \in SUBSET Indices
  BY MapsOK
<1> DEFINE n == Share(x)
<1>3. /\ n \in Nat /\ n = count[x] /\ Share(y) = count[y] /\ Share(y) \in Nat
      /\ x \in Datasets /\ y \in Datasets
  BY SourceIs
<1>4. \A j \in In(d, "data") :
        /\ j \in Indices
        /\ j < n => j \in In(x, "data") /\ Ep(d, "data", j) = Ep(x, "data", j)
        /\ ~(j < n) => /\ j - n \in In(y, "data") /\ Ep(d, "data", j) = Ep(y, "data", j - n)
                       /\ j - n \in Indices
  <2> SUFFICES ASSUME NEW j \in In(d, "data")
               PROVE  /\ j \in Indices
                      /\ j < n => j \in In(x, "data") /\ Ep(d, "data", j) = Ep(x, "data", j)
                      /\ ~(j < n) => /\ j - n \in In(y, "data")
                                     /\ Ep(d, "data", j) = Ep(y, "data", j - n)
                                     /\ j - n \in Indices
    OBVIOUS
  <2>1. j \in Indices /\ "data" \in Range(Stores)
    BY <1>2, DataIsStore
  <2>2. Comes(d, x, y, "data", j)
    BY DEF Merged
  <2> QED
    BY <1>3, <2>1, <2>2, ComesOnce
<1>5. MediaAgree(d)
  <2> SUFFICES ASSUME NEW s \in Range(Media), NEW j \in In(d, s)
               PROVE  j \in In(d, "data") /\ Ep(d, "data", j) = Ep(d, s, j)
    BY <1>1, <1>2 DEF MediaAgree
  <2>1. j \in Indices /\ s \in Range(Stores)
    BY <1>2, DataIsStore
  <2>2. Comes(d, x, y, s, j) /\ Past(<<1, 1, 0>>) /\ Past(<<1, 2, 0>>)
    BY DEF Merged
  <2>3. /\ In(x, "data") \subseteq In(d, "data")
        /\ \A k \in In(y, "data") : k + n \in In(d, "data")
    BY <2>2 DEF Merged
  <2>4. CASE j < n
    <3>1. j \in In(x, s) /\ Ep(d, s, j) = Ep(x, s, j)
      BY <1>3, <2>1, <2>2, <2>4, ComesOnce
    <3>2. j \in In(x, "data") /\ Ep(x, "data", j) = Ep(x, s, j)
      BY <1>3, <3>1, SourceIs
    <3> QED
      BY <1>4, <2>3, <2>4, <3>1, <3>2
  <2>5. CASE ~(j < n)
    <3>1. j - n \in In(y, s) /\ Ep(d, s, j) = Ep(y, s, j - n) /\ j - n \in Indices
      BY <1>3, <2>1, <2>2, <2>5, ComesOnce
    <3>2. j - n \in In(y, "data") /\ Ep(y, "data", j - n) = Ep(y, s, j - n)
      BY <1>3, <3>1, SourceIs
    <3>3. (j - n) + n = j
      BY <1>3, <2>1 DEF Indices
    <3>4. j \in In(d, "data")
      BY <2>3, <3>2, <3>3
    <3> QED
      BY <1>4, <2>5, <3>1, <3>2, <3>4
  <2> QED
    BY <2>4, <2>5
<1>6. \A r \in Range(RowFiles) : \A q \in rows[d][r] :
        \/ q \in rows[x][r]
        \/ \E w \in rows[y][r] : q.index = w.index + n /\ q.episode = w.episode
  BY DEF Merged, Row
<1>7. RowsAgree(d)
  <2> SUFFICES ASSUME NEW r \in Range(RowFiles), NEW q \in rows[d][r],
                      q.index \in In(d, "data")
               PROVE  q.episode = Ep(d, "data", q.index)
    BY <1>1 DEF RowsAgree
  <2>1. CASE q \in rows[x][r]
    <3>1. q.index < n /\ (q.index \in In(x, "data") => q.episode = Ep(x, "data", q.index))
      BY <1>3, <2>1, SourceIs
    <3> QED
      BY <1>4, <3>1
  <2>2. CASE \E w \in rows[y][r] : q.index = w.index + n /\ q.episode = w.episode
    <3>1. PICK w \in rows[y][r] : q.index = w.index + n /\ q.episode = w.episode
      BY <2>2
    <3>2. w.index \in Indices /\ (w.index \in In(y, "data") => w.episode = Ep(y, "data", w.index))
      BY <1>3, SourceIs
    <3>3. ~(q.index < n) /\ q.index - n = w.index
      BY <1>3, <3>1, <3>2 DEF Indices
    <3> QED
      BY <1>4, <3>1, <3>2, <3>3
  <2> QED
    BY <1>6, <2>1, <2>2
<1>8. ASSUME Todo(d) = {}
      PROVE  Counted(d)
  <2>1. count[d] = n + count[y]
    BY <1>3, <1>8 DEF Merged, Past
  <2>2. ASSUME NEW i \in In(d, "data")
        PROVE  i < count[d]
    <3>1. i \in Indices
      BY <1>4
    <3>2. CASE i < n
      BY <1>3, <2>1, <3>1, <3>2 DEF Indices
    <3>3. CASE ~(i < n)
      <4>1. i - n \in In(y, "data")
        BY <1>4, <3>3
      <4>2. i - n < count[y]
        BY <1>3, <4>1, SourceIs
      <4> QED
        BY <1>3, <2>1, <3>1, <4>2 DEF Indices
    <3> QED
      BY <3>2, <3>3
  <2>3. ASSUME NEW r \in Range(RowFiles), NEW q \in rows[d][r]
        PROVE  q.index < count[d]
    <3>1. CASE q \in rows[x][r]
      <4>1. q.index < n /\ q.index \in Indices
        BY <1>3, <3>1, SourceIs
      <4> QED
        BY <1>3, <2>1, <4>1 DEF Indices
    <3>2. CASE \E w \in rows[y][r] : q.index = w.index + n /\ q.episode = w.episode
      <4>1. PICK w \in rows[y][r] : q.index = w.index + n
        BY <3>2
      <4>2. w.index < count[y] /\ w.index \in Indices
        BY <1>3, SourceIs
      <4> QED
        BY <1>3, <2>1, <4>1, <4>2 DEF Indices
    <3> QED
      BY <1>6, <3>1, <3>2
  <2> QED
    BY <1>8, <2>2, <2>3, CountedAtRest
<1> QED
  BY <1>5, <1>7, <1>8

\* Also in the state after a step.
LEMMA MergeAgreesNext == MergeLaw'
BY MergeAgrees, PTL

\* The output of a merge and the step that is next.
Combining(d, z) ==
  /\ TypeOK /\ d = job.on /\ Ordered(job.todo) /\ job.kind = "merge"
  /\ KindsOfSteps /\ MergesFit
  /\ z \in job.todo /\ NextIn(job.todo, z) /\ Done(z)

\* A step of a merge is past when it has been done.
LEMMA PastAfter ==
  ASSUME NEW d \in Datasets, NEW z, Combining(d, z)
  PROVE  /\ job'.todo = job.todo \ {z} /\ Todo(d) = job.todo /\ Todo(d)' = job.todo \ {z}
         /\ \A at : Past(at)' <=> Past(at) \/ z.at = at
         /\ ~Past(z.at)
         /\ \A q \in job.todo : q.op \in MergeOps /\ ~Earlier(q, z)
<1>1. job'.todo = job.todo \ {z} /\ Todo(d)' = Todo(d) \ {z} /\ Todo(d) = job.todo
  BY JobGoesOn DEF Combining, Todo
<1>2. \A q \in job.todo : q.op \in MergeOps
  BY DEF Combining, KindsOfSteps
<1>3. \A q \in job.todo : ~Earlier(q, z)
  BY NextIsFirst DEF Combining, TypeOK
<1>4. \A q \in job.todo : q.at = z.at => q = z
  BY DEF Combining, Ordered
<1>5. \A at : Past(at)' <=> Past(at) \/ z.at = at
  BY <1>1, <1>4 DEF Past
<1> QED
  BY <1>1, <1>2, <1>3, <1>5 DEF Past, Combining

\* The operation tells the place of a step of a merge, up to its source.
LEMMA WhichStep ==
  ASSUME NEW x, NEW y, NEW z \in MergeSteps(x, y)
  PROVE  /\ z.op = "merge data" =>
              \/ z.at = <<1, 1, 0>> /\ z.in = x /\ z.from = 0
              \/ z.at = <<1, 2, 0>> /\ z.in = y /\ z.from = Share(x)
         /\ z.op = "clear" => z.at = <<2, 0, 0>>
         /\ z.op = "merge meta" =>
              \/ z.at = <<3, 1, 0>> /\ z.in = x /\ z.from = 0
              \/ z.at = <<3, 2, 0>> /\ z.in = y /\ z.from = Share(x)
         /\ z.op = "merge videos" =>
              \/ z.at = <<4, 1, 0>> /\ z.in = x /\ z.from = 0 /\ z.to = Share(x)
              \/ z.at = <<4, 2, 0>> /\ z.in = y /\ z.from = Share(x) /\ z.to = Share(y)
<1> DEFINE n == Share(x)
           m == Share(y)
<1>1. \/ z = Step(<<1, 1, 0>>, "merge data", x, 0, n)
      \/ z = Step(<<1, 2, 0>>, "merge data", y, n, m)
      \/ z = Step(<<2, 0, 0>>, "clear", "meta", 0, 0)
      \/ z = Step(<<3, 1, 0>>, "merge meta", x, 0, n)
      \/ z = Step(<<3, 2, 0>>, "merge meta", y, n, m)
      \/ z = Step(<<4, 1, 0>>, "merge videos", x, 0, n)
      \/ z = Step(<<4, 2, 0>>, "merge videos", y, n, m)
  BY DEF MergeSteps
<1> HIDE DEF n, m
<1> SUFFICES /\ z.op = "merge data" =>
                  \/ z.at = <<1, 1, 0>> /\ z.in = x /\ z.from = 0
                  \/ z.at = <<1, 2, 0>> /\ z.in = y /\ z.from = n
             /\ z.op = "clear" => z.at = <<2, 0, 0>>
             /\ z.op = "merge meta" =>
                  \/ z.at = <<3, 1, 0>> /\ z.in = x /\ z.from = 0
                  \/ z.at = <<3, 2, 0>> /\ z.in = y /\ z.from = n
             /\ z.op = "merge videos" =>
                  \/ z.at = <<4, 1, 0>> /\ z.in = x /\ z.from = 0 /\ z.to = n
                  \/ z.at = <<4, 2, 0>> /\ z.in = y /\ z.from = n /\ z.to = m
  BY DEF n, m
<1>2. CASE z = Step(<<1, 1, 0>>, "merge data", x, 0, n)
  BY <1>2 DEF Step
<1>3. CASE z = Step(<<1, 2, 0>>, "merge data", y, n, m)
  BY <1>3 DEF Step
<1>4. CASE z = Step(<<2, 0, 0>>, "clear", "meta", 0, 0)
  BY <1>4 DEF Step
<1>5. CASE z = Step(<<3, 1, 0>>, "merge meta", x, 0, n)
  BY <1>5 DEF Step
<1>6. CASE z = Step(<<3, 2, 0>>, "merge meta", y, n, m)
  BY <1>6 DEF Step
<1>7. CASE z = Step(<<4, 1, 0>>, "merge videos", x, 0, n)
  BY <1>7 DEF Step
<1>8. CASE z = Step(<<4, 2, 0>>, "merge videos", y, n, m)
  BY <1>8 DEF Step
<1> QED
  BY <1>1, <1>2, <1>3, <1>4, <1>5, <1>6, <1>7, <1>8

\* What does not change while a merge reads it.
LEMMA SourcesStay ==
  ASSUME NEW x \in Datasets, NEW y \in Datasets,
         \A e \in {x, y} : files'[e] = files[e] /\ count'[e] = count[e]
  PROVE  /\ MergeSteps(x, y)' = MergeSteps(x, y)
         /\ \A e \in {x, y} : /\ Share(e)' = Share(e)
                              /\ \A s : In(e, s)' = In(e, s)
                              /\ \A s, i : Ep(e, s, i)' = Ep(e, s, i)
<1>1. \A e \in {x, y} : /\ \A s : In(e, s)' = In(e, s)
                        /\ \A s, i : Ep(e, s, i)' = Ep(e, s, i)
  BY DEF In, Ep
<1>2. Share(x)' = Share(x) /\ Share(y)' = Share(y)
  BY <1>1 DEF Share
<1>3. MergeSteps(x, y)' = MergeSteps(x, y)
  BY <1>2 DEF MergeSteps
<1> QED
  BY <1>1, <1>2, <1>3

\* The parts of Merged, for the state after a step.
LEMMA MergedNext ==
  ASSUME NEW d \in Datasets, NEW z, Combining(d, z),
         NEW x \in Datasets \ {d}, NEW y \in Datasets \ {d}, Merged(d, x, y),
         \A e \in {x, y} :
           files'[e] = files[e] /\ rows'[e] = rows[e] /\ count'[e] = count[e],
         \A j \in In(d, "data")' :
           \/ j \in In(x, "data") /\ j < Share(x) /\ Ep(d, "data", j)' = Ep(x, "data", j)
           \/ /\ j - Share(x) \in In(y, "data")
              /\ Ep(d, "data", j)' = Ep(y, "data", j - Share(x)),
         In(d, "data") \subseteq In(d, "data")',
         z.at = <<1, 1, 0>> => In(x, "data") \subseteq In(d, "data")',
         z.at = <<1, 2, 0>> => \A k \in In(y, "data") : k + Share(x) \in In(d, "data")',
         \A s \in Range(Media) : \A j \in In(d, s)' :
           /\ \/ j \in In(x, s) /\ j < Share(x) /\ Ep(d, s, j)' = Ep(x, s, j)
              \/ j - Share(x) \in In(y, s) /\ Ep(d, s, j)' = Ep(y, s, j - Share(x))
           /\ Past(<<1, 1, 0>>) /\ Past(<<1, 2, 0>>),
         \A r \in Range(RowFiles) : \A q \in rows'[d][r] :
           \/ q \in rows[x][r]
           \/ \E w \in rows[y][r] : q = Row(w.index + Share(x), w.episode),
         count'[d] = (IF Past(<<3, 1, 0>>)' THEN count[x] ELSE 0)
                       + (IF Past(<<3, 2, 0>>)' THEN count[y] ELSE 0)
  PROVE  Merged(d, x, y)'
<1>1. /\ job'.todo = job.todo \ {z}
      /\ \A at : Past(at)' <=> Past(at) \/ z.at = at
      /\ ~Past(z.at) /\ \A q \in job.todo : ~Earlier(q, z)
  BY PastAfter
<1>2. /\ MergeSteps(x, y)' = MergeSteps(x, y)
      /\ \A e \in {x, y} : /\ Share(e)' = Share(e)
                           /\ \A s : In(e, s)' = In(e, s)
                           /\ \A s, i : Ep(e, s, i)' = Ep(e, s, i)
  BY SourcesStay
<1>3. job'.todo \subseteq MergeSteps(x, y)'
  BY <1>1, <1>2 DEF Merged
<1>4. ~Past(<<2, 0, 0>>)' => ~Past(<<3, 1, 0>>)' /\ ~Past(<<3, 2, 0>>)'
  <2> SUFFICES ASSUME ~Past(<<2, 0, 0>>)'
               PROVE  ~Past(<<3, 1, 0>>)' /\ ~Past(<<3, 2, 0>>)'
    OBVIOUS
  <2>1. ~Past(<<2, 0, 0>>)
    BY <1>1
  <2>2. PICK q \in job.todo : q.at = <<2, 0, 0>>
    BY <2>1 DEF Past
  <2>3. z.at # <<3, 1, 0>> /\ z.at # <<3, 2, 0>>
    BY <1>1, <2>2 DEF Earlier
  <2> QED
    BY <1>1, <2>1, <2>3 DEF Merged
<1>5. \A j \in In(d, "data")' : Comes(d, x, y, "data", j)'
  BY <1>2 DEF Comes
<1>6. /\ Past(<<1, 1, 0>>)' => In(x, "data")' \subseteq In(d, "data")'
      /\ Past(<<1, 2, 0>>)' => \A k \in In(y, "data")' : k + Share(x)' \in In(d, "data")'
  BY <1>1, <1>2 DEF Merged
<1>7. \A s \in Range(Media) : \A j \in In(d, s)' :
        Comes(d, x, y, s, j)' /\ Past(<<1, 1, 0>>)' /\ Past(<<1, 2, 0>>)'
  BY <1>1, <1>2 DEF Comes
<1>8. \A r \in Range(RowFiles) : \A q \in rows'[d][r] :
       \/ q \in rows'[x][r]
       \/ \E w \in rows'[y][r] : q = Row(w.index + Share(x)', w.episode)
  BY <1>2
<1>9. count'[d] = (IF Past(<<3, 1, 0>>)' THEN count'[x] ELSE 0)
                    + (IF Past(<<3, 2, 0>>)' THEN count'[y] ELSE 0)
  OBVIOUS
<1> QED
  BY <1>3, <1>4, <1>5, <1>6, <1>7, <1>8, <1>9 DEF Merged, Row

\* What Merged says before a step, in the form that the steps need.
LEMMA MergedBefore ==
  ASSUME NEW d \in Datasets, NEW z, Combining(d, z),
         NEW x \in Datasets \ {d}, NEW y \in Datasets \ {d}, Merged(d, x, y),
         Source(x), Source(y)
  PROVE  /\ z \in MergeSteps(x, y) /\ Share(x) \in Nat /\ Share(y) \in Nat
         /\ x \in Datasets /\ y \in Datasets
         /\ \A s \in Range(Stores) :
              /\ In(d, s) \in SUBSET Indices /\ In(x, s) \in SUBSET Indices
              /\ In(y, s) \in SUBSET Indices
         /\ \A i \in In(x, "data") : i < Share(x)
         /\ \A s \in Range(Stores) : \A j \in In(d, s) :
              \/ j \in In(x, s) /\ j < Share(x) /\ Ep(d, s, j) = Ep(x, s, j)
              \/ j - Share(x) \in In(y, s) /\ Ep(d, s, j) = Ep(y, s, j - Share(x))
         /\ \A s \in Range(Media) : In(d, s) # {} => Past(<<1, 1, 0>>) /\ Past(<<1, 2, 0>>)
         /\ \A r \in Range(RowFiles) : \A q \in rows[d][r] :
              \/ q \in rows[x][r]
              \/ \E w \in rows[y][r] : q = Row(w.index + Share(x), w.episode)
         /\ count[d] = (IF Past(<<3, 1, 0>>) THEN count[x] ELSE 0)
                         + (IF Past(<<3, 2, 0>>) THEN count[y] ELSE 0)
<1>1. TypeOK /\ x \in Datasets /\ y \in Datasets /\ z \in job.todo
  BY DEF Combining
<1>2. /\ z \in MergeSteps(x, y)
      /\ \A s \in Range(Media) : In(d, s) # {} => Past(<<1, 1, 0>>) /\ Past(<<1, 2, 0>>)
      /\ \A r \in Range(RowFiles) : \A q \in rows[d][r] :
              \/ q \in rows[x][r]
              \/ \E w \in rows[y][r] : q = Row(w.index + Share(x), w.episode)
      /\ count[d] = (IF Past(<<3, 1, 0>>) THEN count[x] ELSE 0)
                         + (IF Past(<<3, 2, 0>>) THEN count[y] ELSE 0)
  BY <1>1 DEF Merged
<1>3. /\ Share(x) \in Nat /\ Share(y) \in Nat
      /\ \A i \in In(x, "data") : i < Share(x)
  BY <1>1, SourceIs
<1>4. \A s \in Range(Stores) : /\ In(d, s) \in SUBSET Indices
                               /\ In(x, s) \in SUBSET Indices /\ In(y, s) \in SUBSET Indices
  BY <1>1, MapsOK
<1>5. \A s \in Range(Stores) : s = "data" \/ s \in Range(Media)
  BY DataIsStore DEF Range
<1>6. \A s \in Range(Stores) : \A j \in In(d, s) : Comes(d, x, y, s, j)
  BY <1>5 DEF Merged
<1>7. \A s \in Range(Stores) : \A j \in In(d, s) :
              \/ j \in In(x, s) /\ j < Share(x) /\ Ep(d, s, j) = Ep(x, s, j)
              \/ j - Share(x) \in In(y, s) /\ Ep(d, s, j) = Ep(y, s, j - Share(x))
  BY <1>6 DEF Comes
<1> QED
  BY <1>1, <1>2, <1>3, <1>4, <1>7

\* Merged is kept by the steps of a merge: data,
LEMMA MergeDataGoesOn ==
  ASSUME NEW d \in Datasets, NEW z, Combining(d, z),
         NEW x \in Datasets \ {d}, NEW y \in Datasets \ {d}, Merged(d, x, y),
         Source(x), Source(y), MergeData(z)
  PROVE  Merged(d, x, y)'
<1> DEFINE n == Share(x)
<1>0. /\ \A at : Past(at)' <=> Past(at) \/ z.at = at
      /\ ~Past(z.at)
  BY PastAfter
<1>1. /\ z.op = "merge data" /\ z.in \in Datasets \ {d}
      /\ \A e \in Datasets : \A s \in Range(Stores) :
              e # d \/ s # "data" => files'[e][s] = files[e][s]
      /\ In(d, "data")' = In(d, "data") \cup {k + z.from : k \in In(z.in, "data")}
      /\ \A i \in In(d, "data") \cup {k + z.from : k \in In(z.in, "data")} :
              files'[d]["data"][i] =
                IF i - z.from \in In(z.in, "data")
                THEN File(Ep(z.in, "data", i - z.from), i) ELSE files[d]["data"][i]
      /\ rows' = rows /\ count' = count
  BY MergeDataDoes DEF Combining, MergeData
<1>2. \A e \in {x, y} : files'[e] = files[e] /\ rows'[e] = rows[e] /\ count'[e] = count[e]
  <2>1. files' = [files EXCEPT ![d] = files'[d]]
    BY DEF MergeData, Store, Combining, TypeOK
  <2>2. files \in [Datasets -> [Range(Stores) -> FileMaps]]
    BY DEF Combining, TypeOK
  <2>3. \A e \in Datasets \ {d} : files'[e] = files[e]
    BY <2>1, <2>2
  <2> QED
    BY <1>1, <2>3
<1>3. /\ n \in Nat /\ z \in MergeSteps(x, y)
      /\ In(d, "data") \in SUBSET Indices /\ In(x, "data") \in SUBSET Indices
      /\ In(y, "data") \in SUBSET Indices
      /\ \A i \in In(x, "data") : i < n
      /\ \A j \in In(d, "data") :
              \/ j \in In(x, "data") /\ j < n /\ Ep(d, "data", j) = Ep(x, "data", j)
              \/ j - n \in In(y, "data") /\ Ep(d, "data", j) = Ep(y, "data", j - n)
      /\ \A s \in Range(Media) : In(d, s) # {} => Past(<<1, 1, 0>>) /\ Past(<<1, 2, 0>>)
  BY MergedBefore, DataIsStore
<1>4. \/ z.at = <<1, 1, 0>> /\ z.in = x /\ z.from = 0
      \/ z.at = <<1, 2, 0>> /\ z.in = y /\ z.from = n
  BY <1>1, <1>3, WhichStep
<1>5. \A s \in Range(Media) : In(d, s)' = {}
  <2> SUFFICES ASSUME NEW s \in Range(Media)
               PROVE  In(d, s)' = {}
    OBVIOUS
  <2>1. In(d, s) = {}
    BY <1>0, <1>3, <1>4
  <2> QED
    BY <1>1, <2>1, DataIsStore DEF In
<1>6. \A j \in In(d, "data")' :
           \/ j \in In(x, "data") /\ j < n /\ Ep(d, "data", j)' = Ep(x, "data", j)
           \/ j - n \in In(y, "data") /\ Ep(d, "data", j)' = Ep(y, "data", j - n)
  <2> SUFFICES ASSUME NEW j \in In(d, "data")'
               PROVE  \/ j \in In(x, "data") /\ j < n /\ Ep(d, "data", j)' = Ep(x, "data", j)
                      \/ j - n \in In(y, "data") /\ Ep(d, "data", j)' = Ep(y, "data", j - n)
    OBVIOUS
  <2>1. CASE j - z.from \in In(z.in, "data")
    <3>a. files'[d]["data"][j] = File(Ep(z.in, "data", j - z.from), j)
      BY <1>1, <2>1
    <3>1. Ep(d, "data", j)' = Ep(z.in, "data", j - z.from)
      BY <3>a DEF Ep, File
    <3>2. CASE z.in = x /\ z.from = 0
      <4>a. \A k \in In(x, "data") : k \in Int /\ k + 0 = k
        BY <1>3 DEF Indices
      <4>b. \A k \in In(d, "data") : k \in Int
        BY <1>3 DEF Indices
      <4>1. j \in Int
        BY <1>1, <3>2, <4>a, <4>b
      <4>2. j - 0 = j
        BY <4>1
      <4> QED
        BY <1>3, <2>1, <3>1, <3>2, <4>2
    <3>3. CASE z.in = y /\ z.from = n
      BY <2>1, <3>1, <3>3
    <3> QED
      BY <1>4, <3>2, <3>3
  <2>2. CASE j - z.from \notin In(z.in, "data")
    <3>1. j \in In(d, "data")
      <4> SUFFICES ASSUME NEW k \in In(z.in, "data"), j = k + z.from
                   PROVE  FALSE
        BY <1>1
      <4>1. k \in Int /\ z.from \in Int
        BY <1>3, <1>4 DEF Indices
      <4>2. j - z.from = k
        BY <4>1, PlusMinus
      <4> QED
        BY <2>2, <4>2
    <3>2. Ep(d, "data", j)' = Ep(d, "data", j)
      BY <1>1, <2>2, <3>1 DEF Ep
    <3> QED
      BY <1>3, <3>1, <3>2
  <2> QED
    BY <2>1, <2>2
<1>7. z.at = <<1, 1, 0>> => In(x, "data") \subseteq In(d, "data")'
  <2> SUFFICES ASSUME z.in = x, z.from = 0, NEW k \in In(x, "data")
               PROVE  k \in In(d, "data")'
    BY <1>4
  <2>1. k + 0 = k
    BY <1>3 DEF Indices
  <2> QED
    BY <1>1, <2>1
<1>8. z.at = <<1, 2, 0>> => \A k \in In(y, "data") : k + n \in In(d, "data")'
  <2> SUFFICES ASSUME z.at = <<1, 2, 0>>, NEW k \in In(y, "data")
               PROVE  k + n \in In(d, "data")'
    OBVIOUS
  <2>1. z.in = y /\ z.from = n
    BY <1>4
  <2> HIDE DEF n
  <2> QED
    BY <1>1, <2>1
<1>9. \A r \in Range(RowFiles) : \A q \in rows'[d][r] :
           \/ q \in rows[x][r]
           \/ \E w \in rows[y][r] : q = Row(w.index + Share(x), w.episode)
  <2>1. \A r \in Range(RowFiles) : \A q \in rows[d][r] :
           \/ q \in rows[x][r]
           \/ \E w \in rows[y][r] : q = Row(w.index + Share(x), w.episode)
    BY MergedBefore
  <2> QED
    BY <1>1, <2>1
<1>10. count'[d] = (IF Past(<<3, 1, 0>>)' THEN count[x] ELSE 0)
                       + (IF Past(<<3, 2, 0>>)' THEN count[y] ELSE 0)
  <2>1. /\ Past(<<3, 1, 0>>)' <=> Past(<<3, 1, 0>>)
        /\ Past(<<3, 2, 0>>)' <=> Past(<<3, 2, 0>>)
    BY <1>0, <1>4
  <2>2. count[d] = (IF Past(<<3, 1, 0>>) THEN count[x] ELSE 0)
                       + (IF Past(<<3, 2, 0>>) THEN count[y] ELSE 0)
    BY MergedBefore
  <2> QED
    BY <1>1, <2>1, <2>2
<1>11. In(d, "data") \subseteq In(d, "data")'
  BY <1>1
<1> QED
  BY <1>2, <1>5, <1>6, <1>7, <1>8, <1>9, <1>10, <1>11, MergedNext

\* The metadata of a merge: the files stay.
LEMMA MergedFilesStay ==
  ASSUME NEW d \in Datasets, NEW z, Combining(d, z),
         NEW x \in Datasets \ {d}, NEW y \in Datasets \ {d}, Merged(d, x, y),
         Source(x), Source(y), files' = files,
         \A e \in Datasets : e # d => rows'[e] = rows[e] /\ count'[e] = count[e],
         z.at # <<1, 1, 0>> /\ z.at # <<1, 2, 0>>,
         \A r \in Range(RowFiles) : \A q \in rows'[d][r] :
           \/ q \in rows[x][r]
           \/ \E w \in rows[y][r] : q = Row(w.index + Share(x), w.episode),
         count'[d] = (IF Past(<<3, 1, 0>>)' THEN count[x] ELSE 0)
                       + (IF Past(<<3, 2, 0>>)' THEN count[y] ELSE 0)
  PROVE  Merged(d, x, y)'
<1> DEFINE n == Share(x)
<1>1. \A s : In(d, s)' = In(d, s) /\ \A i : Ep(d, s, i)' = Ep(d, s, i)
  BY DEF In, Ep
<1>2. /\ \A s \in Range(Stores) : \A j \in In(d, s) :
              \/ j \in In(x, s) /\ j < n /\ Ep(d, s, j) = Ep(x, s, j)
              \/ j - n \in In(y, s) /\ Ep(d, s, j) = Ep(y, s, j - n)
      /\ \A s \in Range(Media) : In(d, s) # {} => Past(<<1, 1, 0>>) /\ Past(<<1, 2, 0>>)
      /\ x \in Datasets /\ y \in Datasets
  BY MergedBefore
<1>3. \A e \in {x, y} : files'[e] = files[e] /\ rows'[e] = rows[e] /\ count'[e] = count[e]
  OBVIOUS
<1>4. \A j \in In(d, "data")' :
           \/ j \in In(x, "data") /\ j < n /\ Ep(d, "data", j)' = Ep(x, "data", j)
           \/ j - n \in In(y, "data") /\ Ep(d, "data", j)' = Ep(y, "data", j - n)
  BY <1>1, <1>2, DataIsStore
<1>5. \A s \in Range(Media) : \A j \in In(d, s)' :
           /\ \/ j \in In(x, s) /\ j < n /\ Ep(d, s, j)' = Ep(x, s, j)
              \/ j - n \in In(y, s) /\ Ep(d, s, j)' = Ep(y, s, j - n)
           /\ Past(<<1, 1, 0>>) /\ Past(<<1, 2, 0>>)
  BY <1>1, <1>2, DataIsStore
<1>6. In(d, "data") \subseteq In(d, "data")'
  BY <1>1
<1> QED
  BY <1>3, <1>4, <1>5, <1>6, MergedNext

\* clearing of the metadata,
LEMMA ClearMetaGoesOn ==
  ASSUME NEW d \in Datasets, NEW z, Combining(d, z),
         NEW x \in Datasets \ {d}, NEW y \in Datasets \ {d}, Merged(d, x, y),
         Source(x), Source(y), ClearMeta(z)
  PROVE  Merged(d, x, y)'
<1>1. /\ z.op = "clear" /\ files' = files
      /\ \A e \in Datasets : e # d => rows'[e] = rows[e] /\ count'[e] = count[e]
      /\ \A r \in Range(RowFiles) : rows'[d][r] = {}
      /\ count'[d] = 0
  BY ClearDoes DEF Combining, ClearMeta
<1>2. z.at = <<2, 0, 0>>
  <2>1. z \in MergeSteps(x, y)
    BY DEF Combining, Merged
  <2>2. z.op = "clear" => z.at = <<2, 0, 0>>
    BY <2>1, WhichStep
  <2> QED
    BY <1>1, <2>2
<1>3. /\ \A at : Past(at)' <=> Past(at) \/ z.at = at
      /\ ~Past(z.at)
  BY PastAfter
<1>4. ~Past(<<3, 1, 0>>)' /\ ~Past(<<3, 2, 0>>)'
  BY <1>2, <1>3 DEF Merged
<1> QED
  BY <1>1, <1>2, <1>4, MergedFilesStay

\* metadata,
LEMMA MergeMetaGoesOn ==
  ASSUME NEW d \in Datasets, NEW z, Combining(d, z),
         NEW x \in Datasets \ {d}, NEW y \in Datasets \ {d}, Merged(d, x, y),
         Source(x), Source(y), MergeMeta(z)
  PROVE  Merged(d, x, y)'
<1> DEFINE n == Share(x)
<1>1. /\ z.op = "merge meta" /\ files' = files
      /\ \A e \in Datasets : e # d => rows'[e] = rows[e] /\ count'[e] = count[e]
      /\ \A r \in Range(RowFiles) : rows'[d][r] =
           rows[d][r] \cup {Row(q.index + z.from, q.episode) : q \in rows[z.in][r]}
      /\ count'[d] = count[d] + count[z.in]
  BY MergeMetaDoes DEF Combining, MergeMeta
<1>2. \/ z.at = <<3, 1, 0>> /\ z.in = x /\ z.from = 0
      \/ z.at = <<3, 2, 0>> /\ z.in = y /\ z.from = n
  <2>1. z \in MergeSteps(x, y)
    BY DEF Combining, Merged
  <2> QED
    BY <1>1, <2>1, WhichStep
<1>3. /\ \A at : Past(at)' <=> Past(at) \/ z.at = at
      /\ ~Past(z.at)
  BY PastAfter
<1>4. /\ \A r \in Range(RowFiles) : \A q \in rows[d][r] :
           \/ q \in rows[x][r]
           \/ \E w \in rows[y][r] : q = Row(w.index + n, w.episode)
      /\ count[d] = (IF Past(<<3, 1, 0>>) THEN count[x] ELSE 0)
                      + (IF Past(<<3, 2, 0>>) THEN count[y] ELSE 0)
  BY MergedBefore
<1>5. count[x] \in Nat /\ count[y] \in Nat
  BY DEF Combining, TypeOK
<1>6. count'[d] = (IF Past(<<3, 1, 0>>)' THEN count[x] ELSE 0)
                       + (IF Past(<<3, 2, 0>>)' THEN count[y] ELSE 0)
  <2>1. CASE z.at = <<3, 1, 0>> /\ z.in = x
    <3>1. /\ Past(<<3, 1, 0>>)' /\ ~Past(<<3, 1, 0>>)
          /\ Past(<<3, 2, 0>>)' <=> Past(<<3, 2, 0>>)
      BY <1>3, <2>1
    <3>2. count'[d] = count[d] + count[x]
      BY <1>1, <2>1
    <3>3. CASE Past(<<3, 2, 0>>)
      BY <1>4, <1>5, <3>1, <3>2, <3>3
    <3>4. CASE ~Past(<<3, 2, 0>>)
      BY <1>4, <1>5, <3>1, <3>2, <3>4
    <3> QED
      BY <3>3, <3>4
  <2>2. CASE z.at = <<3, 2, 0>> /\ z.in = y
    <3>1. /\ Past(<<3, 2, 0>>)' /\ ~Past(<<3, 2, 0>>)
          /\ Past(<<3, 1, 0>>)' <=> Past(<<3, 1, 0>>)
      BY <1>3, <2>2
    <3>2. count'[d] = count[d] + count[y]
      BY <1>1, <2>2
    <3>3. CASE Past(<<3, 1, 0>>)
      BY <1>4, <1>5, <3>1, <3>2, <3>3
    <3>4. CASE ~Past(<<3, 1, 0>>)
      BY <1>4, <1>5, <3>1, <3>2, <3>4
    <3> QED
      BY <3>3, <3>4
  <2> QED
    BY <1>2, <2>1, <2>2
<1>7. \A r \in Range(RowFiles) : \A q \in rows'[d][r] :
           \/ q \in rows[x][r]
           \/ \E w \in rows[y][r] : q = Row(w.index + n, w.episode)
  <2> SUFFICES ASSUME NEW r \in Range(RowFiles), NEW q \in rows'[d][r], q \notin rows[d][r]
               PROVE  \/ q \in rows[x][r]
                      \/ \E v \in rows[y][r] : q = Row(v.index + n, v.episode)
    BY <1>4
  <2>a. q \in rows[d][r] \cup {Row(v.index + z.from, v.episode) : v \in rows[z.in][r]}
    BY <1>1
  <2>b. PICK w \in rows[z.in][r] : q = Row(w.index + z.from, w.episode)
    BY <2>a
  <2>1. CASE z.in = x /\ z.from = 0
    <3>1. w \in [index : Indices, episode : Episode]
      BY <2>1 DEF Combining, TypeOK, Rows
    <3>2. w = Row(w.index, w.episode) /\ w.index + 0 = w.index
      BY <3>1 DEF Row, Indices
    <3> QED
      BY <2>1, <2>b, <3>2
  <2>2. CASE z.in = y /\ z.from = n
    BY <2>2, <2>b
  <2> QED
    BY <1>2, <2>1, <2>2
<1>8. z.at # <<1, 1, 0>> /\ z.at # <<1, 2, 0>>
  BY <1>2
<1> QED
  BY <1>1, <1>6, <1>7, <1>8, MergedFilesStay

\* and videos, which come when all the data are there.
LEMMA MergeVideosGoesOn ==
  ASSUME NEW d \in Datasets, NEW z, Combining(d, z),
         NEW x \in Datasets \ {d}, NEW y \in Datasets \ {d}, Merged(d, x, y),
         Source(x), Source(y), MergeVideos(z)
  PROVE  Merged(d, x, y)'
<1> DEFINE n == Share(x)
<1>1. /\ z.op = "merge videos" /\ rows' = rows /\ count' = count
      /\ \A e \in Datasets : \A s \in Range(Stores) :
           e # d \/ s \notin Range(Videos) => files'[e][s] = files[e][s]
      /\ \A s \in Range(Videos) :
              /\ In(d, s)' = In(d, s) \cup {k + z.from : k \in {i \in In(z.in, s) : i < z.to}}
              /\ \A i \in In(d, s) : files'[d][s][i] = files[d][s][i]
              /\ \A k \in In(z.in, s) : k < z.to /\ k + z.from \notin In(d, s) =>
                   files'[d][s][k + z.from] = files[z.in][s][k]
  <2>1. UNCHANGED <<rows, count>> /\ TypeOK /\ MergesFit /\ d = job.on /\ z \in job.todo
    BY DEF MergeVideos, Combining
  <2> QED
    BY <2>1, MergeVideosDoes
<1>2. \/ z.at = <<4, 1, 0>> /\ z.in = x /\ z.from = 0 /\ z.to = n
      \/ z.at = <<4, 2, 0>> /\ z.in = y /\ z.from = n /\ z.to = Share(y)
  <2>1. z \in MergeSteps(x, y)
    BY DEF Combining, Merged
  <2> QED
    BY <1>1, <2>1, WhichStep
<1>3. /\ \A at : Past(at)' <=> Past(at) \/ z.at = at
      /\ \A q \in job.todo : ~Earlier(q, z)
  BY PastAfter
<1>4. Past(<<1, 1, 0>>) /\ Past(<<1, 2, 0>>)
  BY <1>2, <1>3 DEF Past, Earlier
<1>5. /\ n \in Nat /\ x \in Datasets /\ y \in Datasets
      /\ \A s \in Range(Stores) :
              /\ In(d, s) \in SUBSET Indices /\ In(x, s) \in SUBSET Indices
              /\ In(y, s) \in SUBSET Indices
      /\ \A s \in Range(Stores) : \A j \in In(d, s) :
              \/ j \in In(x, s) /\ j < n /\ Ep(d, s, j) = Ep(x, s, j)
              \/ j - n \in In(y, s) /\ Ep(d, s, j) = Ep(y, s, j - n)
  BY MergedBefore
<1>6. \A e \in {x, y} : files'[e] = files[e] /\ rows'[e] = rows[e] /\ count'[e] = count[e]
  <2>1. files' = [files EXCEPT ![d] = files'[d]]
    BY DEF MergeVideos, Combining, TypeOK
  <2>2. files \in [Datasets -> [Range(Stores) -> FileMaps]]
    BY DEF Combining, TypeOK
  <2>3. \A e \in Datasets \ {d} : files'[e] = files[e]
    BY <2>1, <2>2
  <2> QED
    BY <1>1, <2>3
<1>7. \A s \in Range(Stores) : s \notin Range(Videos) =>
        In(d, s)' = In(d, s) /\ \A i : Ep(d, s, i)' = Ep(d, s, i)
  BY <1>1 DEF In, Ep
<1>8. ASSUME NEW s \in Range(Videos), NEW j \in In(d, s)'
      PROVE  \/ j \in In(x, s) /\ j < n /\ Ep(d, s, j)' = Ep(x, s, j)
             \/ j - n \in In(y, s) /\ Ep(d, s, j)' = Ep(y, s, j - n)
  <2>0. s \in Range(Stores)
    BY DataIsStore
  <2>1. CASE j \in In(d, s)
    <3>1. Ep(d, s, j)' = Ep(d, s, j)
      BY <1>1, <2>1 DEF Ep
    <3> QED
      BY <1>5, <2>0, <2>1, <3>1
  <2>2. CASE j \notin In(d, s)
    <3>1. PICK k \in In(z.in, s) : k < z.to /\ j = k + z.from
      <4>1. In(d, s)' = In(d, s) \cup {k + z.from : k \in {i \in In(z.in, s) : i < z.to}}
        BY <1>1
      <4> QED
        BY <2>2, <4>1
    <3>2. files'[d][s][j] = files[z.in][s][k]
      BY <1>1, <2>2, <3>1
    <3>3. Ep(d, s, j)' = Ep(z.in, s, k)
      BY <3>2 DEF Ep
    <3>4. CASE z.in = x /\ z.from = 0 /\ z.to = n
      <4>1. k + 0 = k
        BY <1>5, <2>0, <3>4 DEF Indices
      <4> QED
        BY <3>1, <3>3, <3>4, <4>1
    <3>5. CASE z.in = y /\ z.from = n
      <4>1. k \in Int /\ n \in Int
        BY <1>5, <2>0, <3>5 DEF Indices
      <4>2. j - n = k
        BY <3>1, <3>5, <4>1, PlusMinus
      <4> QED
        BY <3>3, <3>5, <4>2
    <3> QED
      BY <1>2, <3>4, <3>5
  <2> QED
    BY <2>1, <2>2
<1>9. \A s \in Range(Media) : \A j \in In(d, s)' :
           /\ \/ j \in In(x, s) /\ j < n /\ Ep(d, s, j)' = Ep(x, s, j)
              \/ j - n \in In(y, s) /\ Ep(d, s, j)' = Ep(y, s, j - n)
           /\ Past(<<1, 1, 0>>) /\ Past(<<1, 2, 0>>)
  BY <1>4, <1>5, <1>7, <1>8, DataIsStore
<1>10. /\ In(d, "data")' = In(d, "data")
       /\ \A j \in In(d, "data")' :
            \/ j \in In(x, "data") /\ j < n /\ Ep(d, "data", j)' = Ep(x, "data", j)
            \/ j - n \in In(y, "data") /\ Ep(d, "data", j)' = Ep(y, "data", j - n)
  <2>1. "data" \in Range(Stores) /\ "data" \notin Range(Videos)
    BY DataIsStore
  <2> QED
    BY <1>5, <1>7, <2>1
<1>11. z.at # <<1, 1, 0>> /\ z.at # <<1, 2, 0>> /\ z.at # <<3, 1, 0>> /\ z.at # <<3, 2, 0>>
  BY <1>2
<1>12. \A r \in Range(RowFiles) : \A q \in rows'[d][r] :
           \/ q \in rows[x][r]
           \/ \E w \in rows[y][r] : q = Row(w.index + n, w.episode)
  <2>1. \A r \in Range(RowFiles) : \A q \in rows[d][r] :
           \/ q \in rows[x][r]
           \/ \E w \in rows[y][r] : q = Row(w.index + n, w.episode)
    BY MergedBefore
  <2> QED
    BY <1>1, <2>1
<1>13. count'[d] = (IF Past(<<3, 1, 0>>)' THEN count[x] ELSE 0)
                       + (IF Past(<<3, 2, 0>>)' THEN count[y] ELSE 0)
  <2>1. count[d] = (IF Past(<<3, 1, 0>>) THEN count[x] ELSE 0)
                       + (IF Past(<<3, 2, 0>>) THEN count[y] ELSE 0)
    BY MergedBefore
  <2> QED
    BY <1>1, <1>3, <1>11, <2>1
<1> QED
  BY <1>6, <1>9, <1>10, <1>11, <1>12, <1>13, MergedNext

\* The columns of the output are the indices of its files.
LEMMA MergeColumns ==
  ASSUME NEW d \in Datasets, NEW z, Combining(d, z), ColumnsAgree(d),
         MergeData(z) \/ MergeVideos(z) \/ UNCHANGED files
  PROVE  ColumnsAgree(d)'
<1>1. /\ Todo(d) = job.todo /\ Todo(d)' = job.todo \ {z}
      /\ \A q \in job.todo : q.op \in MergeOps
  BY PastAfter
<1>2. \A q \in job.todo : q.op # "patch"
  BY <1>1 DEF MergeOps
<1>3. \A i \in In(d, "data") : files[d]["data"][i].column = i
  BY <1>1, <1>2 DEF ColumnsAgree
<1>4. \A i \in In(d, "data")' : files'[d]["data"][i].column = i
  <2>1. CASE MergeData(z)
    <3>2. /\ In(d, "data")' = In(d, "data") \cup {k + z.from : k \in In(z.in, "data")}
          /\ z.in \in Datasets /\ z.from \in Nat
          /\ \A i \in In(d, "data") \cup {k + z.from : k \in In(z.in, "data")} :
               files'[d]["data"][i] =
                 IF i - z.from \in In(z.in, "data")
                 THEN File(Ep(z.in, "data", i - z.from), i) ELSE files[d]["data"][i]
      BY <2>1, MergeDataDoes DEF Combining
    <3>1. \A i \in In(d, "data")' :
            files'[d]["data"][i] =
                IF i - z.from \in In(z.in, "data")
                THEN File(Ep(z.in, "data", i - z.from), i) ELSE files[d]["data"][i]
      BY <3>2
    <3>3. ASSUME NEW i \in In(d, "data")', i - z.from \notin In(z.in, "data")
          PROVE  i \in In(d, "data")
      <4> SUFFICES ASSUME NEW k \in In(z.in, "data"), i = k + z.from
                   PROVE  FALSE
        BY <3>2
      <4>1. In(z.in, "data") \in SUBSET Indices
        BY <3>2, MapsOK, DataIsStore DEF Combining
      <4>2. k \in Int /\ z.from \in Int
        BY <3>2, <4>1 DEF Indices
      <4>3. i - z.from = k
        BY <4>2, PlusMinus
      <4> QED
        BY <3>3, <4>3
    <3> QED
      <4> SUFFICES ASSUME NEW i \in In(d, "data")'
                   PROVE  files'[d]["data"][i].column = i
        OBVIOUS
      <4>1. CASE i - z.from \in In(z.in, "data")
        <5>1. files'[d]["data"][i] = File(Ep(z.in, "data", i - z.from), i)
          BY <3>1, <4>1
        <5> QED
          BY <5>1 DEF File
      <4>2. CASE i - z.from \notin In(z.in, "data")
        BY <1>3, <3>1, <3>3, <4>2
      <4> QED
        BY <4>1, <4>2
  <2>2. CASE MergeVideos(z)
    <3>1. \A e \in Datasets : \A s \in Range(Stores) :
               e # d \/ s \notin Range(Videos) => files'[e][s] = files[e][s]
      BY <2>2, MergeVideosDoes DEF Combining
    <3>2. files'[d]["data"] = files[d]["data"]
      BY <3>1, DataIsStore
    <3> QED
      BY <1>3, <3>2 DEF In
  <2>3. CASE UNCHANGED files
    BY <1>3, <2>3 DEF In
  <2> QED
    BY <2>1, <2>2, <2>3
<1>5. \A q \in Todo(d)' : q.op # "patch"
  BY <1>1, <1>2
<1> QED
  BY <1>4, <1>5 DEF ColumnsAgree

\* The steps of a merge.
Merges(z) == MergeData(z) \/ ClearMeta(z) \/ MergeMeta(z) \/ MergeVideos(z)

\* A merge changes its output only.
LEMMA OthersStay ==
  ASSUME NEW d \in Datasets, NEW z, Combining(d, z), Merges(z), UNCHANGED <<asked, state>>,
         NEW e \in Datasets \ {d}
  PROVE  /\ Todo(e) = {} /\ Todo(e)' = {} /\ ~Merging(e) /\ ~Merging(e)'
         /\ files'[e] = files[e] /\ rows'[e] = rows[e] /\ count'[e] = count[e]
         /\ asked'[e] = asked[e] /\ state'[e] = state[e]
<1>1. /\ TypeOK /\ d = job.on /\ z \in job.todo /\ Done(z)
      /\ files \in [Datasets -> [Range(Stores) -> FileMaps]]
      /\ rows \in [Datasets -> [Range(RowFiles) -> Rows]] /\ count \in [Datasets -> Nat]
  BY DEF Combining, TypeOK
<1>2. files'[e] = files[e] /\ rows'[e] = rows[e] /\ count'[e] = count[e]
  <2>1. CASE MergeData(z)
    BY <1>1, <2>1 DEF MergeData, Store
  <2>2. CASE ClearMeta(z)
    BY <1>1, <2>2 DEF ClearMeta
  <2>3. CASE MergeMeta(z)
    BY <1>1, <2>3 DEF MergeMeta
  <2>4. CASE MergeVideos(z)
    BY <1>1, <2>4 DEF MergeVideos
  <2> QED
    BY <2>1, <2>2, <2>3, <2>4 DEF Merges
<1>3. Todo(e) = {} /\ Todo(e)' = {}
  BY <1>1, JobGoesOn DEF Todo
<1>4. ~Merging(e)
  BY <1>1 DEF Merging
<1>5. ~Merging(e)'
  <2>1. job' = NoJob \/ job'.on = job.on
    BY <1>1, JobGoesOn
  <2>2. NoJob.kind = "none"
    BY <1>1, NoJobOK
  <2> QED
    BY <1>1, <2>1, <2>2 DEF Merging
<1> QED
  BY <1>2, <1>3, <1>4, <1>5

\* What a merge has brought over, after each of its steps.
LEMMA MergedGoesOn ==
  ASSUME NEW d \in Datasets, NEW z, Combining(d, z), Merges(z),
         NEW x \in Datasets \ {d}, NEW y \in Datasets \ {d}, Merged(d, x, y),
         Source(x), Source(y)
  PROVE  Merged(d, x, y)'
<1>1. CASE MergeData(z)
  BY <1>1, MergeDataGoesOn
<1>2. CASE ClearMeta(z)
  BY <1>2, ClearMetaGoesOn
<1>3. CASE MergeMeta(z)
  BY <1>3, MergeMetaGoesOn
<1>4. CASE MergeVideos(z)
  BY <1>4, MergeVideosGoesOn
<1> QED
  BY <1>1, <1>2, <1>3, <1>4 DEF Merges

\* Each step of a merge leaves its output good.
LEMMA MergeGoesOn ==
  ASSUME NEW d \in Datasets, NEW z, Combining(d, z), Merges(z), UNCHANGED <<asked, state>>,
         \A e \in Datasets : Good(e), MergedOver(d), ExactMerge(d), TypeOK'
  PROVE  Good(d)' /\ MergedOver(d)' /\ ExactMerge(d)'
<1>1. /\ Todo(d) = job.todo /\ Todo(d)' = job.todo \ {z} /\ job'.todo = job.todo \ {z}
      /\ \A q \in job.todo : q.op \in MergeOps
  BY PastAfter
<1>2. Merging(d)
  BY DEF Merging, Combining
<1>3. Feasible(d)' /\ Spared(d)' /\ Room(d)'
  <2>1. \A q \in job.todo :
          ~Takes(q) /\ ~Moves(q) /\ q.op \notin {"copy", "rows", "unlink"}
    BY <1>1 DEF MergeOps, Takes, Moves
  <2> QED
    BY <1>1, <2>1 DEF Feasible, Spared, Room, Moves, Takes
<1>4. state[d] # "adrift" => Kept(d)'
  BY <1>2 DEF MergedOver, Kept
<1>5. MergedOver(d)'
  BY <1>2 DEF MergedOver
<1>6. ASSUME Sound(d)
      PROVE  /\ MediaAgree(d)' /\ RowsAgree(d)' /\ ColumnsAgree(d)'
             /\ ~Merging(d)' => Counted(d)'
             /\ ExactMerge(d)'
  <2>1. PICK x \in Datasets \ {d}, y \in Datasets \ {d} :
          state[x] = "exact" /\ state[y] = "exact" /\ Merged(d, x, y)
    BY <1>2, <1>6 DEF ExactMerge
  <2>2. /\ Todo(x) = {} /\ Todo(x)' = {} /\ ~Merging(x) /\ ~Merging(x)'
        /\ files'[x] = files[x] /\ rows'[x] = rows[x] /\ count'[x] = count[x]
        /\ asked'[x] = asked[x] /\ state'[x] = state[x]
    BY OthersStay
  <2>3. /\ Todo(y) = {} /\ Todo(y)' = {} /\ ~Merging(y) /\ ~Merging(y)'
        /\ files'[y] = files[y] /\ rows'[y] = rows[y] /\ count'[y] = count[y]
        /\ asked'[y] = asked[y] /\ state'[y] = state[y]
    BY OthersStay
  <2>4. Good(x)' /\ Good(y)'
    BY <2>2, <2>3, GoodStays
  <2>5. Source(x) /\ Source(y) /\ Source(x)' /\ Source(y)'
    BY <2>1, <2>2, <2>3, <2>4 DEF Source
  <2>6. Merged(d, x, y)'
    BY <2>1, <2>5, MergedGoesOn
  <2>7. /\ MediaAgree(d)' /\ RowsAgree(d)'
        /\ Todo(d)' = {} => Counted(d)'
    <3>1. Todo(d)' = job'.todo /\ \A q \in job'.todo : q.op \in MergeOps
      BY <1>1
    <3> QED
      BY <2>5, <2>6, <3>1, MergeAgreesNext DEF MergeLaw
  <2>8. ~Merging(d)' => Todo(d)' = {}
    <3>1. \/ job' = NoJob /\ job.todo \ {z} = {}
          \/ job'.kind = job.kind /\ job'.on = job.on
      BY JobGoesOn DEF Combining
    <3> QED
      BY <1>1, <1>2, <3>1 DEF Merging
  <2>9. ColumnsAgree(d)'
    <3>1. ColumnsAgree(d)
      BY <1>6 DEF Good
    <3>2. MergeData(z) \/ MergeVideos(z) \/ UNCHANGED files
      BY DEF Merges, ClearMeta, MergeMeta
    <3> QED
      BY <3>1, <3>2, MergeColumns
  <2>10. ExactMerge(d)'
    BY <2>1, <2>2, <2>3, <2>6 DEF ExactMerge
  <2> QED
    BY <2>7, <2>8, <2>9, <2>10
<1>7. ~Sound(d) => ~Sound(d)'
  BY DEF Sound
<1>8. ExactMerge(d)'
  BY <1>6, <1>7 DEF ExactMerge
<1>9. state'[d] = state[d]
  OBVIOUS
<1> QED
  BY <1>3, <1>4, <1>5, <1>6, <1>8, <1>9 DEF Good, Sound

----------------------------------------------------------------------------
(* Deletions: what a request establishes.                                  *)

\* The steps T delete the indices D and give the others those of the map.
Renumbers(d, D, map, T) ==
  /\ D \subseteq Indices /\ D \cap DOMAIN map = {}
  /\ \A i \in DOMAIN map : i \in Indices /\ map[i] \in Indices
  /\ \A i, k \in DOMAIN map : map[i] = map[k] => i = k
  /\ In(d, "data") \ D \subseteq DOMAIN map
  /\ \A q \in T : Moves(q) =>
       /\ q.in \in Range(Stores) /\ q.from \in In(d, q.in) \cap DOMAIN map
       /\ q.to = map[q.from] /\ q.to # q.from
  /\ \A s \in Range(Stores) : \A i \in In(d, s) \cap DOMAIN map : map[i] # i =>
       \E m \in T : Moves(m) /\ m.in = s /\ m.from = i
  /\ \A q \in T : q.op = "unlink" =>
       /\ q.in \in Range(Stores) /\ q.from \in In(d, q.in) /\ q.to \in Indices
       /\ \/ q.from \in D
          \/ \E c \in T : c.op = "copy" /\ c.in = q.in /\ c.from = q.from /\ Follows(c, q)
  /\ \A s \in Range(Stores) : \A i \in D \cap In(d, s) :
       \E u \in T : u.op = "unlink" /\ u.in = s /\ u.from = i
  /\ \A q \in T : q.op = "copy" =>
       /\ q.in = "data"
       /\ \E u \in T : u.op = "unlink" /\ u.in = q.in /\ u.from = q.from
  /\ \A q \in T : q.op = "rows" => q.in \in Range(RowFiles)
  /\ \A r \in Range(RowFiles) : \E v \in T : v.op = "rows" /\ v.in = r
  /\ \A p \in T : p.op = "patch" => ~NextIn(T, p)

\* The dataset of a request that has just come, in the state that follows.
Requested(d, map, T) ==
  /\ TypeOK /\ Todo(d) = {} /\ Good(d) /\ ~Merging(d)
  /\ Todo(d)' = T /\ job'.map = map
  /\ files' = files /\ rows' = rows /\ count' = count
  /\ asked[d] \subseteq asked'[d]
  /\ state'[d] = "exact" => state[d] = "exact"
  /\ Sound(d)' => Sound(d)
  /\ state'[d] # "adrift" => state[d] # "adrift"

\* A request changes no file.
LEMMA FilesAtRequest ==
  ASSUME NEW d \in Datasets, NEW map, NEW T, Requested(d, map, T)
  PROVE  /\ \A s : In(d, s)' = In(d, s) /\ \A i : Ep(d, s, i)' = Ep(d, s, i)
         /\ \A s \in Range(Stores) : In(d, s) \in SUBSET Indices
         /\ Kept(d) => Kept(d)'
<1>1. \A s : In(d, s)' = In(d, s) /\ \A i : Ep(d, s, i)' = Ep(d, s, i)
  BY DEF In, Ep, Requested
<1>2. \A s \in Range(Stores) : In(d, s) \in SUBSET Indices
  BY MapsOK DEF Requested
<1>3. Kept(d) => Kept(d)'
  BY <1>1 DEF Kept, Requested
<1> QED
  BY <1>1, <1>2, <1>3

\* What is under an index to be deleted is named.
LEMMA NamedAre ==
  ASSUME NEW d \in Datasets, NEW D, NEW s \in Range(Stores), NEW i \in D \cap In(d, s)
  PROVE  Ep(d, s, i) \in Named(d, D)
BY DEF Named, Ep

\* After a request to delete, each file goes where the map says, and the
\* deleted go nowhere.
LEMMA GoesWhenRenumbered ==
  ASSUME NEW d \in Datasets, NEW D, NEW map, NEW T,
         Requested(d, map, T), Renumbers(d, D, map, T), NEW s \in Range(Stores)
  PROVE  /\ \A i, j : Goes(d, s, i, j)' =>
              /\ i \in In(d, s) /\ i \notin D
              /\ i \in DOMAIN map => j = map[i]
              /\ i \notin DOMAIN map => j = i
         /\ \A i \in In(d, s) \cap DOMAIN map : Goes(d, s, i, map[i])'
<1>1. \A t : In(d, t)' = In(d, t)
  BY FilesAtRequest
<1>2. Todo(d)' = T
  BY DEF Requested
<1>3. \A i, j : Goes(d, s, i, j)' <=>
        /\ i \in In(d, s)
        /\ \/ \E m \in T : Moves(m) /\ m.in = s /\ m.from = i /\ m.to = j
           \/ /\ i = j
              /\ \A q \in T : Takes(q) /\ q.in = s => q.from # i
              /\ \A q \in T : Moves(q) /\ q.in = s => q.to # i
  BY <1>1, <1>2 DEF Goes, Moves, Takes
<1>4. \A q : Moves(q) => Takes(q)
  BY DEF Moves, Takes
<1>5. ASSUME NEW i, NEW j, Goes(d, s, i, j)'
      PROVE  /\ i \in In(d, s) /\ i \notin D
             /\ i \in DOMAIN map => j = map[i]
             /\ i \notin DOMAIN map => j = i
  <2>1. i \in In(d, s)
    BY <1>3, <1>5
  <2>2. CASE \E m \in T : Moves(m) /\ m.in = s /\ m.from = i /\ m.to = j
    BY <2>1, <2>2 DEF Renumbers
  <2>3. CASE /\ i = j
             /\ \A q \in T : Takes(q) /\ q.in = s => q.from # i
             /\ \A q \in T : Moves(q) /\ q.in = s => q.to # i
    <3>1. i \notin D
      <4> SUFFICES ASSUME i \in D
                   PROVE  FALSE
        OBVIOUS
      <4>1. PICK u \in T : u.op = "unlink" /\ u.in = s /\ u.from = i
        BY <2>1 DEF Renumbers
      <4> QED
        BY <2>3, <4>1 DEF Takes
    <3>2. i \in DOMAIN map => map[i] = i
      BY <1>4, <2>1, <2>3 DEF Renumbers
    <3> QED
      BY <2>1, <2>3, <3>1, <3>2
  <2> QED
    BY <1>3, <1>5, <2>2, <2>3
<1>6. ASSUME NEW i \in In(d, s) \cap DOMAIN map
      PROVE  Goes(d, s, i, map[i])'
  <2>1. CASE map[i] # i
    <3>1. PICK m \in T : Moves(m) /\ m.in = s /\ m.from = i
      BY <2>1 DEF Renumbers
    <3>2. m.to = map[i]
      BY <3>1 DEF Renumbers
    <3> QED
      BY <1>3, <3>1, <3>2
  <2>2. CASE map[i] = i
    <3>1. \A q \in T : Moves(q) /\ q.in = s => q.from # i /\ q.to # i
      <4> SUFFICES ASSUME NEW q \in T, Moves(q), q.in = s
                   PROVE  q.from # i /\ q.to # i
        OBVIOUS
      <4>1. q.from \in DOMAIN map /\ q.to = map[q.from] /\ q.to # q.from
        BY DEF Renumbers
      <4> QED
        BY <2>2, <4>1 DEF Renumbers
    <3>2. \A q \in T : q.op = "unlink" /\ q.in = s => q.from # i
      <4> SUFFICES ASSUME NEW q \in T, q.op = "unlink", q.in = s, q.from = i
                   PROVE  FALSE
        OBVIOUS
      <4>1. i \notin D
        BY DEF Renumbers
      <4>2. PICK c \in T : c.op = "copy" /\ c.in = s /\ c.from = i
        BY <4>1 DEF Renumbers
      <4> QED
        BY <3>1, <4>2 DEF Moves
    <3>3. \A q \in T : Takes(q) /\ q.in = s => q.from # i
      BY <3>1, <3>2 DEF Takes, Moves
    <3> QED
      BY <1>3, <2>2, <3>1, <3>3
  <2> QED
    BY <2>1, <2>2
<1> QED
  BY <1>5, <1>6

\* Its steps find their files, and unlink only what was asked for or is copied.
LEMMA FeasibleWhenRenumbered ==
  ASSUME NEW d \in Datasets, NEW D, NEW map, NEW T,
         Requested(d, map, T), Renumbers(d, D, map, T), Named(d, D) \subseteq asked'[d]
  PROVE  Feasible(d)' /\ Spared(d)'
<1>1. /\ \A s : In(d, s)' = In(d, s) /\ \A i : Ep(d, s, i)' = Ep(d, s, i)
      /\ Todo(d)' = T
  BY FilesAtRequest DEF Requested
<1>2. Feasible(d)'
  <2> SUFFICES ASSUME NEW q \in T
               PROVE  /\ Takes(q) => /\ q.in \in Range(Stores) /\ q.from \in In(d, q.in)
                                     /\ q.to \in Indices
                      /\ q.op = "copy" => q.in = "data"
                      /\ q.op = "rows" => q.in \in Range(RowFiles)
    BY <1>1 DEF Feasible, Takes
  <2>1. CASE Moves(q)
    BY <2>1 DEF Renumbers, Moves
  <2>2. CASE q.op = "unlink"
    BY <2>2 DEF Renumbers
  <2>3. CASE ~Takes(q)
    BY <2>3 DEF Renumbers, Takes
  <2> QED
    BY <2>1, <2>2, <2>3 DEF Takes, Moves
<1>3. Spared(d)'
  <2> SUFFICES ASSUME NEW u \in T, u.op = "unlink"
               PROVE  \/ Ep(d, u.in, u.from) \in asked'[d]
                      \/ \E c \in T : c.op = "copy" /\ c.in = u.in /\ c.from = u.from
                                      /\ Follows(c, u)
    BY <1>1 DEF Spared, Follows
  <2>1. u.from \in D => Ep(d, u.in, u.from) \in asked'[d]
    BY NamedAre DEF Renumbers
  <2> QED
    BY <2>1 DEF Renumbers
<1> QED
  BY <1>2, <1>3

\* What has the index another file moves to moves away or is deleted, if every
\* parquet file has an index the map knows and media have no others, or the map
\* knows all indices.
LEMMA RoomWhenRenumbered ==
  ASSUME NEW d \in Datasets, NEW D, NEW map, NEW T,
         Requested(d, map, T), Renumbers(d, D, map, T),
         Sound(d) \/ Indices \subseteq D \cup DOMAIN map
  PROVE  Room(d)'
<1>1. /\ \A s : In(d, s)' = In(d, s) /\ \A i : Ep(d, s, i)' = Ep(d, s, i)
      /\ Todo(d)' = T /\ asked[d] \subseteq asked'[d]
  BY FilesAtRequest DEF Requested
<1> SUFFICES ASSUME NEW m \in T, Moves(m), m.to \in In(d, m.in)
             PROVE  \/ Ep(d, m.in, m.to) \in asked[d]
                    \/ \E q \in T : q.op \in {"unlink", "rename"} /\ q.in = m.in
                                    /\ q.from = m.to
  BY <1>1 DEF Room, Moves
<1>2. /\ m.in \in Range(Stores) /\ m.from \in DOMAIN map
      /\ m.to = map[m.from] /\ m.to # m.from /\ m.to \in Indices
  BY DEF Renumbers
<1>3. CASE m.to \in D
  BY <1>2, <1>3 DEF Renumbers
<1>4. CASE m.to \in DOMAIN map
  <2>1. map[m.to] # m.to
    BY <1>2, <1>4 DEF Renumbers
  <2>2. PICK q \in T : Moves(q) /\ q.in = m.in /\ q.from = m.to
    BY <1>2, <1>4, <2>1 DEF Renumbers
  <2>3. q.op = "copy" => \E u \in T : u.op = "unlink" /\ u.in = m.in /\ u.from = m.to
    BY <2>2 DEF Renumbers
  <2> QED
    BY <2>2, <2>3 DEF Moves
<1>5. CASE m.to \notin D /\ m.to \notin DOMAIN map
  <2>1. Sound(d) /\ m.to \notin In(d, "data")
    BY <1>2, <1>5 DEF Renumbers
  <2>2. m.in \in Range(Media)
    BY <1>2, <2>1, DataIsStore DEF Range
  <2>3. MediaAgree(d) /\ Todo(d) = {} /\ TypeOK
    BY <2>1 DEF Requested, Good
  <2>4. Ep(d, m.in, m.to) \in asked[d]
    BY <2>1, <2>2, <2>3, AgreeAtRest
  <2> QED
    BY <2>4
<1> QED
  BY <1>3, <1>4, <1>5

\* The names will agree as they did, since the map is one to one and the same
\* for all.
LEMMA AgreeWhenRenumbered ==
  ASSUME NEW d \in Datasets, NEW D, NEW map, NEW T,
         Requested(d, map, T), Renumbers(d, D, map, T), Sound(d)
  PROVE  MediaAgree(d)' /\ RowsAgree(d)' /\ ColumnsAgree(d)'
<1>1. /\ \A s : In(d, s)' = In(d, s) /\ \A i : Ep(d, s, i)' = Ep(d, s, i)
      /\ Todo(d)' = T /\ asked[d] \subseteq asked'[d] /\ rows' = rows /\ files' = files
      /\ \A s \in Range(Stores) : In(d, s) \in SUBSET Indices
      /\ state'[d] = "exact" => state[d] = "exact"
      /\ job'.map = map
  BY FilesAtRequest DEF Requested
<1>2. TypeOK /\ Todo(d) = {} /\ MediaAgree(d) /\ RowsAgree(d) /\ ColumnsAgree(d)
  BY DEF Requested, Good
<1>3. "data" \in Range(Stores) /\ \A s \in Range(Media) : s \in Range(Stores)
  BY DataIsStore
<1>4. MediaAgree(d)'
  <2> SUFFICES ASSUME NEW s \in Range(Media), NEW i \in Indices, NEW j \in Indices,
                      Goes(d, s, i, j)',
                      state'[d] = "exact" \/ Ep(d, s, i)' \notin asked'[d]
               PROVE  \E k \in Indices : Goes(d, "data", k, j)'
                                         /\ Ep(d, "data", k)' = Ep(d, s, i)'
    BY DEF MediaAgree
  <2>1. /\ i \in In(d, s) /\ i \notin D
        /\ i \in DOMAIN map => j = map[i]
    BY <1>3, GoesWhenRenumbered
  <2>2. state[d] = "exact" \/ Ep(d, s, i) \notin asked[d]
    BY <1>1
  <2>3. i \in In(d, "data") /\ Ep(d, "data", i) = Ep(d, s, i)
    BY <1>2, <2>1, <2>2, AgreeAtRest
  <2>4. i \in DOMAIN map
    BY <2>1, <2>3 DEF Renumbers
  <2>5. Goes(d, "data", i, j)'
    BY <1>3, <2>1, <2>3, <2>4, GoesWhenRenumbered
  <2> QED
    BY <1>1, <2>3, <2>5
<1>5. RowsAgree(d)'
  <2> SUFFICES ASSUME NEW r \in Range(RowFiles), NEW q \in rows[d][r],
                      NEW k \in Indices, NEW j \in Indices,
                      RowGoes(d, r, q, j)', Goes(d, "data", k, j)'
               PROVE  q.episode = Ep(d, "data", k)
    BY <1>1 DEF RowsAgree
  <2>1. /\ k \in In(d, "data") /\ k \notin D
        /\ k \in DOMAIN map => j = map[k]
    BY <1>3, GoesWhenRenumbered
  <2>2. k \in DOMAIN map
    BY <2>1 DEF Renumbers
  <2>3. \E v \in T : v.op = "rows" /\ v.in = r
    BY DEF Renumbers
  <2>4. q.index \in DOMAIN map /\ j = map[q.index]
    BY <1>1, <2>3 DEF RowGoes
  <2>5. q.index = k
    BY <2>1, <2>2, <2>4 DEF Renumbers
  <2> QED
    BY <1>2, <2>1, <2>5, AgreeAtRest
<1>6. ColumnsAgree(d)'
  <2>1. \A i \in In(d, "data") : files[d]["data"][i].column = i
    BY <1>2, AgreeAtRest
  <2>2. \A p \in T : p.op = "patch" => ~NextIn(T, p)
    BY DEF Renumbers
  <2>3. \A i \in In(d, "data")' : files'[d]["data"][i].column = i
    BY <1>1, <2>1
  <2>4. ~ \E p \in Todo(d)' : p.op = "patch" /\ NextIn(Todo(d)', p)
    BY <1>1, <2>2
  <2> QED
    BY <2>3, <2>4 DEF ColumnsAgree, NextIn, Earlier
<1> QED
  BY <1>4, <1>5, <1>6

\* The indices will be below the new number of episodes.
LEMMA CountedWhenRenumbered ==
  ASSUME NEW d \in Datasets, NEW D, NEW map, NEW T,
         Requested(d, map, T), Renumbers(d, D, map, T), Counted(d), NEW N \in Nat,
         N <= count[d], \A q \in T : q.op = "info" => q.from = N,
         \E q \in T : q.op = "info",
         \A i \in DOMAIN map : i < count[d] => map[i] < count[d] - N
  PROVE  Counted(d)'
<1>1. /\ Todo(d)' = T /\ rows' = rows /\ count' = count /\ job'.map = map
      /\ TypeOK /\ Todo(d) = {}
  BY DEF Requested
<1>2. /\ \A i \in In(d, "data") : i < count[d]
      /\ \A r \in Range(RowFiles) : \A q \in rows[d][r] : q.index < count[d]
  BY <1>1, CountedAtRest
<1>3. ASSUME NEW i, NEW j, Goes(d, "data", i, j)'
      PROVE  j < count[d] - N
  <2>1. /\ i \in In(d, "data") /\ i \notin D
        /\ i \in DOMAIN map => j = map[i]
    BY <1>3, GoesWhenRenumbered, DataIsStore
  <2>2. i \in DOMAIN map
    BY <2>1 DEF Renumbers
  <2> QED
    BY <1>2, <2>1, <2>2
<1>4. ASSUME NEW r \in Range(RowFiles), NEW q \in rows[d][r], NEW j, RowGoes(d, r, q, j)'
      PROVE  j < count[d] - N
  <2>1. \E v \in T : v.op = "rows" /\ v.in = r
    BY DEF Renumbers
  <2>2. q.index \in DOMAIN map /\ j = map[q.index]
    BY <1>1, <1>4, <2>1 DEF RowGoes
  <2> QED
    BY <1>2, <2>2
<1>5. BelowNext(d, count'[d] - N)
  BY <1>1, <1>3, <1>4 DEF BelowNext
<1>6. Counted(d)' <=>
        /\ \A q \in T : q.op = "info" =>
             q.from <= count'[d] /\ BelowNext(d, count'[d] - q.from)
        /\ (\A q \in T : q.op # "info") => BelowNext(d, count'[d])
  BY <1>1 DEF Counted, Below, BelowNext
<1> QED
  BY <1>1, <1>5, <1>6

----------------------------------------------------------------------------
(* The deletion of several episodes.                                       *)

\* Sets of indices are finite.
LEMMA IndicesFinite ==
  ASSUME NEW S \in SUBSET Indices
  PROVE  IsFiniteSet(S) /\ Cardinality(S) \in Nat
<1>1. IsFiniteSet(Indices)
  <2>1. 0 \in Int /\ MaxIndex \in Int
    BY EditAssumption
  <2> QED
    BY <2>1, FS_Interval DEF Indices
<1>2. IsFiniteSet(S)
  BY <1>1, FS_Subset
<1> QED
  BY <1>2, FS_CardinalityType

\* The members of S below b.
Under(S, b) == {k \in S : k < b}

\* Below a there are at most a indices,
LEMMA FewUnder ==
  ASSUME NEW S \in SUBSET Indices, NEW a \in Nat
  PROVE  Cardinality(Under(S, a)) \in Nat /\ Cardinality(Under(S, a)) <= a
<1>1. Cardinality(Under(S, a)) \in Nat
  <2>1. Under(S, a) \in SUBSET Indices
    BY DEF Under
  <2> QED
    BY <2>1, IndicesFinite
<1>2. 0 \in Int /\ a - 1 \in Int
  OBVIOUS
<1>3. IsFiniteSet(0 .. a - 1) /\ Cardinality(0 .. a - 1) = a
  <2>1. /\ IsFiniteSet(0 .. a - 1)
        /\ Cardinality(0 .. a - 1) = IF 0 > a - 1 THEN 0 ELSE (a - 1) - 0 + 1
    BY <1>2, FS_Interval
  <2> QED
    BY <2>1
<1>4. Under(S, a) \subseteq 0 .. a - 1
  <2> SUFFICES ASSUME NEW k \in S, k < a
               PROVE  k \in 0 .. a - 1
    BY DEF Under
  <2>1. k \in 0 .. MaxIndex /\ MaxIndex \in Nat
    BY EditAssumption DEF Indices
  <2> QED
    BY <2>1
<1> QED
  BY <1>1, <1>3, <1>4, FS_Subset

\* and between a and b at most those between them.
LEMMA FewBetween ==
  ASSUME NEW S \in SUBSET Indices, NEW a \in Nat, NEW b \in Nat, a < b, a \notin S
  PROVE  Cardinality(Under(S, b)) <= Cardinality(Under(S, a)) + (b - a - 1)
<1> DEFINE A == Under(S, a)
           B == Under(S, b)
           I == (a + 1) .. (b - 1)
<1>1. A \in SUBSET Indices /\ B \in SUBSET Indices
  BY DEF Under
<1>2. /\ IsFiniteSet(A) /\ Cardinality(A) \in Nat
      /\ IsFiniteSet(B) /\ Cardinality(B) \in Nat
  BY <1>1, IndicesFinite
<1>3. IsFiniteSet(I) /\ Cardinality(I) = b - a - 1
  <2>1. a + 1 \in Int /\ b - 1 \in Int
    OBVIOUS
  <2>2. /\ IsFiniteSet(I)
        /\ Cardinality(I) = IF a + 1 > b - 1 THEN 0 ELSE (b - 1) - (a + 1) + 1
    BY <2>1, FS_Interval
  <2> QED
    BY <2>2
<1>4. B \subseteq A \cup I
  <2> SUFFICES ASSUME NEW k \in S, k < b
               PROVE  k \in A \cup I
    BY DEF Under
  <2>1. k \in 0 .. MaxIndex /\ MaxIndex \in Nat
    BY EditAssumption DEF Indices
  <2>2. k \in Nat /\ k # a
    BY <2>1
  <2>3. k < a => k \in A
    BY DEF Under
  <2>4. ~(k < a) => k \in I
    BY <2>2
  <2> QED
    BY <2>3, <2>4
<1> HIDE DEF A, B, I
<1>5. /\ IsFiniteSet(A \cup I)
      /\ Cardinality(A \cup I) = Cardinality(A) + Cardinality(I) - Cardinality(A \cap I)
  BY <1>2, <1>3, FS_Union
<1>6. Cardinality(A \cap I) \in Nat
  <2>1. IsFiniteSet(A \cap I)
    BY <1>2, FS_Intersection
  <2> QED
    BY <2>1, FS_CardinalityType
<1>7. Cardinality(B) <= Cardinality(A \cup I)
  BY <1>4, <1>5, FS_Subset
<1> QED
  BY <1>2, <1>3, <1>5, <1>6, <1>7 DEF A, B

\* The map of a deletion of several episodes: one to one, and never upwards,
\* since an index loses no more than there are deleted indices below it.
LEMMA RenumberedIs ==
  ASSUME NEW d \in Datasets, TypeOK, NEW D \in SUBSET Indices
  PROVE  LET map == Renumbered(d, D)
         IN  /\ DOMAIN map = In(d, "data") \ D
             /\ map \in IndexMaps
             /\ \A i \in DOMAIN map :
                  /\ i \in Indices /\ map[i] \in Indices /\ map[i] <= i
                  /\ map[i] = i - Cardinality(Under(In(d, "data") \cap D, i))
             /\ \A i, k \in DOMAIN map : map[i] = map[k] => i = k
<1> DEFINE map == Renumbered(d, D)
           S == In(d, "data") \cap D
<1>1. In(d, "data") \in SUBSET Indices /\ S \in SUBSET Indices
  BY MapsOK, DataIsStore
<1>2. /\ DOMAIN map = In(d, "data") \ D
      /\ \A i \in DOMAIN map : map[i] = i - Cardinality(Under(S, i))
  BY DEF Renumbered, Under
<1> HIDE DEF map, S
<1>3. \A i \in DOMAIN map : i \in Nat /\ i <= MaxIndex /\ i \in Indices /\ MaxIndex \in Nat
  BY <1>1, <1>2, EditAssumption DEF Indices
<1>4. \A i \in DOMAIN map : map[i] \in Indices /\ map[i] <= i
  <2> SUFFICES ASSUME NEW i \in DOMAIN map
               PROVE  map[i] \in Indices /\ map[i] <= i
    OBVIOUS
  <2>1. Cardinality(Under(S, i)) \in Nat /\ Cardinality(Under(S, i)) <= i
    BY <1>1, <1>3, FewUnder
  <2> QED
    BY <1>2, <1>3, <2>1 DEF Indices
<1>5. ASSUME NEW i \in DOMAIN map, NEW k \in DOMAIN map, i < k
      PROVE  map[i] < map[k]
  <2>1. i \notin S
    BY <1>2 DEF S
  <2>2. Cardinality(Under(S, k)) <= Cardinality(Under(S, i)) + (k - i - 1)
    BY <1>1, <1>3, <1>5, <2>1, FewBetween
  <2>3. Cardinality(Under(S, k)) \in Nat /\ Cardinality(Under(S, i)) \in Nat
    BY <1>1, <1>3, FewUnder
  <2> QED
    BY <1>2, <1>3, <2>2, <2>3
<1>6. \A i, k \in DOMAIN map : map[i] = map[k] => i = k
  <2> SUFFICES ASSUME NEW i \in DOMAIN map, NEW k \in DOMAIN map, map[i] = map[k]
               PROVE  i = k
    OBVIOUS
  <2>1. map[i] \in Int /\ i \in Int /\ k \in Int
    BY <1>3, <1>4 DEF Indices
  <2> QED
    BY <1>5, <2>1
<1>7. map \in IndexMaps
  <2>1. map = [i \in DOMAIN map |-> map[i]]
    BY DEF map, Renumbered
  <2>2. map \in [DOMAIN map -> Indices]
    BY <1>4, <2>1
  <2>3. DOMAIN map \in SUBSET Indices
    BY <1>3
  <2> QED
    BY <2>2, <2>3 DEF IndexMaps
<1> QED
  BY <1>2, <1>3, <1>4, <1>6, <1>7 DEF map, S

\* The places of the steps of a deletion that finds its files.
Placed(D, map, T) ==
  /\ T \in SUBSET Steps /\ \A q, p \in T : q.at = p.at => q = p
  /\ \A q \in T : Moves(q) =>
       /\ q.from \in DOMAIN map \cap Indices /\ q.to = map[q.from] /\ q.to \in Indices
       /\ q.to < q.from /\ q.at[2] = q.from /\ q.at[1] >= 4
  /\ \A q, p \in T : Moves(q) /\ Moves(p) /\ q.in = p.in =>
       q.at[1] = p.at[1] /\ q.at[3] = p.at[3]
  /\ \A q \in T : q.op = "unlink" =>
       \/ q.from \in D /\ \E n \in DOMAIN Stores :
                            q.in = Stores[n] /\ q.at = <<KindOf(n), q.from, n>>
       \/ q.from \in DOMAIN map /\ \E c \in T :
            c.op = "copy" /\ c.in = q.in /\ c.from = q.from /\ Follows(c, q)
  /\ \A q \in T : q.op = "copy" =>
       \E p \in T : p.op = "unlink" /\ p.in = q.in /\ p.from = q.from /\ Follows(q, p)
  /\ \A q \in T : q.op = "rename" /\ q.in = "data" =>
       /\ q.from = q.to + 1
       /\ \E p \in T : p.op = "patch" /\ p.to = q.to /\ Follows(q, p)
  /\ \A p \in T : p.op = "patch" =>
       \E q \in T : q.op = "rename" /\ q.in = "data" /\ q.to = p.to /\ Follows(q, p)
  /\ \A q \in T : q.op # "raise"
  /\ \A q, p \in T :
       q.op = p.op /\ (q.op = "info" \/ (q.op = "rows" /\ q.in = p.in)) => q = p

\* The data directory is of a kind of its own.
LEMMA KindIs ==
  ASSUME NEW n \in Nat
  PROVE  KindOf(n) \in 1 .. 3 /\ (n # 1 => KindOf(n) # 1)
BY DEF KindOf

\* Steps in these places are ordered: from the lowest index to the highest, and
\* each file moves down, so that what is in its way has moved before.
LEMMA PlacedIsOrdered ==
  ASSUME NEW D, NEW map, NEW T, Placed(D, map, T), D \cap DOMAIN map = {},
         \A i, k \in DOMAIN map : map[i] = map[k] => i = k
  PROVE  Ordered(T)
<1>0. T \in SUBSET Steps /\ \A q, p \in T : q.at = p.at => q = p
  BY DEF Placed
<1>1. \A q \in T : /\ q.at[1] \in Nat /\ q.at[2] \in Nat /\ q.at[3] \in Nat
                   /\ q.at = <<q.at[1], q.at[2], q.at[3]>>
  BY <1>0 DEF Steps
<1>2. ASSUME NEW q \in T, NEW p \in T, q # p, Moves(q), Moves(p), q.in = p.in
      PROVE  q.from # p.from /\ q.to # p.to
  <2>1. q.from # p.from
    <3>1. /\ q.at[1] = p.at[1] /\ q.at[3] = p.at[3]
          /\ q.at[2] = q.from /\ p.at[2] = p.from
      BY <1>2 DEF Placed
    <3>2. q.at # p.at
      BY <1>0, <1>2
    <3> QED
      BY <1>1, <3>1, <3>2
  <2>2. /\ q.from \in DOMAIN map /\ q.to = map[q.from]
        /\ p.from \in DOMAIN map /\ p.to = map[p.from]
    BY <1>2 DEF Placed
  <2> QED
    BY <2>1, <2>2
<1>3. ASSUME NEW q \in T, NEW p \in T, q.op = "unlink", p.op = "unlink",
             q.in = p.in, q.from = p.from
      PROVE  q = p
  <2>1. CASE q.from \in D
    <3>1. PICK n \in DOMAIN Stores : q.in = Stores[n] /\ q.at = <<KindOf(n), q.from, n>>
      BY <1>3, <2>1 DEF Placed
    <3>2. PICK m \in DOMAIN Stores : p.in = Stores[m] /\ p.at = <<KindOf(m), p.from, m>>
      BY <1>3, <2>1 DEF Placed
    <3>3. n = m
      BY <1>3, <3>1, <3>2, EditAssumption DEF IsInjective
    <3> QED
      BY <1>0, <1>3, <3>1, <3>2, <3>3
  <2>2. CASE q.from \notin D
    <3>1. PICK c \in T : c.op = "copy" /\ c.in = q.in /\ c.from = q.from /\ Follows(c, q)
      BY <1>3, <2>2 DEF Placed
    <3>2. PICK e \in T : e.op = "copy" /\ e.in = p.in /\ e.from = p.from /\ Follows(e, p)
      BY <1>3, <2>2 DEF Placed
    <3>3. c = e
      BY <1>2, <1>3, <3>1, <3>2 DEF Moves
    <3> QED
      BY <1>0, <3>1, <3>2, <3>3 DEF Follows
  <2> QED
    BY <2>1, <2>2
<1>4. ASSUME NEW q \in T, NEW p \in T, q.op = "unlink", Moves(p),
             q.in = p.in, q.from = p.from
      PROVE  p.op = "copy" /\ Follows(p, q)
  <2>1. q.from \notin D
    BY <1>4 DEF Placed
  <2>2. PICK c \in T : c.op = "copy" /\ c.in = q.in /\ c.from = q.from /\ Follows(c, q)
    BY <1>4, <2>1 DEF Placed
  <2>3. c = p
    BY <1>2, <1>4, <2>2 DEF Moves
  <2> QED
    BY <2>2, <2>3
<1>5. ASSUME NEW q \in T, NEW p \in T, Takes(q), Moves(p), q.in = p.in, q.from = p.to
      PROVE  Earlier(q, p)
  <2>1. /\ p.to < p.from /\ p.at[2] = p.from /\ p.at[1] >= 4
        /\ p.to \in Nat /\ p.from \in Nat
    BY <1>5, EditAssumption DEF Placed, Indices
  <2>2. ASSUME NEW c \in T, Moves(c), c.in = p.in, c.from = p.to
        PROVE  c.at[1] = p.at[1] /\ c.at[2] < p.at[2]
    BY <1>5, <2>1, <2>2 DEF Placed
  <2>3. CASE Moves(q)
    BY <1>1, <1>5, <2>2, <2>3 DEF Earlier
  <2>4. CASE q.op = "unlink" /\ q.from \in D
    <3>1. PICK n \in DOMAIN Stores : q.at = <<KindOf(n), q.from, n>>
      BY <2>4, <1>4, <1>5 DEF Placed
    <3>2. KindOf(n) \in 1 .. 3
      BY DataIsStore, KindIs
    <3>3. q.at[1] < 4
      BY <3>1, <3>2
    <3> QED
      BY <1>1, <2>1, <3>3 DEF Earlier
  <2>5. CASE q.op = "unlink" /\ q.from \notin D
    <3>1. PICK c \in T : c.op = "copy" /\ c.in = q.in /\ c.from = q.from /\ Follows(c, q)
      BY <2>5 DEF Placed
    <3>2. c.at[1] = p.at[1] /\ c.at[2] < p.at[2]
      BY <1>5, <2>2, <3>1 DEF Moves
    <3>3. q.at[1] = c.at[1] /\ q.at[2] = c.at[2]
      BY <3>1 DEF Follows
    <3> QED
      BY <1>1, <3>2, <3>3 DEF Earlier
  <2> QED
    BY <1>5, <2>3, <2>4, <2>5 DEF Takes, Moves
<1>6. /\ \A q \in T : q.op = "copy" =>
           \E p \in T : p.op = "unlink" /\ p.in = q.in /\ p.from = q.from /\ Follows(q, p)
      /\ \A q \in T : q.op = "rename" /\ q.in = "data" =>
           /\ q.from = q.to + 1
           /\ \E p \in T : p.op = "patch" /\ p.to = q.to /\ Follows(q, p)
      /\ \A p \in T : p.op = "patch" =>
           \E q \in T : q.op = "rename" /\ q.in = "data" /\ q.to = p.to /\ Follows(q, p)
      /\ \A q \in T : q.op # "raise"
      /\ \A q, p \in T :
           q.op = p.op /\ (q.op = "info" \/ (q.op = "rows" /\ q.in = p.in)) => q = p
  BY DEF Placed
<1> QED
  BY <1>0, <1>2, <1>3, <1>4, <1>5, <1>6 DEF Ordered

\* The step q unlinks one of the files with an index of D.
UnlinksOne(q, d, N, D) ==
  \E n \in N : \E i \in D \cap In(d, Stores[n]) :
    q = Unlink(<<KindOf(n), i, n>>, Stores[n], i)

\* The members of Unlinks,
LEMMA UnlinksAre ==
  ASSUME NEW d, NEW N, NEW D, NEW q
  PROVE  q \in Unlinks(d, N, D) <=> UnlinksOne(q, d, N, D)
<1>1. ASSUME q \in Unlinks(d, N, D)
      PROVE  \E n \in N : \E i \in D \cap In(d, Stores[n]) :
               q = Unlink(<<KindOf(n), i, n>>, Stores[n], i)
  <2>1. PICK u \in N \X D : /\ u[2] \in In(d, Stores[u[1]])
                            /\ q = Unlink(<<KindOf(u[1]), u[2], u[1]>>, Stores[u[1]], u[2])
    BY <1>1 DEF Unlinks
  <2>2. u[1] \in N /\ u[2] \in D
    OBVIOUS
  <2> QED
    BY <2>1, <2>2
<1>2. ASSUME NEW n \in N, NEW i \in D \cap In(d, Stores[n]),
             q = Unlink(<<KindOf(n), i, n>>, Stores[n], i)
      PROVE  q \in Unlinks(d, N, D)
  <2>1. <<n, i>> \in {u \in N \X D : u[2] \in In(d, Stores[u[1]])}
    OBVIOUS
  <2> QED
    BY <1>2, <2>1 DEF Unlinks
<1> QED
  BY <1>1, <1>2 DEF UnlinksOne

\* of Moved,
LEMMA MovedAre ==
  ASSUME NEW d, NEW N, NEW map, NEW u
  PROVE  u \in Moved(d, N, map) <=>
           \E n \in N : \E i \in Indices \cap In(d, Stores[n]) \cap DOMAIN map :
             map[i] # i /\ u = <<n, i>>
<1>1. ASSUME u \in Moved(d, N, map)
      PROVE  \E n \in N : \E i \in Indices \cap In(d, Stores[n]) \cap DOMAIN map :
               map[i] # i /\ u = <<n, i>>
  <2>1. u \in N \X Indices /\ u[2] \in In(d, Stores[u[1]]) \cap DOMAIN map /\ map[u[2]] # u[2]
    BY <1>1 DEF Moved
  <2>2. u[1] \in N /\ u[2] \in Indices /\ u = <<u[1], u[2]>>
    BY <2>1
  <2> QED
    BY <2>1, <2>2
<1>2. ASSUME NEW n \in N, NEW i \in Indices \cap In(d, Stores[n]) \cap DOMAIN map,
             map[i] # i, u = <<n, i>>
      PROVE  u \in Moved(d, N, map)
  BY <1>2 DEF Moved
<1> QED
  BY <1>1, <1>2

\* The files of a directory that a renumbering moves.
Renamed(d, s, map) == {i \in Indices \cap In(d, s) \cap DOMAIN map : map[i] # i}

\* of RowsAndInfo,
LEMMA RowsAndInfoAre ==
  ASSUME NEW N, NEW q
  PROVE  q \in RowsAndInfo(N) <=>
           \/ \E n \in DOMAIN RowFiles : q = Step(<<Last, n, 0>>, "rows", RowFiles[n], 0, 0)
           \/ q = Step(<<Last + 1, 0, 0>>, "info", "info", N, 0)
BY DEF RowsAndInfo

\* The step q renames a video or a folder, of several to be renumbered,
RenamesOne(q, d, map) ==
  \E n \in MediaDirs : \E i \in Renamed(d, Stores[n], map) :
    q = Step(<<4 + n, i, 0>>, "rename", Stores[n], i, map[i])

\* and of BatchSteps.
LEMMA BatchStepsAre ==
  ASSUME NEW d, NEW D, NEW map, map = Renumbered(d, D), NEW q
  PROVE  q \in BatchSteps(d, D) <=>
    \/ UnlinksOne(q, d, DOMAIN Stores, D)
    \/ \E i \in Renamed(d, "data", map) : q = Step(<<4, i, 0>>, "copy", "data", i, map[i])
    \/ \E i \in Renamed(d, "data", map) : q = Unlink(<<4, i, 1>>, "data", i)
    \/ RenamesOne(q, d, map)
    \/ \E n \in DOMAIN RowFiles : q = Step(<<Last, n, 0>>, "rows", RowFiles[n], 0, 0)
    \/ q = Step(<<Last + 1, 0, 0>>, "info", "info", Cardinality(D), 0)
<1> DEFINE A == {Step(<<4, Turn(u[2]), 0>>, "copy", "data", u[2], map[u[2]]) :
                   u \in Moved(d, DataDir, map)}
           B == {Unlink(<<4, Turn(u[2]), 1>>, "data", u[2]) : u \in Moved(d, DataDir, map)}
           C == {Step(<<4 + u[1], Turn(u[2]), 0>>, "rename", Stores[u[1]], u[2], map[u[2]]) :
                   u \in Moved(d, MediaDirs, map)}
<1>1. BatchSteps(d, D) = Unlinks(d, DOMAIN Stores, D) \cup A \cup B \cup C
                           \cup RowsAndInfo(Cardinality(D))
  BY DEF BatchSteps
<1>2. Stores[1] = "data"
  BY DataIsStore
<1>3. q \in A <=>
        \E i \in Renamed(d, "data", map) : q = Step(<<4, i, 0>>, "copy", "data", i, map[i])
  <2>1. ASSUME q \in A
        PROVE  \E i \in Renamed(d, "data", map) :
                 q = Step(<<4, i, 0>>, "copy", "data", i, map[i])
    <3>1. PICK u \in Moved(d, DataDir, map) :
            q = Step(<<4, Turn(u[2]), 0>>, "copy", "data", u[2], map[u[2]])
      BY <2>1
    <3>2. /\ u[1] \in DataDir /\ map[u[2]] # u[2]
          /\ u[2] \in Indices \cap In(d, Stores[u[1]]) \cap DOMAIN map
      BY DEF Moved
    <3>3. u[2] \in Renamed(d, "data", map)
      BY <1>2, <3>2 DEF DataDir, Renamed
    <3> QED
      BY <3>1, <3>3 DEF Turn
  <2>2. ASSUME NEW i \in Renamed(d, "data", map),
               q = Step(<<4, i, 0>>, "copy", "data", i, map[i])
        PROVE  q \in A
    <3>1. <<1, i>> \in Moved(d, DataDir, map)
      BY <1>2, MovedAre DEF DataDir, Renamed
    <3> QED
      BY <2>2, <3>1 DEF Turn
  <2> QED
    BY <2>1, <2>2
<1>4. q \in B <=> \E i \in Renamed(d, "data", map) : q = Unlink(<<4, i, 1>>, "data", i)
  <2>1. ASSUME q \in B
        PROVE  \E i \in Renamed(d, "data", map) : q = Unlink(<<4, i, 1>>, "data", i)
    <3>1. PICK u \in Moved(d, DataDir, map) :
            q = Unlink(<<4, Turn(u[2]), 1>>, "data", u[2])
      BY <2>1
    <3>2. /\ u[1] \in DataDir /\ map[u[2]] # u[2]
          /\ u[2] \in Indices \cap In(d, Stores[u[1]]) \cap DOMAIN map
      BY DEF Moved
    <3>3. u[2] \in Renamed(d, "data", map)
      BY <1>2, <3>2 DEF DataDir, Renamed
    <3> QED
      BY <3>1, <3>3 DEF Turn
  <2>2. ASSUME NEW i \in Renamed(d, "data", map), q = Unlink(<<4, i, 1>>, "data", i)
        PROVE  q \in B
    <3>1. <<1, i>> \in Moved(d, DataDir, map)
      BY <1>2, MovedAre DEF DataDir, Renamed
    <3> QED
      BY <2>2, <3>1 DEF Turn
  <2> QED
    BY <2>1, <2>2
<1>5. q \in C <=> RenamesOne(q, d, map)
  <2>1. ASSUME q \in C
        PROVE  RenamesOne(q, d, map)
    <3>1. PICK u \in Moved(d, MediaDirs, map) :
            q = Step(<<4 + u[1], Turn(u[2]), 0>>, "rename", Stores[u[1]], u[2], map[u[2]])
      BY <2>1
    <3>2. /\ u[1] \in MediaDirs /\ map[u[2]] # u[2]
          /\ u[2] \in Indices \cap In(d, Stores[u[1]]) \cap DOMAIN map
      BY DEF Moved
    <3>3. u[2] \in Renamed(d, Stores[u[1]], map)
      BY <3>2 DEF Renamed
    <3> QED
      BY <3>1, <3>2, <3>3 DEF Turn, RenamesOne
  <2>2. ASSUME NEW n \in MediaDirs, NEW i \in Renamed(d, Stores[n], map),
               q = Step(<<4 + n, i, 0>>, "rename", Stores[n], i, map[i])
        PROVE  q \in C
    <3>1. <<n, i>> \in Moved(d, MediaDirs, map)
      BY MovedAre DEF Renamed
    <3> QED
      BY <2>2, <3>1 DEF Turn
  <2> QED
    BY <2>1, <2>2 DEF RenamesOne
<1>6. q \in Unlinks(d, DOMAIN Stores, D) <=> UnlinksOne(q, d, DOMAIN Stores, D)
  BY UnlinksAre
<1>7. q \in RowsAndInfo(Cardinality(D)) <=>
        \/ \E n \in DOMAIN RowFiles : q = Step(<<Last, n, 0>>, "rows", RowFiles[n], 0, 0)
        \/ q = Step(<<Last + 1, 0, 0>>, "info", "info", Cardinality(D), 0)
  BY RowsAndInfoAre
<1>8. q \in BatchSteps(d, D) <=>
        \/ q \in Unlinks(d, DOMAIN Stores, D) \/ q \in A \/ q \in B \/ q \in C
        \/ q \in RowsAndInfo(Cardinality(D))
  BY <1>1
<1> HIDE DEF A, B, C
<1> QED
  BY <1>3, <1>4, <1>5, <1>6, <1>7, <1>8

\* The fields of a step, and when they have their types.
LEMMA StepIs ==
  ASSUME NEW at, NEW op, NEW in, NEW from, NEW to, NEW q, q = Step(at, op, in, from, to)
  PROVE  /\ q.at = at /\ q.op = op /\ q.in = in /\ q.from = from /\ q.to = to
         /\ at \in Nat \X Nat \X Nat /\ op \in FileOps \cup MergeOps \cup {"rows", "info"}
              /\ in \in Places /\ from \in Nat /\ to \in Nat => q \in Steps
BY DEF Step, Steps

\* The step of a deletion of several episodes that has the place.
AtPlace(at, map, N) ==
  IF at[1] < 4 THEN Unlink(at, Stores[at[3]], at[2])
  ELSE IF at[1] = 4
       THEN IF at[3] = 0 THEN Step(at, "copy", "data", at[2], map[at[2]])
            ELSE Unlink(at, "data", at[2])
  ELSE IF at[1] < Last THEN Step(at, "rename", Stores[at[1] - 4], at[2], map[at[2]])
  ELSE IF at[1] = Last THEN Step(at, "rows", RowFiles[at[2]], 0, 0)
  ELSE Step(at, "info", "info", N, 0)

\* The kinds of steps there are.
BatchStep(q, d, D, map) ==
  \/ /\ q.op = "unlink" /\ q.from \in D /\ q.to = q.from
     /\ \E n \in DOMAIN Stores : /\ q.in = Stores[n] /\ q.from \in In(d, q.in)
                                 /\ q.at = <<KindOf(n), q.from, n>>
  \/ /\ q.op = "copy" /\ q.in = "data" /\ q.from \in Renamed(d, "data", map)
     /\ q.to = map[q.from] /\ q.at = <<4, q.from, 0>>
  \/ /\ q.op = "unlink" /\ q.in = "data" /\ q.from \in Renamed(d, "data", map)
     /\ q.to = q.from /\ q.at = <<4, q.from, 1>>
  \/ /\ q.op = "rename" /\ q.from \in Renamed(d, q.in, map) /\ q.to = map[q.from]
     /\ \E n \in MediaDirs : q.in = Stores[n] /\ q.at = <<4 + n, q.from, 0>>
  \/ /\ q.op = "rows"
     /\ \E n \in DOMAIN RowFiles : q.in = RowFiles[n] /\ q.at = <<Last, n, 0>>
  \/ q.op = "info" /\ q.from = Cardinality(D) /\ q.at = <<Last + 1, 0, 0>>

\* Each step of the deletion of several episodes is of one of these kinds, and
\* the place tells which.
LEMMA BatchStepIs ==
  ASSUME NEW d \in Datasets, TypeOK, NEW D \in SUBSET Indices, NEW map,
         map = Renumbered(d, D), NEW q \in BatchSteps(d, D)
  PROVE  /\ q \in Steps /\ q = AtPlace(q.at, map, Cardinality(D))
         /\ BatchStep(q, d, D, map)
<1>1. /\ Len(Stores) \in Nat /\ DOMAIN Stores = 1 .. Len(Stores) /\ Stores[1] = "data"
      /\ \A n \in DOMAIN Stores : Stores[n] \in Range(Stores)
      /\ "data" \in Range(Stores)
  BY DataIsStore DEF Range
<1>2. Cardinality(D) \in Nat
  BY IndicesFinite
<1>3. \A i \in Indices : i \in Nat
  BY EditAssumption DEF Indices
<1>4. /\ \A s \in Range(Stores) : s \in Places
      /\ \A n \in DOMAIN RowFiles : RowFiles[n] \in Places /\ n \in Nat
      /\ "info" \in Places
  BY DEF Places, RowFiles, Range
<1>5. \A s : \A i \in Renamed(d, s, map) : i \in Indices /\ i \in In(d, s) /\ map[i] \in Indices
  BY RenumberedIs DEF Renamed
<1>6. Last \in Nat /\ Last = 8 + Len(Stores)
  BY <1>1 DEF Last
<1>7. CASE UnlinksOne(q, d, DOMAIN Stores, D)
  <2>1. PICK n \in DOMAIN Stores : \E i \in D \cap In(d, Stores[n]) :
          q = Unlink(<<KindOf(n), i, n>>, Stores[n], i)
    BY <1>7 DEF UnlinksOne
  <2>2. PICK i \in D \cap In(d, Stores[n]) : q = Unlink(<<KindOf(n), i, n>>, Stores[n], i)
    BY <2>1
  <2>3. KindOf(n) \in 1 .. 3 /\ n \in Nat /\ i \in Nat
    BY <1>1, <1>3, KindIs
  <2>4. /\ q.at = <<KindOf(n), i, n>> /\ q.op = "unlink" /\ q.in = Stores[n]
        /\ q.from = i /\ q.to = i /\ q \in Steps
    BY <1>1, <1>4, <2>2, <2>3, StepIs DEF Unlink, FileOps
  <2>5. q = AtPlace(q.at, map, Cardinality(D))
    BY <2>2, <2>3, <2>4 DEF AtPlace
  <2> QED
    BY <2>2, <2>4, <2>5 DEF BatchStep
<1>8. CASE \E i \in Renamed(d, "data", map) : q = Step(<<4, i, 0>>, "copy", "data", i, map[i])
  <2>1. PICK i \in Renamed(d, "data", map) : q = Step(<<4, i, 0>>, "copy", "data", i, map[i])
    BY <1>8
  <2>2. i \in Nat /\ map[i] \in Nat
    BY <1>3, <1>5
  <2>3. /\ q.at = <<4, i, 0>> /\ q.op = "copy" /\ q.in = "data"
        /\ q.from = i /\ q.to = map[i] /\ q \in Steps
    BY <1>1, <1>4, <2>1, <2>2, StepIs DEF FileOps
  <2>4. q = AtPlace(q.at, map, Cardinality(D))
    BY <2>1, <2>3 DEF AtPlace
  <2> QED
    BY <2>3, <2>4 DEF BatchStep
<1>9. CASE \E i \in Renamed(d, "data", map) : q = Unlink(<<4, i, 1>>, "data", i)
  <2>1. PICK i \in Renamed(d, "data", map) : q = Unlink(<<4, i, 1>>, "data", i)
    BY <1>9
  <2>2. i \in Nat
    BY <1>3, <1>5
  <2>3. /\ q.at = <<4, i, 1>> /\ q.op = "unlink" /\ q.in = "data"
        /\ q.from = i /\ q.to = i /\ q \in Steps
    BY <1>1, <1>4, <2>1, <2>2, StepIs DEF FileOps, Unlink
  <2>4. q = AtPlace(q.at, map, Cardinality(D))
    BY <2>1, <2>3 DEF AtPlace
  <2> QED
    BY <2>3, <2>4 DEF BatchStep
<1>10. CASE RenamesOne(q, d, map)
  <2>1. PICK n \in MediaDirs : \E i \in Renamed(d, Stores[n], map) :
          q = Step(<<4 + n, i, 0>>, "rename", Stores[n], i, map[i])
    BY <1>10 DEF RenamesOne
  <2>2. PICK i \in Renamed(d, Stores[n], map) :
          q = Step(<<4 + n, i, 0>>, "rename", Stores[n], i, map[i])
    BY <2>1
  <2>3. n \in 2 .. Len(Stores) /\ n \in DOMAIN Stores /\ 4 + n \in Nat /\ (4 + n) - 4 = n
    BY <1>1 DEF MediaDirs
  <2>4. i \in Nat /\ map[i] \in Nat
    BY <1>3, <1>5
  <2>5. /\ q.at = <<4 + n, i, 0>> /\ q.op = "rename" /\ q.in = Stores[n]
        /\ q.from = i /\ q.to = map[i] /\ q \in Steps
    BY <1>1, <1>4, <2>2, <2>3, <2>4, StepIs DEF FileOps
  <2>6. ~(4 + n < 4) /\ 4 + n # 4 /\ 4 + n < Last
    BY <1>1, <1>6, <2>3
  <2>7. q.at[1] = 4 + n /\ q.at[2] = i /\ q.at[1] - 4 = n
    BY <2>3, <2>5
  <2>8. Step(q.at, "rename", Stores[q.at[1] - 4], q.at[2], map[q.at[2]]) = q
    BY <2>2, <2>5, <2>7
  <2>9. q = AtPlace(q.at, map, Cardinality(D))
    BY <2>6, <2>7, <2>8 DEF AtPlace
  <2> QED
    BY <2>2, <2>5, <2>9 DEF BatchStep
<1>11. CASE \E n \in DOMAIN RowFiles : q = Step(<<Last, n, 0>>, "rows", RowFiles[n], 0, 0)
  <2>1. PICK n \in DOMAIN RowFiles : q = Step(<<Last, n, 0>>, "rows", RowFiles[n], 0, 0)
    BY <1>11
  <2>2. /\ q.at = <<Last, n, 0>> /\ q.op = "rows" /\ q.in = RowFiles[n] /\ q \in Steps
    BY <1>4, <1>6, <2>1, StepIs
  <2>3. ~(Last < 4) /\ Last # 4 /\ ~(Last < Last)
    BY <1>1, <1>6
  <2>4. q = AtPlace(q.at, map, Cardinality(D))
    BY <2>1, <2>2, <2>3 DEF AtPlace
  <2> QED
    BY <2>2, <2>4 DEF BatchStep
<1>12. CASE q = Step(<<Last + 1, 0, 0>>, "info", "info", Cardinality(D), 0)
  <2>1. /\ q.at = <<Last + 1, 0, 0>> /\ q.op = "info" /\ q.from = Cardinality(D)
        /\ q \in Steps
    BY <1>2, <1>4, <1>6, <1>12, StepIs
  <2>2. ~(Last + 1 < 4) /\ Last + 1 # 4 /\ ~(Last + 1 < Last) /\ Last + 1 # Last
    BY <1>1, <1>6
  <2>3. q = AtPlace(q.at, map, Cardinality(D))
    BY <1>12, <2>1, <2>2 DEF AtPlace
  <2> QED
    BY <2>1, <2>3 DEF BatchStep
<1>13. \/ UnlinksOne(q, d, DOMAIN Stores, D)
       \/ \E i \in Renamed(d, "data", map) : q = Step(<<4, i, 0>>, "copy", "data", i, map[i])
       \/ \E i \in Renamed(d, "data", map) : q = Unlink(<<4, i, 1>>, "data", i)
       \/ RenamesOne(q, d, map)
       \/ \E n \in DOMAIN RowFiles : q = Step(<<Last, n, 0>>, "rows", RowFiles[n], 0, 0)
       \/ q = Step(<<Last + 1, 0, 0>>, "info", "info", Cardinality(D), 0)
  BY BatchStepsAre
<1> QED
  BY <1>7, <1>8, <1>9, <1>10, <1>11, <1>12, <1>13

\* A parquet file is copied, and then unlinked.
Copied(T, i) ==
  /\ \E c \in T : c.op = "copy" /\ c.in = "data" /\ c.from = i /\ c.at = <<4, i, 0>>
  /\ \E u \in T : u.op = "unlink" /\ u.in = "data" /\ u.from = i /\ u.at = <<4, i, 1>>

\* The steps there are: for each file to delete, for each file to move, and for
\* the metadata.
LEMMA BatchHas ==
  ASSUME NEW d \in Datasets, TypeOK, NEW D \in SUBSET Indices, NEW map,
         map = Renumbered(d, D)
  PROVE  LET T == BatchSteps(d, D)
         IN  /\ \A s \in Range(Stores) : \A i \in D \cap In(d, s) :
                  \E u \in T : u.op = "unlink" /\ u.in = s /\ u.from = i
             /\ \A s \in Range(Stores) : \A i \in Renamed(d, s, map) :
                  \E m \in T : Moves(m) /\ m.in = s /\ m.from = i
             /\ \A i \in Renamed(d, "data", map) : Copied(T, i)
             /\ \A r \in Range(RowFiles) : \E v \in T : v.op = "rows" /\ v.in = r
             /\ \E v \in T : v.op = "info"
<1> DEFINE T == BatchSteps(d, D)
<1>1. /\ Len(Stores) \in Nat /\ DOMAIN Stores = 1 .. Len(Stores) /\ Stores[1] = "data"
  BY DataIsStore
<1>2. ASSUME NEW s \in Range(Stores), NEW i \in D \cap In(d, s)
      PROVE  \E u \in T : u.op = "unlink" /\ u.in = s /\ u.from = i
  <2>1. PICK n \in DOMAIN Stores : s = Stores[n]
    BY DEF Range
  <2>2. PICK u : u = Unlink(<<KindOf(n), i, n>>, Stores[n], i)
    OBVIOUS
  <2>3. UnlinksOne(u, d, DOMAIN Stores, D)
    BY <2>1, <2>2 DEF UnlinksOne
  <2>4. u \in T
    BY <2>3, BatchStepsAre
  <2> QED
    BY <2>1, <2>2, <2>4, StepIs DEF Unlink
<1>3. ASSUME NEW i \in Renamed(d, "data", map)
      PROVE  Copied(T, i)
  <2>1. PICK c : c = Step(<<4, i, 0>>, "copy", "data", i, map[i])
    OBVIOUS
  <2>2. PICK u : u = Unlink(<<4, i, 1>>, "data", i)
    OBVIOUS
  <2>3. c \in T
    BY <2>1, BatchStepsAre
  <2>4. u \in T
    BY <2>2, BatchStepsAre
  <2> QED
    BY <2>1, <2>2, <2>3, <2>4, StepIs DEF Unlink, Copied
<1>4. ASSUME NEW s \in Range(Stores), NEW i \in Renamed(d, s, map)
      PROVE  \E m \in T : Moves(m) /\ m.in = s /\ m.from = i
  <2>1. PICK n \in DOMAIN Stores : s = Stores[n]
    BY DEF Range
  <2>2. CASE n = 1
    BY <1>1, <1>3, <2>1, <2>2 DEF Moves, Copied
  <2>3. CASE n # 1
    <3>1. n \in MediaDirs
      BY <1>1, <2>3 DEF MediaDirs
    <3>2. PICK m : m = Step(<<4 + n, i, 0>>, "rename", Stores[n], i, map[i])
      OBVIOUS
    <3>3. RenamesOne(m, d, map)
      BY <2>1, <3>1, <3>2 DEF RenamesOne
    <3>4. m \in T
      BY <3>3, BatchStepsAre
    <3> QED
      BY <2>1, <3>2, <3>4, StepIs DEF Moves
  <2> QED
    BY <2>2, <2>3
<1>5. ASSUME NEW r \in Range(RowFiles)
      PROVE  \E v \in T : v.op = "rows" /\ v.in = r
  <2>1. PICK n \in DOMAIN RowFiles : r = RowFiles[n]
    BY DEF Range
  <2>2. PICK v : v = Step(<<Last, n, 0>>, "rows", RowFiles[n], 0, 0)
    OBVIOUS
  <2>3. v \in T
    BY <2>2, BatchStepsAre
  <2> QED
    BY <2>1, <2>2, <2>3, StepIs
<1>6. \E v \in T : v.op = "info"
  <2>1. PICK v : v = Step(<<Last + 1, 0, 0>>, "info", "info", Cardinality(D), 0)
    OBVIOUS
  <2>2. v \in T
    BY <2>1, BatchStepsAre
  <2> QED
    BY <2>1, <2>2, StepIs
<1> QED
  BY <1>2, <1>3, <1>4, <1>5, <1>6

\* Together they delete the indices and renumber the others.
LEMMA BatchRenumbers ==
  ASSUME NEW d \in Datasets, TypeOK, NEW D \in SUBSET Indices, NEW map,
         map = Renumbered(d, D), NEW T, T = BatchSteps(d, D)
  PROVE  Renumbers(d, D, map, T)
<1>1. /\ DOMAIN map = In(d, "data") \ D
      /\ \A i \in DOMAIN map : i \in Indices /\ map[i] \in Indices
      /\ \A i, k \in DOMAIN map : map[i] = map[k] => i = k
  BY RenumberedIs
<1>2. \A q \in T : q \in Steps /\ BatchStep(q, d, D, map)
  BY BatchStepIs
<1>3. /\ \A s \in Range(Stores) : In(d, s) \in SUBSET Indices
      /\ "data" \in Range(Stores)
      /\ \A n \in DOMAIN Stores : Stores[n] \in Range(Stores)
      /\ MediaDirs \subseteq DOMAIN Stores
  BY MapsOK, DataIsStore DEF Range, MediaDirs
<1>4. ASSUME NEW q \in T, Moves(q)
      PROVE  /\ q.in \in Range(Stores) /\ q.from \in In(d, q.in) \cap DOMAIN map
             /\ q.to = map[q.from] /\ q.to # q.from
  BY <1>2, <1>3, <1>4 DEF BatchStep, Moves, Renamed
<1>5. \A s \in Range(Stores) : \A i \in In(d, s) \cap DOMAIN map : map[i] # i =>
        \E m \in T : Moves(m) /\ m.in = s /\ m.from = i
  <2> SUFFICES ASSUME NEW s \in Range(Stores), NEW i \in In(d, s) \cap DOMAIN map, map[i] # i
               PROVE  \E m \in T : Moves(m) /\ m.in = s /\ m.from = i
    OBVIOUS
  <2>1. i \in Renamed(d, s, map)
    BY <1>3 DEF Renamed
  <2> QED
    BY <2>1, BatchHas
<1>6. ASSUME NEW q \in T, q.op = "unlink"
      PROVE  /\ q.in \in Range(Stores) /\ q.from \in In(d, q.in) /\ q.to \in Indices
             /\ \/ q.from \in D
                \/ \E c \in T : c.op = "copy" /\ c.in = q.in /\ c.from = q.from /\ Follows(c, q)
  <2>1. CASE /\ q.from \in D /\ q.to = q.from
             /\ \E n \in DOMAIN Stores : q.in = Stores[n] /\ q.from \in In(d, q.in)
    BY <1>3, <2>1
  <2>2. CASE /\ q.in = "data" /\ q.from \in Renamed(d, "data", map)
             /\ q.to = q.from /\ q.at = <<4, q.from, 1>>
    <3>a. Copied(T, q.from)
      BY <2>2, BatchHas
    <3>1. PICK c \in T : c.op = "copy" /\ c.in = "data" /\ c.from = q.from
                         /\ c.at = <<4, q.from, 0>>
      BY <2>2, <3>a DEF Copied
    <3>2. Follows(c, q)
      BY <2>2, <3>1 DEF Follows
    <3> QED
      BY <1>3, <2>2, <3>1, <3>2 DEF Renamed
  <2> QED
    BY <1>2, <1>6, <2>1, <2>2 DEF BatchStep
<1>7. \A s \in Range(Stores) : \A i \in D \cap In(d, s) :
        \E u \in T : u.op = "unlink" /\ u.in = s /\ u.from = i
  BY BatchHas
<1>8. ASSUME NEW q \in T, q.op = "copy"
      PROVE  q.in = "data" /\ \E u \in T : u.op = "unlink" /\ u.in = q.in /\ u.from = q.from
  <2>1. q.in = "data" /\ q.from \in Renamed(d, "data", map)
    BY <1>2, <1>8 DEF BatchStep
  <2>2. Copied(T, q.from)
    BY <2>1, BatchHas
  <2> QED
    BY <2>1, <2>2 DEF Copied
<1>9. \A q \in T : q.op = "rows" => q.in \in Range(RowFiles)
  BY <1>2 DEF BatchStep, Range
<1>10. \A r \in Range(RowFiles) : \E v \in T : v.op = "rows" /\ v.in = r
  BY BatchHas
<1>11. \A p \in T : p.op # "patch"
  BY <1>2 DEF BatchStep
<1> QED
  BY <1>1, <1>4, <1>5, <1>6, <1>7, <1>8, <1>9, <1>10, <1>11 DEF Renumbers

\* The two files of metadata are different.
LEMMA RowFilesDiffer ==
  \A n, m \in DOMAIN RowFiles : RowFiles[n] = RowFiles[m] => n = m
<1>1. DOMAIN RowFiles = {1, 2} /\ RowFiles[1] = "episodes_stats" /\ RowFiles[2] = "episodes"
  BY DEF RowFiles
<1> QED
  BY <1>1

\* They are in their places.
LEMMA BatchPlaced ==
  ASSUME NEW d \in Datasets, TypeOK, NEW D \in SUBSET Indices, NEW map,
         map = Renumbered(d, D), NEW T, T = BatchSteps(d, D)
  PROVE  Placed(D, map, T)
<1>1. /\ DOMAIN map = In(d, "data") \ D
      /\ \A i \in DOMAIN map : i \in Nat /\ i \in Indices /\ map[i] \in Indices /\ map[i] \in Nat
                               /\ map[i] <= i
  <2>1. /\ DOMAIN map = In(d, "data") \ D
        /\ \A i \in DOMAIN map : i \in Indices /\ map[i] \in Indices /\ map[i] <= i
    BY RenumberedIs
  <2> QED
    BY <2>1, EditAssumption DEF Indices
<1>2. /\ \A q \in T : q \in Steps /\ BatchStep(q, d, D, map)
      /\ \A q \in T : q = AtPlace(q.at, map, Cardinality(D))
  BY BatchStepIs
<1>3. /\ \A n \in MediaDirs : n \in Nat /\ n >= 2 /\ n \in DOMAIN Stores /\ Stores[n] # "data"
      /\ \A n, m \in DOMAIN Stores : Stores[n] = Stores[m] => n = m
  BY DataIsStore, EditAssumption DEF MediaDirs, IsInjective
<1>4. ASSUME NEW q \in T, Moves(q)
      PROVE  /\ q.from \in DOMAIN map \cap Indices /\ q.to = map[q.from] /\ q.to \in Indices
             /\ q.to < q.from /\ q.at[2] = q.from /\ q.at[1] >= 4 /\ q.at[3] = 0
             /\ \/ q.in = "data" /\ q.at[1] = 4
                \/ \E n \in MediaDirs : q.in = Stores[n] /\ q.at[1] = 4 + n
  <2>1. CASE /\ q.in = "data" /\ q.from \in Renamed(d, "data", map)
             /\ q.to = map[q.from] /\ q.at = <<4, q.from, 0>>
    <3>1. q.from \in DOMAIN map /\ map[q.from] # q.from
      BY <2>1 DEF Renamed
    <3> QED
      BY <1>1, <2>1, <3>1
  <2>2. CASE /\ q.from \in Renamed(d, q.in, map) /\ q.to = map[q.from]
             /\ \E n \in MediaDirs : q.in = Stores[n] /\ q.at = <<4 + n, q.from, 0>>
    <3>1. q.from \in DOMAIN map /\ map[q.from] # q.from
      BY <2>2 DEF Renamed
    <3>2. PICK n \in MediaDirs : q.in = Stores[n] /\ q.at = <<4 + n, q.from, 0>>
      BY <2>2
    <3> QED
      BY <1>1, <1>3, <2>2, <3>1, <3>2
  <2> QED
    BY <1>2, <1>4, <2>1, <2>2 DEF BatchStep, Moves
<1>5. ASSUME NEW q \in T, NEW p \in T, Moves(q), Moves(p), q.in = p.in
      PROVE  q.at[1] = p.at[1] /\ q.at[3] = p.at[3]
  <2>1. CASE q.in = "data"
    <3>1. q.at[1] = 4 /\ q.at[3] = 0
      BY <1>3, <1>4, <1>5, <2>1
    <3>2. p.in = "data"
      BY <1>5, <2>1
    <3>3. p.at[1] = 4 /\ p.at[3] = 0
      BY <1>3, <1>4, <1>5, <3>2
    <3> QED
      BY <3>1, <3>3
  <2>2. CASE q.in # "data"
    <3>1. PICK n \in MediaDirs : q.in = Stores[n] /\ q.at[1] = 4 + n
      BY <1>4, <1>5, <2>2
    <3>2. PICK m \in MediaDirs : p.in = Stores[m] /\ p.at[1] = 4 + m
      BY <1>4, <1>5, <2>2
    <3>3. n = m
      BY <1>3, <1>5, <3>1, <3>2
    <3> QED
      BY <1>4, <1>5, <3>1, <3>2, <3>3
  <2> QED
    BY <2>1, <2>2
<1>6. ASSUME NEW q \in T, q.op = "unlink"
      PROVE  \/ q.from \in D /\ \E n \in DOMAIN Stores :
                                  q.in = Stores[n] /\ q.at = <<KindOf(n), q.from, n>>
             \/ q.from \in DOMAIN map /\ \E c \in T :
                  c.op = "copy" /\ c.in = q.in /\ c.from = q.from /\ Follows(c, q)
  <2>1. CASE q.from \in D /\ \E n \in DOMAIN Stores :
                               q.in = Stores[n] /\ q.at = <<KindOf(n), q.from, n>>
    BY <2>1
  <2>2. CASE /\ q.in = "data" /\ q.from \in Renamed(d, "data", map)
             /\ q.to = q.from /\ q.at = <<4, q.from, 1>>
    <3>1. Copied(T, q.from)
      BY <2>2, BatchHas
    <3>2. PICK c \in T : c.op = "copy" /\ c.in = "data" /\ c.from = q.from
                         /\ c.at = <<4, q.from, 0>>
      BY <3>1 DEF Copied
    <3>3. Follows(c, q)
      BY <2>2, <3>2 DEF Follows
    <3> QED
      BY <2>2, <3>2, <3>3 DEF Renamed
  <2> QED
    BY <1>2, <1>6, <2>1, <2>2 DEF BatchStep
<1>7. ASSUME NEW q \in T, q.op = "copy"
      PROVE  \E p \in T : p.op = "unlink" /\ p.in = q.in /\ p.from = q.from /\ Follows(q, p)
  <2>1. q.in = "data" /\ q.from \in Renamed(d, "data", map) /\ q.at = <<4, q.from, 0>>
    BY <1>2, <1>7 DEF BatchStep
  <2>2. Copied(T, q.from)
    BY <2>1, BatchHas
  <2>3. PICK p \in T : p.op = "unlink" /\ p.in = "data" /\ p.from = q.from
                       /\ p.at = <<4, q.from, 1>>
    BY <2>2 DEF Copied
  <2>4. Follows(q, p)
    BY <2>1, <2>3 DEF Follows
  <2> QED
    BY <2>1, <2>3, <2>4
<1>8. /\ \A q \in T : q.op = "rename" => q.in # "data"
      /\ \A q \in T : q.op # "patch" /\ q.op # "raise"
  BY <1>2, <1>3 DEF BatchStep
<1>9. ASSUME NEW q \in T, NEW p \in T, q.op = p.op,
             q.op = "info" \/ (q.op = "rows" /\ q.in = p.in)
      PROVE  q = p
  <2>1. CASE q.op = "info"
    <3>1. q.at = <<Last + 1, 0, 0>> /\ p.at = <<Last + 1, 0, 0>>
      BY <1>2, <1>9, <2>1 DEF BatchStep
    <3> QED
      BY <1>2, <3>1
  <2>2. CASE q.op = "rows" /\ q.in = p.in
    <3>1. PICK n \in DOMAIN RowFiles : q.in = RowFiles[n] /\ q.at = <<Last, n, 0>>
      BY <1>2, <2>2 DEF BatchStep
    <3>2. PICK m \in DOMAIN RowFiles : p.in = RowFiles[m] /\ p.at = <<Last, m, 0>>
      BY <1>2, <1>9, <2>2 DEF BatchStep
    <3>3. n = m
      BY <2>2, <3>1, <3>2, RowFilesDiffer
    <3> QED
      BY <1>2, <3>1, <3>2, <3>3
  <2> QED
    BY <1>9, <2>1, <2>2
<1>10. T \in SUBSET Steps /\ \A q, p \in T : q.at = p.at => q = p
  BY <1>2
<1> QED
  BY <1>4, <1>5, <1>6, <1>7, <1>8, <1>9, <1>10 DEF Placed

----------------------------------------------------------------------------
(* The deletion of one episode.                                            *)

\* The map of a deletion of one episode: one to one, down by one or not at all.
LEMMA ShiftedIs ==
  ASSUME NEW k \in Indices
  PROVE  LET map == Shifted(k)
         IN  /\ DOMAIN map = Indices \ {k} /\ map \in IndexMaps
             /\ \A i \in DOMAIN map :
                  /\ i \in Indices /\ map[i] \in Indices /\ map[i] = IF i > k THEN i - 1 ELSE i
                  /\ map[i] # i => map[i] = i - 1
             /\ \A i, j \in DOMAIN map : map[i] = map[j] => i = j
<1> DEFINE map == Shifted(k)
<1>1. /\ DOMAIN map = Indices \ {k} /\ map = [i \in DOMAIN map |-> map[i]]
      /\ \A i \in DOMAIN map : map[i] = IF i > k THEN i - 1 ELSE i
  BY DEF Shifted
<1> HIDE DEF map
<1>2. k \in Nat /\ \A i \in DOMAIN map : i \in 0 .. MaxIndex /\ i # k /\ MaxIndex \in Nat
  BY <1>1, EditAssumption DEF Indices
<1>3. \A i \in DOMAIN map : map[i] \in 0 .. MaxIndex /\ (map[i] # i => map[i] = i - 1)
  BY <1>1, <1>2
<1>4. \A i, j \in DOMAIN map : map[i] = map[j] => i = j
  BY <1>1, <1>2
<1>5. map \in [Indices \ {k} -> Indices]
  BY <1>1, <1>3 DEF Indices
<1>6. map \in IndexMaps
  BY <1>5 DEF IndexMaps
<1> QED
  BY <1>1, <1>2, <1>3, <1>4, <1>6 DEF map, Indices

\* The step q renames a video or a folder down by one.
ShiftsOne(q, d, map) ==
  \E n \in MediaDirs : \E i \in Renamed(d, Stores[n], map) :
    q = Step(<<4 + KindOf(n), i, n>>, "rename", Stores[n], i, i - 1)

\* The members of SingleSteps, when no file is missing.
LEMMA SingleStepsAre ==
  ASSUME NEW d, NEW k, NEW map, map = Shifted(k), FirstLack(d, k) = 0, NEW q
  PROVE  q \in SingleSteps(d, k) <=>
    \/ UnlinksOne(q, d, DOMAIN Stores, {k})
    \/ \E i \in Renamed(d, "data", map) :
         q = Step(<<4, i, 0>>, "rename", "data", i, i - 1)
    \/ \E i \in Renamed(d, "data", map) :
         q = Step(<<4, i, 1>>, "patch", "data", i - 1, i - 1)
    \/ ShiftsOne(q, d, map)
    \/ \E n \in DOMAIN RowFiles : q = Step(<<Last, n, 0>>, "rows", RowFiles[n], 0, 0)
    \/ q = Step(<<Last + 1, 0, 0>>, "info", "info", 1, 0)
<1> DEFINE A == {Step(<<4, u[2], 0>>, "rename", "data", u[2], u[2] - 1) :
                   u \in Moved(d, DataDir, map)}
           B == {Step(<<4, u[2], 1>>, "patch", "data", u[2] - 1, u[2] - 1) :
                   u \in Moved(d, DataDir, map)}
           C == {Step(<<4 + KindOf(u[1]), u[2], u[1]>>, "rename",
                      Stores[u[1]], u[2], u[2] - 1) : u \in Moved(d, MediaDirs, map)}
<1>1. SingleSteps(d, k) = Unlinks(d, DOMAIN Stores, {k}) \cup A \cup B \cup C \cup RowsAndInfo(1)
  BY DEF SingleSteps
<1>2. Stores[1] = "data"
  BY DataIsStore
<1>3. q \in A <=>
        \E i \in Renamed(d, "data", map) : q = Step(<<4, i, 0>>, "rename", "data", i, i - 1)
  <2>1. ASSUME q \in A
        PROVE  \E i \in Renamed(d, "data", map) :
                 q = Step(<<4, i, 0>>, "rename", "data", i, i - 1)
    <3>1. PICK u \in Moved(d, DataDir, map) :
            q = Step(<<4, u[2], 0>>, "rename", "data", u[2], u[2] - 1)
      BY <2>1
    <3>2. /\ u[1] \in DataDir /\ map[u[2]] # u[2]
          /\ u[2] \in Indices \cap In(d, Stores[u[1]]) \cap DOMAIN map
      BY DEF Moved
    <3>3. u[2] \in Renamed(d, "data", map)
      BY <1>2, <3>2 DEF DataDir, Renamed
    <3> QED
      BY <3>1, <3>3
  <2>2. ASSUME NEW i \in Renamed(d, "data", map),
               q = Step(<<4, i, 0>>, "rename", "data", i, i - 1)
        PROVE  q \in A
    <3>1. <<1, i>> \in Moved(d, DataDir, map)
      BY <1>2, MovedAre DEF DataDir, Renamed
    <3> QED
      BY <2>2, <3>1
  <2> QED
    BY <2>1, <2>2
<1>4. q \in B <=>
        \E i \in Renamed(d, "data", map) : q = Step(<<4, i, 1>>, "patch", "data", i - 1, i - 1)
  <2>1. ASSUME q \in B
        PROVE  \E i \in Renamed(d, "data", map) :
                 q = Step(<<4, i, 1>>, "patch", "data", i - 1, i - 1)
    <3>1. PICK u \in Moved(d, DataDir, map) :
            q = Step(<<4, u[2], 1>>, "patch", "data", u[2] - 1, u[2] - 1)
      BY <2>1
    <3>2. /\ u[1] \in DataDir /\ map[u[2]] # u[2]
          /\ u[2] \in Indices \cap In(d, Stores[u[1]]) \cap DOMAIN map
      BY DEF Moved
    <3>3. u[2] \in Renamed(d, "data", map)
      BY <1>2, <3>2 DEF DataDir, Renamed
    <3> QED
      BY <3>1, <3>3
  <2>2. ASSUME NEW i \in Renamed(d, "data", map),
               q = Step(<<4, i, 1>>, "patch", "data", i - 1, i - 1)
        PROVE  q \in B
    <3>1. <<1, i>> \in Moved(d, DataDir, map)
      BY <1>2, MovedAre DEF DataDir, Renamed
    <3> QED
      BY <2>2, <3>1
  <2> QED
    BY <2>1, <2>2
<1>5. q \in C <=> ShiftsOne(q, d, map)
  <2>1. ASSUME q \in C
        PROVE  ShiftsOne(q, d, map)
    <3>1. PICK u \in Moved(d, MediaDirs, map) :
            q = Step(<<4 + KindOf(u[1]), u[2], u[1]>>, "rename", Stores[u[1]], u[2], u[2] - 1)
      BY <2>1
    <3>2. /\ u[1] \in MediaDirs /\ map[u[2]] # u[2]
          /\ u[2] \in Indices \cap In(d, Stores[u[1]]) \cap DOMAIN map
      BY DEF Moved
    <3>3. u[2] \in Renamed(d, Stores[u[1]], map)
      BY <3>2 DEF Renamed
    <3> QED
      BY <3>1, <3>2, <3>3 DEF ShiftsOne
  <2>2. ASSUME NEW n \in MediaDirs, NEW i \in Renamed(d, Stores[n], map),
               q = Step(<<4 + KindOf(n), i, n>>, "rename", Stores[n], i, i - 1)
        PROVE  q \in C
    <3>1. <<n, i>> \in Moved(d, MediaDirs, map)
      BY MovedAre DEF Renamed
    <3> QED
      BY <2>2, <3>1
  <2> QED
    BY <2>1, <2>2 DEF ShiftsOne
<1>6. q \in Unlinks(d, DOMAIN Stores, {k}) <=> UnlinksOne(q, d, DOMAIN Stores, {k})
  BY UnlinksAre
<1>7. q \in RowsAndInfo(1) <=>
        \/ \E n \in DOMAIN RowFiles : q = Step(<<Last, n, 0>>, "rows", RowFiles[n], 0, 0)
        \/ q = Step(<<Last + 1, 0, 0>>, "info", "info", 1, 0)
  BY RowsAndInfoAre
<1>8. q \in SingleSteps(d, k) <=>
        \/ q \in Unlinks(d, DOMAIN Stores, {k}) \/ q \in A \/ q \in B \/ q \in C
        \/ q \in RowsAndInfo(1)
  BY <1>1
<1> HIDE DEF A, B, C
<1> QED
  BY <1>3, <1>4, <1>5, <1>6, <1>7, <1>8

\* The step of a deletion of one episode that has the place.
SingleAtPlace(at) ==
  IF at[1] < 4 THEN Unlink(at, Stores[at[3]], at[2])
  ELSE IF at[1] = 4
       THEN IF at[3] = 0 THEN Step(at, "rename", "data", at[2], at[2] - 1)
            ELSE Step(at, "patch", "data", at[2] - 1, at[2] - 1)
  ELSE IF at[1] < Last THEN Step(at, "rename", Stores[at[3]], at[2], at[2] - 1)
  ELSE IF at[1] = Last THEN Step(at, "rows", RowFiles[at[2]], 0, 0)
  ELSE Step(at, "info", "info", 1, 0)

\* The kinds of steps there are.
SingleStep(q, d, k, map) ==
  \/ /\ q.op = "unlink" /\ q.from = k /\ q.to = q.from
     /\ \E n \in DOMAIN Stores : /\ q.in = Stores[n] /\ q.from \in In(d, q.in)
                                 /\ q.at = <<KindOf(n), q.from, n>>
  \/ /\ q.op = "rename" /\ q.in = "data" /\ q.from \in Renamed(d, "data", map)
     /\ q.to = q.from - 1 /\ q.at = <<4, q.from, 0>>
  \/ /\ q.op = "patch" /\ q.in = "data" /\ \E i \in Renamed(d, "data", map) :
                                             q.to = i - 1 /\ q.at = <<4, i, 1>>
  \/ /\ q.op = "rename" /\ q.from \in Renamed(d, q.in, map) /\ q.to = q.from - 1
     /\ \E n \in MediaDirs : q.in = Stores[n] /\ q.at = <<4 + KindOf(n), q.from, n>>
  \/ /\ q.op = "rows"
     /\ \E n \in DOMAIN RowFiles : q.in = RowFiles[n] /\ q.at = <<Last, n, 0>>
  \/ q.op = "info" /\ q.from = 1 /\ q.at = <<Last + 1, 0, 0>>

\* Each is of one of these kinds, and the place tells which.
LEMMA SingleStepIs ==
  ASSUME NEW d \in Datasets, TypeOK, NEW k \in Indices, NEW map, map = Shifted(k),
         FirstLack(d, k) = 0, NEW q \in SingleSteps(d, k)
  PROVE  q \in Steps /\ q = SingleAtPlace(q.at) /\ SingleStep(q, d, k, map)
<1>1. /\ Len(Stores) \in Nat /\ DOMAIN Stores = 1 .. Len(Stores) /\ Stores[1] = "data"
      /\ \A n \in DOMAIN Stores : Stores[n] \in Range(Stores)
      /\ "data" \in Range(Stores)
  BY DataIsStore DEF Range
<1>2. \A i \in Indices : i \in Nat
  BY EditAssumption DEF Indices
<1>3. /\ \A s \in Range(Stores) : s \in Places
      /\ \A n \in DOMAIN RowFiles : RowFiles[n] \in Places /\ n \in Nat
      /\ "info" \in Places
  BY DEF Places, RowFiles, Range
<1>4. \A s : \A i \in Renamed(d, s, map) : i \in Nat /\ i \in In(d, s) /\ i - 1 \in Nat
  <2> SUFFICES ASSUME NEW s, NEW i \in Renamed(d, s, map)
               PROVE  i \in Nat /\ i \in In(d, s) /\ i - 1 \in Nat
    OBVIOUS
  <2>1. i \in Indices /\ i \in In(d, s) /\ i \in DOMAIN map /\ map[i] # i
    BY DEF Renamed
  <2>2. map[i] \in Indices /\ map[i] = i - 1
    BY <2>1, ShiftedIs
  <2> QED
    BY <1>2, <2>1, <2>2
<1>5. Last \in Nat /\ Last = 8 + Len(Stores)
  BY <1>1 DEF Last
<1>6. CASE UnlinksOne(q, d, DOMAIN Stores, {k})
  <2>1. PICK n \in DOMAIN Stores : \E i \in {k} \cap In(d, Stores[n]) :
          q = Unlink(<<KindOf(n), i, n>>, Stores[n], i)
    BY <1>6 DEF UnlinksOne
  <2>2. k \in In(d, Stores[n]) /\ q = Unlink(<<KindOf(n), k, n>>, Stores[n], k)
    BY <2>1
  <2>3. KindOf(n) \in 1 .. 3 /\ n \in Nat /\ k \in Nat
    BY <1>1, <1>2, KindIs
  <2>4. /\ q.at = <<KindOf(n), k, n>> /\ q.op = "unlink" /\ q.in = Stores[n]
        /\ q.from = k /\ q.to = k /\ q \in Steps
    BY <1>1, <1>3, <2>2, <2>3, StepIs DEF Unlink, FileOps
  <2>5. q = SingleAtPlace(q.at)
    BY <2>2, <2>3, <2>4 DEF SingleAtPlace
  <2> QED
    BY <2>2, <2>4, <2>5 DEF SingleStep
<1>7. CASE \E i \in Renamed(d, "data", map) : q = Step(<<4, i, 0>>, "rename", "data", i, i - 1)
  <2>1. PICK i \in Renamed(d, "data", map) : q = Step(<<4, i, 0>>, "rename", "data", i, i - 1)
    BY <1>7
  <2>2. i \in Nat /\ i - 1 \in Nat
    BY <1>4
  <2>3. /\ q.at = <<4, i, 0>> /\ q.op = "rename" /\ q.in = "data"
        /\ q.from = i /\ q.to = i - 1 /\ q \in Steps
    BY <1>1, <1>3, <2>1, <2>2, StepIs DEF FileOps
  <2>4. q = SingleAtPlace(q.at)
    BY <2>1, <2>3 DEF SingleAtPlace
  <2> QED
    BY <2>3, <2>4 DEF SingleStep
<1>8. CASE \E i \in Renamed(d, "data", map) :
             q = Step(<<4, i, 1>>, "patch", "data", i - 1, i - 1)
  <2>1. PICK i \in Renamed(d, "data", map) :
          q = Step(<<4, i, 1>>, "patch", "data", i - 1, i - 1)
    BY <1>8
  <2>2. i \in Nat /\ i - 1 \in Nat
    BY <1>4
  <2>3. /\ q.at = <<4, i, 1>> /\ q.op = "patch" /\ q.in = "data"
        /\ q.from = i - 1 /\ q.to = i - 1 /\ q \in Steps
    BY <1>1, <1>3, <2>1, <2>2, StepIs DEF FileOps
  <2>4. q = SingleAtPlace(q.at)
    BY <2>1, <2>3 DEF SingleAtPlace
  <2> QED
    BY <2>3, <2>4 DEF SingleStep
<1>9. CASE ShiftsOne(q, d, map)
  <2>1. PICK n \in MediaDirs : \E i \in Renamed(d, Stores[n], map) :
          q = Step(<<4 + KindOf(n), i, n>>, "rename", Stores[n], i, i - 1)
    BY <1>9 DEF ShiftsOne
  <2>2. PICK i \in Renamed(d, Stores[n], map) :
          q = Step(<<4 + KindOf(n), i, n>>, "rename", Stores[n], i, i - 1)
    BY <2>1
  <2>3. n \in 2 .. Len(Stores) /\ n \in DOMAIN Stores /\ n \in Nat /\ n # 1
    BY <1>1 DEF MediaDirs
  <2>4. KindOf(n) \in 1 .. 3 /\ KindOf(n) # 1
    BY <2>3, KindIs
  <2>5. i \in Nat /\ i - 1 \in Nat
    BY <1>4
  <2>6. 4 + KindOf(n) \in Nat
    BY <2>4
  <2>7. /\ q.at = <<4 + KindOf(n), i, n>> /\ q.op = "rename" /\ q.in = Stores[n]
        /\ q.from = i /\ q.to = i - 1 /\ q \in Steps
    BY <1>1, <1>3, <2>2, <2>3, <2>5, <2>6, StepIs DEF FileOps
  <2>8. ~(4 + KindOf(n) < 4) /\ 4 + KindOf(n) # 4 /\ 4 + KindOf(n) < Last
    BY <1>1, <1>5, <2>4
  <2>9. q = SingleAtPlace(q.at)
    BY <2>2, <2>7, <2>8 DEF SingleAtPlace
  <2> QED
    BY <2>2, <2>7, <2>9 DEF SingleStep
<1>10. CASE \E n \in DOMAIN RowFiles : q = Step(<<Last, n, 0>>, "rows", RowFiles[n], 0, 0)
  <2>1. PICK n \in DOMAIN RowFiles : q = Step(<<Last, n, 0>>, "rows", RowFiles[n], 0, 0)
    BY <1>10
  <2>2. /\ q.at = <<Last, n, 0>> /\ q.op = "rows" /\ q.in = RowFiles[n] /\ q \in Steps
    BY <1>3, <1>5, <2>1, StepIs
  <2>3. ~(Last < 4) /\ Last # 4 /\ ~(Last < Last)
    BY <1>1, <1>5
  <2>4. q = SingleAtPlace(q.at)
    BY <2>1, <2>2, <2>3 DEF SingleAtPlace
  <2> QED
    BY <2>2, <2>4 DEF SingleStep
<1>11. CASE q = Step(<<Last + 1, 0, 0>>, "info", "info", 1, 0)
  <2>1. /\ q.at = <<Last + 1, 0, 0>> /\ q.op = "info" /\ q.from = 1 /\ q \in Steps
    BY <1>3, <1>5, <1>11, StepIs
  <2>2. ~(Last + 1 < 4) /\ Last + 1 # 4 /\ ~(Last + 1 < Last) /\ Last + 1 # Last
    BY <1>1, <1>5
  <2>3. q = SingleAtPlace(q.at)
    BY <1>11, <2>1, <2>2 DEF SingleAtPlace
  <2> QED
    BY <2>1, <2>3 DEF SingleStep
<1>12. \/ UnlinksOne(q, d, DOMAIN Stores, {k})
       \/ \E i \in Renamed(d, "data", map) :
            q = Step(<<4, i, 0>>, "rename", "data", i, i - 1)
       \/ \E i \in Renamed(d, "data", map) :
            q = Step(<<4, i, 1>>, "patch", "data", i - 1, i - 1)
       \/ ShiftsOne(q, d, map)
       \/ \E n \in DOMAIN RowFiles : q = Step(<<Last, n, 0>>, "rows", RowFiles[n], 0, 0)
       \/ q = Step(<<Last + 1, 0, 0>>, "info", "info", 1, 0)
  BY SingleStepsAre
<1> QED
  BY <1>6, <1>7, <1>8, <1>9, <1>10, <1>11, <1>12

\* A parquet file is renamed, and then patched.
Patches(T, i) ==
  /\ \E m \in T : m.op = "rename" /\ m.in = "data" /\ m.from = i /\ m.at = <<4, i, 0>>
  /\ \E p \in T : p.op = "patch" /\ p.to = i - 1 /\ p.at = <<4, i, 1>>

\* The steps there are.
LEMMA SingleHas ==
  ASSUME NEW d \in Datasets, TypeOK, NEW k \in Indices, NEW map, map = Shifted(k),
         FirstLack(d, k) = 0
  PROVE  LET T == SingleSteps(d, k)
         IN  /\ \A s \in Range(Stores) : \A i \in {k} \cap In(d, s) :
                  \E u \in T : u.op = "unlink" /\ u.in = s /\ u.from = i
             /\ \A s \in Range(Stores) : \A i \in Renamed(d, s, map) :
                  \E m \in T : Moves(m) /\ m.in = s /\ m.from = i
             /\ \A i \in Renamed(d, "data", map) : Patches(T, i)
             /\ \A r \in Range(RowFiles) : \E v \in T : v.op = "rows" /\ v.in = r
             /\ \E v \in T : v.op = "info"
<1> DEFINE T == SingleSteps(d, k)
<1>1. /\ Len(Stores) \in Nat /\ DOMAIN Stores = 1 .. Len(Stores) /\ Stores[1] = "data"
  BY DataIsStore
<1>2. ASSUME NEW s \in Range(Stores), NEW i \in {k} \cap In(d, s)
      PROVE  \E u \in T : u.op = "unlink" /\ u.in = s /\ u.from = i
  <2>1. PICK n \in DOMAIN Stores : s = Stores[n]
    BY DEF Range
  <2>2. PICK u : u = Unlink(<<KindOf(n), i, n>>, Stores[n], i)
    OBVIOUS
  <2>3. UnlinksOne(u, d, DOMAIN Stores, {k})
    BY <2>1, <2>2 DEF UnlinksOne
  <2>4. u \in T
    BY <2>3, SingleStepsAre
  <2> QED
    BY <2>1, <2>2, <2>4, StepIs DEF Unlink
<1>3. ASSUME NEW i \in Renamed(d, "data", map)
      PROVE  Patches(T, i)
  <2>1. PICK m : m = Step(<<4, i, 0>>, "rename", "data", i, i - 1)
    OBVIOUS
  <2>2. PICK p : p = Step(<<4, i, 1>>, "patch", "data", i - 1, i - 1)
    OBVIOUS
  <2>3. m \in T
    BY <2>1, SingleStepsAre
  <2>4. p \in T
    BY <2>2, SingleStepsAre
  <2> QED
    BY <2>1, <2>2, <2>3, <2>4, StepIs DEF Patches
<1>4. ASSUME NEW s \in Range(Stores), NEW i \in Renamed(d, s, map)
      PROVE  \E m \in T : Moves(m) /\ m.in = s /\ m.from = i
  <2>1. PICK n \in DOMAIN Stores : s = Stores[n]
    BY DEF Range
  <2>2. CASE n = 1
    BY <1>1, <1>3, <2>1, <2>2 DEF Moves, Patches
  <2>3. CASE n # 1
    <3>1. n \in MediaDirs
      BY <1>1, <2>3 DEF MediaDirs
    <3>2. PICK m : m = Step(<<4 + KindOf(n), i, n>>, "rename", Stores[n], i, i - 1)
      OBVIOUS
    <3>3. ShiftsOne(m, d, map)
      BY <2>1, <3>1, <3>2 DEF ShiftsOne
    <3>4. m \in T
      BY <3>3, SingleStepsAre
    <3> QED
      BY <2>1, <3>2, <3>4, StepIs DEF Moves
  <2> QED
    BY <2>2, <2>3
<1>5. ASSUME NEW r \in Range(RowFiles)
      PROVE  \E v \in T : v.op = "rows" /\ v.in = r
  <2>1. PICK n \in DOMAIN RowFiles : r = RowFiles[n]
    BY DEF Range
  <2>2. PICK v : v = Step(<<Last, n, 0>>, "rows", RowFiles[n], 0, 0)
    OBVIOUS
  <2>3. v \in T
    BY <2>2, SingleStepsAre
  <2> QED
    BY <2>1, <2>2, <2>3, StepIs
<1>6. \E v \in T : v.op = "info"
  <2>1. PICK v : v = Step(<<Last + 1, 0, 0>>, "info", "info", 1, 0)
    OBVIOUS
  <2>2. v \in T
    BY <2>1, SingleStepsAre
  <2> QED
    BY <2>1, <2>2, StepIs
<1> QED
  BY <1>2, <1>3, <1>4, <1>5, <1>6

\* The renames go down by one, each at the place of its index.
LEMMA SingleMoves ==
  ASSUME NEW d \in Datasets, TypeOK, NEW k \in Indices, NEW map, map = Shifted(k),
         FirstLack(d, k) = 0, NEW q \in SingleSteps(d, k), Moves(q)
  PROVE  /\ q.in \in Range(Stores) /\ q.from \in In(d, q.in) \cap DOMAIN map \cap Indices
         /\ q.to = map[q.from] /\ q.to \in Indices /\ q.to = q.from - 1 /\ q.to < q.from
         /\ q.from \in Nat /\ q.op = "rename"
         /\ \/ q.in = "data" /\ q.at = <<4, q.from, 0>>
            \/ \E n \in MediaDirs : q.in = Stores[n] /\ q.at = <<4 + KindOf(n), q.from, n>>
<1>1. /\ \A n \in DOMAIN Stores : Stores[n] \in Range(Stores)
      /\ "data" \in Range(Stores) /\ MediaDirs \subseteq DOMAIN Stores
  BY DataIsStore DEF Range, MediaDirs
<1>2. /\ q.op = "rename" /\ q.from \in Renamed(d, q.in, map) /\ q.to = q.from - 1
      /\ \/ q.in = "data" /\ q.at = <<4, q.from, 0>>
         \/ \E n \in MediaDirs : q.in = Stores[n] /\ q.at = <<4 + KindOf(n), q.from, n>>
  BY SingleStepIs DEF SingleStep, Moves
<1>3. q.in \in Range(Stores)
  BY <1>1, <1>2
<1>4. q.from \in In(d, q.in) \cap DOMAIN map \cap Indices /\ map[q.from] # q.from
  BY <1>2 DEF Renamed
<1>5. map[q.from] = q.from - 1 /\ map[q.from] \in Indices
  BY <1>4, ShiftedIs
<1>6. q.from \in Nat
  BY <1>4, EditAssumption DEF Indices
<1>7. q.to < q.from
  BY <1>2, <1>6
<1> QED
  BY <1>2, <1>3, <1>4, <1>5, <1>6, <1>7

\* A patch follows the renaming of its parquet file.
LEMMA SinglePatches ==
  ASSUME NEW d \in Datasets, TypeOK, NEW k \in Indices, FirstLack(d, k) = 0,
         NEW p \in SingleSteps(d, k), p.op = "patch"
  PROVE  \E q \in SingleSteps(d, k) :
           q.op = "rename" /\ q.in = "data" /\ q.to = p.to /\ Follows(q, p)
<1>1. PICK i \in Renamed(d, "data", Shifted(k)) : p.to = i - 1 /\ p.at = <<4, i, 1>>
  BY SingleStepIs DEF SingleStep
<1>2. Patches(SingleSteps(d, k), i)
  BY SingleHas
<1>3. PICK q \in SingleSteps(d, k) :
        q.op = "rename" /\ q.in = "data" /\ q.from = i /\ q.at = <<4, i, 0>>
  BY <1>2 DEF Patches
<1>4. q.to = q.from - 1
  BY <1>3, SingleMoves DEF Moves
<1>5. Follows(q, p)
  BY <1>1, <1>3 DEF Follows
<1> QED
  BY <1>1, <1>3, <1>4, <1>5

\* Together they delete the index and shift the others.
LEMMA SingleRenumbers ==
  ASSUME NEW d \in Datasets, TypeOK, NEW k \in Indices, NEW map, map = Shifted(k),
         FirstLack(d, k) = 0, NEW T, T = SingleSteps(d, k)
  PROVE  Renumbers(d, {k}, map, T)
<1>1. /\ DOMAIN map = Indices \ {k}
      /\ \A i \in DOMAIN map : i \in Indices /\ map[i] \in Indices
      /\ \A i, j \in DOMAIN map : map[i] = map[j] => i = j
  BY ShiftedIs
<1>2. \A q \in T : q \in Steps /\ SingleStep(q, d, k, map)
  BY SingleStepIs
<1>3. /\ \A s \in Range(Stores) : In(d, s) \in SUBSET Indices
      /\ "data" \in Range(Stores)
      /\ \A n \in DOMAIN Stores : Stores[n] \in Range(Stores)
  BY MapsOK, DataIsStore DEF Range
<1>4. \A q \in T : Moves(q) =>
        /\ q.in \in Range(Stores) /\ q.from \in In(d, q.in) \cap DOMAIN map
        /\ q.to = map[q.from] /\ q.to # q.from
  <2> SUFFICES ASSUME NEW q \in T, Moves(q)
               PROVE  /\ q.in \in Range(Stores) /\ q.from \in In(d, q.in) \cap DOMAIN map
                      /\ q.to = map[q.from] /\ q.to # q.from
    OBVIOUS
  <2>1. /\ q.in \in Range(Stores) /\ q.from \in In(d, q.in) \cap DOMAIN map
        /\ q.to = map[q.from] /\ q.to = q.from - 1 /\ q.from \in Nat
    BY SingleMoves
  <2> QED
    BY <2>1
<1>5. \A s \in Range(Stores) : \A i \in In(d, s) \cap DOMAIN map : map[i] # i =>
        \E m \in T : Moves(m) /\ m.in = s /\ m.from = i
  <2> SUFFICES ASSUME NEW s \in Range(Stores), NEW i \in In(d, s) \cap DOMAIN map, map[i] # i
               PROVE  \E m \in T : Moves(m) /\ m.in = s /\ m.from = i
    OBVIOUS
  <2>1. i \in Renamed(d, s, map)
    BY <1>3 DEF Renamed
  <2> QED
    BY <2>1, SingleHas
<1>6. \A q \in T : q.op = "unlink" =>
        q.in \in Range(Stores) /\ q.from \in In(d, q.in) /\ q.to \in Indices /\ q.from \in {k}
  BY <1>2, <1>3 DEF SingleStep
<1>7. \A s \in Range(Stores) : \A i \in {k} \cap In(d, s) :
        \E u \in T : u.op = "unlink" /\ u.in = s /\ u.from = i
  BY SingleHas
<1>8. \A q \in T : q.op # "copy"
  BY <1>2 DEF SingleStep
<1>9. \A q \in T : q.op = "rows" => q.in \in Range(RowFiles)
  BY <1>2 DEF SingleStep, Range
<1>10. \A r \in Range(RowFiles) : \E v \in T : v.op = "rows" /\ v.in = r
  BY SingleHas
<1>11. \A p \in T : p.op = "patch" => ~NextIn(T, p)
  <2> SUFFICES ASSUME NEW p \in T, p.op = "patch", NextIn(T, p)
               PROVE  FALSE
    OBVIOUS
  <2>1. PICK q \in T : Follows(q, p)
    BY SinglePatches
  <2>2. Earlier(q, p)
    BY <1>2, <2>1, FollowerIsLater
  <2>3. T \in SUBSET Steps
    BY <1>2
  <2> QED
    BY <2>2, <2>3, NextIsFirst
<1>12. {k} \subseteq Indices /\ {k} \cap DOMAIN map = {} /\ In(d, "data") \ {k} \subseteq DOMAIN map
  BY <1>1, <1>3
<1> QED
  BY <1>1, <1>4, <1>5, <1>6, <1>7, <1>8, <1>9, <1>10, <1>11, <1>12 DEF Renumbers

\* They are in their places.
LEMMA SinglePlaced ==
  ASSUME NEW d \in Datasets, TypeOK, NEW k \in Indices, NEW map, map = Shifted(k),
         FirstLack(d, k) = 0, NEW T, T = SingleSteps(d, k)
  PROVE  Placed({k}, map, T)
<1>1. /\ \A q \in T : q \in Steps /\ SingleStep(q, d, k, map)
      /\ \A q \in T : q = SingleAtPlace(q.at)
  BY SingleStepIs
<1>2. /\ \A n \in MediaDirs : /\ n \in Nat /\ n # 1 /\ n \in DOMAIN Stores /\ Stores[n] # "data"
                              /\ KindOf(n) \in 1 .. 3
      /\ \A n, m \in DOMAIN Stores : Stores[n] = Stores[m] => n = m
  <2>1. \A n \in MediaDirs : n \in Nat /\ n # 1 /\ n \in DOMAIN Stores /\ Stores[n] # "data"
    BY DataIsStore DEF MediaDirs
  <2>2. \A n \in MediaDirs : KindOf(n) \in 1 .. 3
    BY <2>1, KindIs
  <2>3. \A n, m \in DOMAIN Stores : Stores[n] = Stores[m] => n = m
    BY EditAssumption DEF IsInjective
  <2> QED
    BY <2>1, <2>2, <2>3
<1>3. ASSUME NEW q \in T, Moves(q)
      PROVE  /\ q.from \in DOMAIN map \cap Indices /\ q.to = map[q.from] /\ q.to \in Indices
             /\ q.to < q.from /\ q.at[2] = q.from /\ q.at[1] >= 4
  <2>1. /\ q.from \in DOMAIN map \cap Indices /\ q.to = map[q.from] /\ q.to \in Indices
        /\ q.to < q.from
    BY <1>3, SingleMoves
  <2>2. \/ q.in = "data" /\ q.at = <<4, q.from, 0>>
        \/ \E n \in MediaDirs : q.in = Stores[n] /\ q.at = <<4 + KindOf(n), q.from, n>>
    BY <1>3, SingleMoves
  <2>3. q.at[2] = q.from /\ q.at[1] >= 4
    BY <1>2, <2>2
  <2> QED
    BY <2>1, <2>3
<1>4. ASSUME NEW q \in T, NEW p \in T, Moves(q), Moves(p), q.in = p.in
      PROVE  q.at[1] = p.at[1] /\ q.at[3] = p.at[3]
  <2>1. \/ q.in = "data" /\ q.at = <<4, q.from, 0>>
        \/ \E n \in MediaDirs : q.in = Stores[n] /\ q.at = <<4 + KindOf(n), q.from, n>>
    BY <1>4, SingleMoves
  <2>2. \/ p.in = "data" /\ p.at = <<4, p.from, 0>>
        \/ \E n \in MediaDirs : p.in = Stores[n] /\ p.at = <<4 + KindOf(n), p.from, n>>
    BY <1>4, SingleMoves
  <2>3. CASE q.in = "data"
    <3>1. q.at = <<4, q.from, 0>> /\ p.at = <<4, p.from, 0>>
      BY <1>2, <1>4, <2>1, <2>2, <2>3
    <3> QED
      BY <3>1
  <2>4. CASE q.in # "data"
    <3>1. PICK n \in MediaDirs : q.in = Stores[n] /\ q.at = <<4 + KindOf(n), q.from, n>>
      BY <2>1, <2>4
    <3>2. PICK m \in MediaDirs : p.in = Stores[m] /\ p.at = <<4 + KindOf(m), p.from, m>>
      BY <1>4, <2>2, <2>4
    <3>3. n = m
      BY <1>2, <1>4, <3>1, <3>2
    <3> QED
      BY <3>1, <3>2, <3>3
  <2> QED
    BY <2>3, <2>4
<1>5. \A q \in T : q.op = "unlink" =>
        q.from \in {k} /\ \E n \in DOMAIN Stores :
                            q.in = Stores[n] /\ q.at = <<KindOf(n), q.from, n>>
  BY <1>1 DEF SingleStep
<1>6. \A q \in T : q.op # "copy" /\ q.op # "raise"
  BY <1>1 DEF SingleStep
<1>7. ASSUME NEW q \in T, q.op = "rename", q.in = "data"
      PROVE  /\ q.from = q.to + 1
             /\ \E p \in T : p.op = "patch" /\ p.to = q.to /\ Follows(q, p)
  <2>1. /\ q.from \in In(d, "data") \cap DOMAIN map \cap Indices
        /\ q.to = map[q.from] /\ q.to = q.from - 1 /\ q.from \in Nat
        /\ \/ q.at = <<4, q.from, 0>>
           \/ \E n \in MediaDirs : q.in = Stores[n]
    BY <1>7, SingleMoves DEF Moves
  <2>2. q.at = <<4, q.from, 0>> /\ q.from = q.to + 1 /\ map[q.from] # q.from
    BY <1>2, <1>7, <2>1
  <2>3. q.from \in Renamed(d, "data", map)
    BY <2>1, <2>2 DEF Renamed
  <2>4. Patches(T, q.from)
    BY <2>3, SingleHas
  <2>5. PICK p \in T : p.op = "patch" /\ p.to = q.from - 1 /\ p.at = <<4, q.from, 1>>
    BY <2>4 DEF Patches
  <2>6. Follows(q, p)
    BY <2>2, <2>5 DEF Follows
  <2> QED
    BY <2>1, <2>2, <2>5, <2>6
<1>8. \A p \in T : p.op = "patch" =>
        \E q \in T : q.op = "rename" /\ q.in = "data" /\ q.to = p.to /\ Follows(q, p)
  BY SinglePatches
<1>9. ASSUME NEW q \in T, NEW p \in T, q.op = p.op,
             q.op = "info" \/ (q.op = "rows" /\ q.in = p.in)
      PROVE  q = p
  <2>1. CASE q.op = "info"
    <3>1. q.at = <<Last + 1, 0, 0>> /\ p.at = <<Last + 1, 0, 0>>
      BY <1>1, <1>9, <2>1 DEF SingleStep
    <3> QED
      BY <1>1, <3>1
  <2>2. CASE q.op = "rows" /\ q.in = p.in
    <3>1. PICK n \in DOMAIN RowFiles : q.in = RowFiles[n] /\ q.at = <<Last, n, 0>>
      BY <1>1, <2>2 DEF SingleStep
    <3>2. PICK m \in DOMAIN RowFiles : p.in = RowFiles[m] /\ p.at = <<Last, m, 0>>
      BY <1>1, <1>9, <2>2 DEF SingleStep
    <3>3. n = m
      BY <2>2, <3>1, <3>2, RowFilesDiffer
    <3> QED
      BY <1>1, <3>1, <3>2, <3>3
  <2> QED
    BY <1>9, <2>1, <2>2
<1>10. T \in SUBSET Steps /\ \A q, p \in T : q.at = p.at => q = p
  BY <1>1
<1> QED
  BY <1>3, <1>4, <1>5, <1>6, <1>7, <1>8, <1>9, <1>10 DEF Placed

\* The natural numbers are well-ordered by less-than.
LEMMA NatIsWellOrdered ==
  \E R : IsWellFoundedOn(R, Nat) /\ \A n, m \in Nat : <<m, n>> \in R <=> m < n
<1>1. PICK R : R = OpToRel(<, Nat)
  OBVIOUS
<1>2. IsWellFoundedOn(R, Nat)
  BY <1>1, NatLessThanWellFounded
<1>3. \A n, m \in Nat : <<m, n>> \in R <=> m < n
  BY <1>1 DEF OpToRel
<1> QED
  BY <1>2, <1>3

\* A set of natural numbers has a smallest.
LEMMA Smallest ==
  ASSUME NEW S \in SUBSET Nat, S # {}
  PROVE  \E n \in S : \A m \in S : n <= m
<1>1. PICK R : IsWellFoundedOn(R, Nat) /\ \A n, m \in Nat : <<m, n>> \in R <=> m < n
  BY NatIsWellOrdered
<1>2. \E n \in S : \A m \in S : ~(<<m, n>> \in R)
  BY <1>1, WFMin
<1>3. PICK n \in S : \A m \in S : ~(<<m, n>> \in R)
  BY <1>2
<1>4. ASSUME NEW m \in S
      PROVE  n <= m
  <2>1. ~(m < n)
    BY <1>1, <1>3
  <2>2. m \in Nat /\ n \in Nat
    OBVIOUS
  <2> QED
    BY <2>1, <2>2
<1> QED
  BY <1>4

\* What a dataset has is data/, and directories from the first on.
LEMMA HeldAre ==
  ASSUME NEW d
  PROVE  /\ Held(d) \subseteq DOMAIN Stores /\ 1 \in Held(d)
         /\ \A n \in Held(d) : \A m \in DOMAIN Stores : m < n => m \in Held(d)
<1>1. /\ DOMAIN Stores = 1 .. Len(Stores) /\ Len(Stores) \in Nat
      /\ Len(Stores) = 1 + Len(Media) /\ Len(Videos) \in Nat /\ Len(Videos) <= Len(Media)
  BY DataIsStore
<1>2. CASE Held(d) = DOMAIN Stores
  BY <1>1, <1>2
<1>3. CASE Held(d) = 1 .. Len(Videos) + 1
  BY <1>1, <1>3
<1> QED
  BY <1>2, <1>3 DEF Held

\* FirstLack is the first directory without the file, or 0 when there is none.
LEMMA FirstLackIs ==
  ASSUME NEW d \in Datasets, NEW k \in Indices
  PROVE  LET n == FirstLack(d, k)
         IN  /\ n = 0 => k \in In(d, "data")
             /\ n # 0 => /\ n \in DOMAIN Stores /\ n \in Nat /\ k \notin In(d, Stores[n])
                         /\ \A m \in DOMAIN Stores : m < n => k \in In(d, Stores[m])
<1> DEFINE n == FirstLack(d, k)
<1>1. DOMAIN Stores = 1 .. Len(Stores) /\ Len(Stores) \in Nat /\ Stores[1] = "data"
  BY DataIsStore
<1>2. CASE Lacks(d, k) = {}
  <2>1. n = 0
    BY <1>2 DEF FirstLack
  <2>2. k \in In(d, Stores[1])
    BY <1>2, HeldAre DEF Lacks
  <2> QED
    BY <1>1, <2>1, <2>2
<1>3. CASE Lacks(d, k) # {}
  <2>1. Lacks(d, k) \in SUBSET Nat /\ Lacks(d, k) \subseteq DOMAIN Stores
    BY <1>1, HeldAre DEF Lacks
  <2>2. \E i \in Lacks(d, k) : \A m \in Lacks(d, k) : i <= m
    BY <1>3, <2>1, Smallest
  <2>3. n \in Lacks(d, k) /\ \A m \in Lacks(d, k) : n <= m
    BY <1>3, <2>2 DEF FirstLack
  <2>4. n \in Held(d) /\ n \in DOMAIN Stores /\ n \in Nat /\ n # 0 /\ k \notin In(d, Stores[n])
    BY <1>1, <2>1, <2>3 DEF Lacks
  <2> HIDE DEF n
  <2>5. ASSUME NEW m \in DOMAIN Stores, m < n
        PROVE  k \in In(d, Stores[m])
    <3>1. m \notin Lacks(d, k)
      BY <1>1, <2>3, <2>4, <2>5
    <3>2. m \in Held(d)
      BY <2>4, <2>5, HeldAre
    <3> QED
      BY <3>1, <3>2 DEF Lacks
  <2>6. n = FirstLack(d, k)
    BY DEF n
  <2> QED
    BY <2>4, <2>5, <2>6
<1> QED
  BY <1>2, <1>3

----------------------------------------------------------------------------
(* Deletions: their requests.                                              *)

\* The dataset is good when the request to delete has come.
LEMMA RenumberingIsGood ==
  ASSUME NEW d \in Datasets, NEW D, NEW map, NEW T,
         Requested(d, map, T), Renumbers(d, D, map, T), Named(d, D) \subseteq asked'[d],
         state'[d] # "adrift" => Sound(d) \/ Indices \subseteq D \cup DOMAIN map,
         state'[d] = "exact" => Counted(d)'
  PROVE  Good(d)'
<1>1. Feasible(d)' /\ Spared(d)'
  BY FeasibleWhenRenumbered
<1>2. state'[d] # "adrift" => Room(d)'
  BY RoomWhenRenumbered
<1>3. state'[d] # "adrift" => Kept(d)'
  BY FilesAtRequest DEF Requested, Good
<1>4. Sound(d)' => MediaAgree(d)' /\ RowsAgree(d)' /\ ColumnsAgree(d)'
  BY AgreeWhenRenumbered DEF Requested
<1> QED
  BY <1>1, <1>2, <1>3, <1>4 DEF Good

\* When the indices exist, as many episodes are gone as the request names.
LEMMA BatchCounted ==
  ASSUME NEW d \in Datasets, NEW D \in SUBSET Indices, NEW map, map = Renumbered(d, D),
         NEW T, T = BatchSteps(d, D), Requested(d, map, T),
         Counted(d), D \subseteq In(d, "data")
  PROVE  Counted(d)'
<1>1. TypeOK /\ Todo(d) = {} /\ count[d] \in Nat
  BY DEF Requested, TypeOK
<1>2. \A i \in In(d, "data") : i < count[d]
  BY <1>1, CountedAtRest
<1>3. Cardinality(D) \in Nat
  BY IndicesFinite
<1>4. Under(D, count[d]) = D /\ Cardinality(D) <= count[d]
  <2>1. Under(D, count[d]) = D
    BY <1>2 DEF Under
  <2>2. Cardinality(Under(D, count[d])) <= count[d]
    BY <1>1, FewUnder
  <2> QED
    BY <2>1, <2>2
<1>5. ASSUME NEW i \in DOMAIN map, i < count[d]
      PROVE  map[i] < count[d] - Cardinality(D)
  <2>1. In(d, "data") \cap D = D
    OBVIOUS
  <2>2. /\ i \in Indices /\ map[i] \in Indices /\ i \notin D
        /\ map[i] = i - Cardinality(Under(D, i))
    BY <1>1, <2>1, RenumberedIs
  <2>3. i \in Nat /\ map[i] \in Nat
    BY <2>2, EditAssumption DEF Indices
  <2>4. Cardinality(Under(D, i)) \in Nat
    BY <2>3, FewUnder
  <2>5. Cardinality(Under(D, count[d])) <= Cardinality(Under(D, i)) + (count[d] - i - 1)
    BY <1>1, <1>5, <2>2, <2>3, FewBetween
  <2> QED
    BY <1>1, <1>3, <1>4, <2>2, <2>3, <2>4, <2>5
<1>6. \A q \in T : q.op = "info" => q.from = Cardinality(D)
  BY <1>1, BatchStepIs DEF BatchStep
<1>7. \E q \in T : q.op = "info"
  BY <1>1, BatchHas
<1>8. Renumbers(d, D, map, T)
  BY <1>1, BatchRenumbers
<1> QED
  BY <1>3, <1>4, <1>5, <1>6, <1>7, <1>8, CountedWhenRenumbered

\* When one episode is deleted, the indices behind it are one less.
LEMMA SingleCounted ==
  ASSUME NEW d \in Datasets, NEW k \in Indices, NEW map, map = Shifted(k),
         NEW T, T = SingleSteps(d, k), FirstLack(d, k) = 0, Requested(d, map, T), Counted(d)
  PROVE  Counted(d)'
<1>1. TypeOK /\ Todo(d) = {} /\ count[d] \in Nat
  BY DEF Requested, TypeOK
<1>2. k \in In(d, "data") /\ k < count[d]
  BY <1>1, CountedAtRest, FirstLackIs, DataIsStore
<1>3. k \in Nat
  BY EditAssumption DEF Indices
<1>4. ASSUME NEW i \in DOMAIN map, i < count[d]
      PROVE  map[i] < count[d] - 1
  <2>1. i \in Indices /\ i # k /\ map[i] = IF i > k THEN i - 1 ELSE i
    BY ShiftedIs
  <2>2. i \in Nat
    BY <2>1, EditAssumption DEF Indices
  <2> QED
    BY <1>1, <1>2, <1>3, <1>4, <2>1, <2>2
<1>5. \A q \in T : q.op = "info" => q.from = 1
  BY <1>1, SingleStepIs DEF SingleStep
<1>6. \E q \in T : q.op = "info"
  BY <1>1, SingleHas
<1>7. Renumbers(d, {k}, map, T)
  BY <1>1, SingleRenumbers
<1>8. 1 \in Nat /\ 1 <= count[d]
  BY <1>1, <1>2, <1>3
<1> QED
  BY <1>4, <1>5, <1>6, <1>7, <1>8, CountedWhenRenumbered

\* What is named are episodes.
LEMMA NamedOK ==
  ASSUME NEW d \in Datasets, NEW D, TypeOK
  PROVE  Named(d, D) \in SUBSET Episode
<1> SUFFICES ASSUME NEW e \in Named(d, D)
             PROVE  e \in Episode
  OBVIOUS
<1>1. PICK s \in Range(Stores), i \in D : i \in In(d, s) /\ e = files[d][s][i].episode
  BY DEF Named
<1>2. files[d][s] \in FileMaps
  BY DEF TypeOK
<1>3. files[d][s][i] \in Contents
  BY <1>1, <1>2 DEF FileMaps, In
<1> QED
  BY <1>1, <1>3 DEF Contents

\* A request has come for the dataset d.
Arrives(d) ==
  /\ job = NoJob /\ TypeOK
  /\ job' \in [kind : Kinds, on : Datasets, map : IndexMaps, todo : SUBSET Steps]
  /\ job'.on = d
  /\ files' = files /\ rows' = rows /\ count' = count
  /\ \A e \in Datasets \ {d} : asked'[e] = asked[e] /\ state'[e] = state[e]

\* Before and after a request nothing is to be done for the other datasets.
LEMMA BeforeRequest ==
  ASSUME NEW d \in Datasets, Arrives(d)
  PROVE  /\ \A e \in Datasets : Todo(e) = {} /\ ~Merging(e)
         /\ Todo(d)' = job'.todo
         /\ \A e \in Datasets \ {d} : Todo(e)' = {} /\ ~Merging(e)'
<1>1. NoJob.kind = "none" /\ NoJob.todo = {}
  BY NoJobOK DEF Arrives
<1> QED
  BY <1>1 DEF Arrives, Todo, Merging

\* The other datasets stay good at a request.
LEMMA OthersAtRequest ==
  ASSUME NEW d \in Datasets, Arrives(d), NEW e \in Datasets \ {d}, Good(e)
  PROVE  Good(e)' /\ MergedOver(e)' /\ ExactMerge(e)'
<1>1. Todo(e) = {} /\ ~Merging(e) /\ Todo(e)' = {} /\ ~Merging(e)'
  BY BeforeRequest
<1>2. /\ files'[e] = files[e] /\ rows'[e] = rows[e] /\ count'[e] = count[e]
      /\ asked'[e] = asked[e] /\ state'[e] = state[e]
  BY DEF Arrives
<1>3. Good(e)'
  BY <1>1, <1>2, GoodStays
<1>4. MergedOver(e)' /\ ExactMerge(e)'
  BY <1>1 DEF MergedOver, ExactMerge
<1> QED
  BY <1>3, <1>4

\* The parts of the invariant at a request to delete.
LEMMA DeletionArrives ==
  ASSUME IInv, NEW d \in Datasets, Arrives(d), Good(d)', Ordered(job'.todo),
         job'.kind \in {"batch", "single"}, \A q \in job'.todo : q.op \notin MergeOps
  PROVE  /\ KindsOfSteps' /\ MergesFit' /\ Ordered(job.todo)'
         /\ \A e \in Datasets : Good(e)' /\ MergedOver(e)' /\ ExactMerge(e)'
<1>1. KindsOfSteps' /\ MergesFit'
  BY DEF KindsOfSteps, MergesFit
<1>2. Ordered(job.todo)'
  BY DEF Ordered, Earlier, Follows, Takes, Moves, NextIn
<1>3. MergedOver(d)' /\ ExactMerge(d)'
  BY DEF MergedOver, ExactMerge, Merging
<1>4. \A e \in Datasets : Good(e)' /\ MergedOver(e)' /\ ExactMerge(e)'
  BY <1>3, OthersAtRequest DEF IInv
<1> QED
  BY <1>1, <1>2, <1>4

\* The fields of a request.
LEMMA JobIs ==
  ASSUME NEW kind \in Kinds, NEW d \in Datasets, NEW map \in IndexMaps, NEW T \in SUBSET Steps
  PROVE  LET j == Job(kind, d, map, T)
         IN  /\ j \in [kind : Kinds, on : Datasets, map : IndexMaps, todo : SUBSET Steps]
             /\ j.kind = kind /\ j.on = d /\ j.map = map /\ j.todo = T
BY DEF Job

\* Worse gives a state, and leaves the other datasets theirs.
LEMMA WorseIs ==
  ASSUME TypeOK, NEW d \in Datasets, NEW to \in {"aligned", "broken"}
  PROVE  LET w == Worse(d, to)
         IN  /\ w \in [Datasets -> {"exact", "aligned", "broken", "adrift"}]
             /\ \A e \in Datasets \ {d} : w[e] = state[e]
             /\ w[d] = IF state[d] \in {"broken", "adrift"} THEN state[d] ELSE to
BY DEF Worse, TypeOK

\* The request to delete several episodes. From a broken dataset the renumbering
\* may overwrite what nobody asked for: it is adrift.
LEMMA BatchRequests ==
  ASSUME IInv, NEW d \in Datasets, NEW D \in SUBSET Indices, DeleteBatch(d, D),
         NEW T, T = BatchSteps(d, D), NEW m, m = Renumbered(d, D)
  PROVE  /\ TypeOK /\ TypeOK' /\ Arrives(d) /\ Requested(d, m, T) /\ Renumbers(d, D, m, T)
         /\ Ordered(T) /\ job'.kind = "batch" /\ job'.todo = T
         /\ \A q \in T : q.op \notin MergeOps
         /\ asked'[d] = asked[d] \cup Named(d, D)
         /\ state'[d] = IF state[d] = "broken" THEN "adrift"
                        ELSE IF D \subseteq In(d, "data") \/ state[d] = "adrift" THEN state[d]
                        ELSE "aligned"
<1>1. /\ TypeOK /\ job = NoJob /\ job' = Job("batch", d, m, T) /\ edits' = edits + 1
      /\ files' = files /\ rows' = rows /\ count' = count /\ faults' = faults
      /\ asked' = [asked EXCEPT ![d] = @ \cup Named(d, D)]
      /\ state' = IF state[d] = "broken" THEN [state EXCEPT ![d] = "adrift"]
                  ELSE IF D \subseteq In(d, "data") THEN state ELSE Worse(d, "aligned")
  BY DEF IInv, DeleteBatch, Request, Asks
<1>2. /\ Renumbers(d, D, m, T) /\ Placed(D, m, T) /\ m \in IndexMaps
      /\ \A i, k \in DOMAIN m : m[i] = m[k] => i = k
  BY <1>1, BatchRenumbers, BatchPlaced, RenumberedIs
<1>3. T \in SUBSET Steps /\ \A q \in T : q.op \notin MergeOps
  <2>1. \A q \in T : q \in Steps /\ BatchStep(q, d, D, m)
    BY <1>1, BatchStepIs
  <2> QED
    BY <2>1 DEF BatchStep, MergeOps
<1>4. Ordered(T)
  BY <1>2, PlacedIsOrdered DEF Renumbers
<1>5. /\ job' \in [kind : Kinds, on : Datasets, map : IndexMaps, todo : SUBSET Steps]
      /\ job'.kind = "batch" /\ job'.on = d /\ job'.map = m /\ job'.todo = T
  BY <1>1, <1>2, <1>3, JobIs DEF Kinds
<1>6. /\ state' \in [Datasets -> {"exact", "aligned", "broken", "adrift"}]
      /\ \A e \in Datasets \ {d} : state'[e] = state[e]
      /\ state'[d] = IF state[d] = "broken" THEN "adrift"
                     ELSE IF D \subseteq In(d, "data") \/ state[d] = "adrift" THEN state[d]
                     ELSE "aligned"
  <2>1. state \in [Datasets -> {"exact", "aligned", "broken", "adrift"}]
    BY <1>1 DEF TypeOK
  <2>2. CASE state[d] = "broken"
    BY <1>1, <2>1, <2>2
  <2>3. CASE state[d] # "broken" /\ D \subseteq In(d, "data")
    BY <1>1, <2>1, <2>3
  <2>4. CASE state[d] # "broken" /\ ~(D \subseteq In(d, "data"))
    BY <1>1, <2>1, <2>4, WorseIs
  <2> QED
    BY <2>2, <2>3, <2>4
<1>7. /\ asked' \in [Datasets -> SUBSET Episode]
      /\ asked'[d] = asked[d] \cup Named(d, D)
      /\ \A e \in Datasets \ {d} : asked'[e] = asked[e]
  BY <1>1, NamedOK DEF TypeOK
<1>8. TypeOK'
  BY <1>1, <1>5, <1>6, <1>7 DEF TypeOK
<1>9. Arrives(d)
  BY <1>1, <1>5, <1>6, <1>7 DEF Arrives
<1>10. Requested(d, m, T)
  <2>1. Todo(d) = {} /\ ~Merging(d) /\ Todo(d)' = T
    BY <1>5, <1>9, BeforeRequest
  <2>2. Good(d)
    BY DEF IInv
  <2>3. state[d] \in {"exact", "aligned", "broken", "adrift"}
    BY <1>1 DEF TypeOK
  <2> QED
    BY <1>1, <1>5, <1>6, <1>7, <2>1, <2>2, <2>3 DEF Requested, Sound
<1> QED
  BY <1>1, <1>2, <1>3, <1>4, <1>5, <1>6, <1>7, <1>8, <1>9, <1>10

\* It keeps the invariant.
LEMMA BatchKeepsIInv ==
  ASSUME IInv, NEW d \in Datasets, NEW D \in SUBSET Indices, DeleteBatch(d, D)
  PROVE  IInv'
<1>1. PICK T : T = BatchSteps(d, D)
  OBVIOUS
<1>2. PICK m : m = Renumbered(d, D)
  OBVIOUS
<1>3. /\ TypeOK /\ TypeOK' /\ Arrives(d) /\ Requested(d, m, T) /\ Renumbers(d, D, m, T)
      /\ Ordered(T) /\ job'.kind = "batch" /\ job'.todo = T
      /\ \A q \in T : q.op \notin MergeOps
      /\ asked'[d] = asked[d] \cup Named(d, D)
      /\ state'[d] = IF state[d] = "broken" THEN "adrift"
                     ELSE IF D \subseteq In(d, "data") \/ state[d] = "adrift" THEN state[d]
                     ELSE "aligned"
  BY <1>1, <1>2, BatchRequests
<1>4. Good(d)'
  <2>1. state[d] \in {"exact", "aligned", "broken", "adrift"}
    BY <1>3 DEF TypeOK
  <2>2. state'[d] # "adrift" => Sound(d)
    BY <1>3, <2>1 DEF Sound
  <2>3. state'[d] = "exact" => Counted(d)'
    <3>1. state'[d] = "exact" => Counted(d) /\ D \subseteq In(d, "data")
      BY <1>3 DEF Requested, Good
    <3> QED
      BY <1>1, <1>2, <1>3, <3>1, BatchCounted
  <2> QED
    BY <1>3, <2>2, <2>3, RenumberingIsGood
<1>5. /\ KindsOfSteps' /\ MergesFit' /\ Ordered(job.todo)'
      /\ \A e \in Datasets : Good(e)' /\ MergedOver(e)' /\ ExactMerge(e)'
  BY <1>3, <1>4, DeletionArrives
<1> QED
  BY <1>3, <1>5 DEF IInv

\* A deletion that finds a file missing unlinks what comes before it.
LEMMA LackStepsAre ==
  ASSUME NEW d \in Datasets, TypeOK, NEW k \in Indices, NEW n, n = FirstLack(d, k), n # 0,
         NEW T, T = SingleSteps(d, k)
  PROVE  /\ T \in SUBSET Steps /\ Ordered(T)
         /\ \A q \in T : q.op \in {"unlink", "raise"}
         /\ \A q \in T : q.op = "unlink" =>
              /\ q.from = k /\ q.to = k
              /\ q.in \in Range(Stores) /\ k \in In(d, q.in) /\ n # 1
         /\ n # 1 => \E u \in T : u.op = "unlink" /\ u.in = "data" /\ u.from = k
<1>1. /\ n \in DOMAIN Stores /\ n \in Nat
      /\ \A m \in DOMAIN Stores : m < n => k \in In(d, Stores[m])
  BY FirstLackIs
<1>2. /\ DOMAIN Stores = 1 .. Len(Stores) /\ Len(Stores) \in Nat /\ Stores[1] = "data"
      /\ \A m \in DOMAIN Stores : Stores[m] \in Range(Stores) /\ Stores[m] \in Places
      /\ "data" \in Places
  BY DataIsStore DEF Range, Places
<1>3. k \in Nat
  BY EditAssumption DEF Indices
<1>4. \A q : q \in T <=> \/ UnlinksOne(q, d, 1 .. n - 1, {k})
                         \/ q = Step(<<4, 0, 0>>, "raise", "data", k, k)
  BY UnlinksAre DEF SingleSteps
<1> DEFINE Taken(q) == \E m \in 1 .. n - 1 :
                         /\ q.in = Stores[m] /\ q.at = <<KindOf(m), k, m>> /\ m \in DOMAIN Stores
                         /\ k \in In(d, Stores[m]) /\ KindOf(m) \in 1 .. 3 /\ m \in Nat
<1>5. ASSUME NEW q, UnlinksOne(q, d, 1 .. n - 1, {k})
      PROVE  /\ q \in Steps /\ q.op = "unlink" /\ q.from = k /\ q.to = k /\ n # 1
             /\ q.in \in Range(Stores) /\ k \in In(d, q.in) /\ Taken(q)
             /\ q = Unlink(q.at, q.in, k)
  <2>1. PICK m \in 1 .. n - 1 : \E i \in {k} \cap In(d, Stores[m]) :
          q = Unlink(<<KindOf(m), i, m>>, Stores[m], i)
    BY <1>5 DEF UnlinksOne
  <2>2. k \in In(d, Stores[m]) /\ q = Unlink(<<KindOf(m), k, m>>, Stores[m], k)
    BY <2>1
  <2>3. m \in DOMAIN Stores /\ m \in Nat /\ n # 1
    BY <1>1, <1>2
  <2>4. KindOf(m) \in 1 .. 3
    BY <2>3, KindIs
  <2>5. /\ q.at = <<KindOf(m), k, m>> /\ q.op = "unlink" /\ q.in = Stores[m]
        /\ q.from = k /\ q.to = k /\ q \in Steps
    BY <1>2, <1>3, <2>2, <2>3, <2>4, StepIs DEF Unlink, FileOps
  <2> QED
    BY <1>2, <2>2, <2>3, <2>4, <2>5
<1>6. ASSUME NEW q, q = Step(<<4, 0, 0>>, "raise", "data", k, k)
      PROVE  q \in Steps /\ q.op = "raise" /\ q.at = <<4, 0, 0>>
  BY <1>2, <1>3, <1>6, StepIs DEF FileOps
<1> HIDE DEF Taken
<1>7. T \in SUBSET Steps /\ \A q \in T : q.op \in {"unlink", "raise"}
  BY <1>4, <1>5, <1>6
<1>8. \A q \in T : q.op = "unlink" =>
        /\ q.from = k /\ q.to = k /\ q.in \in Range(Stores) /\ k \in In(d, q.in) /\ n # 1
        /\ Taken(q) /\ q = Unlink(q.at, q.in, k)
  BY <1>4, <1>5, <1>6
<1>9. \A q \in T : q.op = "raise" =>
        q.at = <<4, 0, 0>> /\ q = Step(<<4, 0, 0>>, "raise", "data", k, k)
  BY <1>4, <1>5, <1>6
<1>10. ASSUME NEW q \in T, NEW p \in T, q.op = "unlink", p.op = "unlink",
              q.in = p.in \/ q.at = p.at
       PROVE  q = p
  <2>1. PICK m \in 1 .. n - 1 :
          q.in = Stores[m] /\ q.at = <<KindOf(m), k, m>> /\ m \in DOMAIN Stores
    BY <1>8, <1>10 DEF Taken
  <2>2. PICK l \in 1 .. n - 1 :
          p.in = Stores[l] /\ p.at = <<KindOf(l), k, l>> /\ l \in DOMAIN Stores
    BY <1>8, <1>10 DEF Taken
  <2>3. m = l
    <3>1. CASE q.in = p.in
      BY <2>1, <2>2, <3>1, EditAssumption DEF IsInjective
    <3>2. CASE q.at = p.at
      BY <2>1, <2>2, <3>2
    <3> QED
      BY <1>10, <3>1, <3>2
  <2>4. q.at = p.at /\ q.in = p.in
    BY <2>1, <2>2, <2>3
  <2> QED
    BY <1>8, <1>10, <2>4
<1>11. ASSUME NEW q \in T, NEW p \in T, q.op = "unlink", p.op = "raise"
       PROVE  Earlier(q, p) /\ q.at # p.at
  <2>1. PICK m \in 1 .. n - 1 : q.at = <<KindOf(m), k, m>> /\ KindOf(m) \in 1 .. 3
    BY <1>8, <1>11 DEF Taken
  <2>2. p.at = <<4, 0, 0>>
    BY <1>9, <1>11
  <2>3. q.at[1] \in 1 .. 3 /\ p.at[1] = 4
    BY <2>1, <2>2
  <2>4. q.at[1] < p.at[1]
    BY <2>3
  <2> QED
    BY <2>3, <2>4 DEF Earlier
<1>12. \A q, p \in T : q.op = "raise" /\ p.op = "raise" => q = p
  BY <1>9
<1>13. \A q \in T : ~Moves(q) /\ q.op \notin {"copy", "rename", "patch", "info", "rows"}
  BY <1>7 DEF Moves
<1>14. Ordered(T)
  <2>1. \A q, p \in T : q.at = p.at => q = p
    <3> SUFFICES ASSUME NEW q \in T, NEW p \in T, q.at = p.at
                 PROVE  q = p
      OBVIOUS
    <3>1. CASE q.op = "unlink" /\ p.op = "unlink"
      BY <1>10, <3>1
    <3>2. CASE q.op = "raise" /\ p.op = "raise"
      BY <1>12, <3>2
    <3>3. CASE q.op # p.op
      BY <1>7, <1>11, <3>3
    <3> QED
      BY <1>7, <3>1, <3>2, <3>3
  <2>2. \A q, p \in T : q # p /\ q.op = "unlink" /\ p.op = "unlink" /\ q.in = p.in =>
          q.from # p.from
    BY <1>10
  <2>3. \A q, p \in T : q # p /\ p.op = "raise" => Earlier(q, p)
    BY <1>7, <1>11, <1>12
  <2> QED
    BY <1>13, <2>1, <2>2, <2>3 DEF Ordered
<1>15. n # 1 => \E u \in T : u.op = "unlink" /\ u.in = "data" /\ u.from = k
  <2> SUFFICES ASSUME n # 1
               PROVE  \E u \in T : u.op = "unlink" /\ u.in = "data" /\ u.from = k
    OBVIOUS
  <2>1. 1 \in 1 .. n - 1 /\ 1 \in DOMAIN Stores /\ k \in In(d, Stores[1])
    BY <1>1, <1>2
  <2>2. PICK u : u = Unlink(<<KindOf(1), k, 1>>, Stores[1], k)
    OBVIOUS
  <2>3. UnlinksOne(u, d, 1 .. n - 1, {k})
    BY <2>1, <2>2 DEF UnlinksOne
  <2>4. u \in T
    BY <1>4, <2>3
  <2> QED
    BY <1>2, <2>2, <2>4, StepIs DEF Unlink
<1> QED
  BY <1>7, <1>8, <1>14, <1>15

\* The dataset is good then too: nothing is renumbered, and what is left over
\* was asked for.
LEMMA LackIsGood ==
  ASSUME NEW d \in Datasets, NEW k \in Indices, NEW n, n = FirstLack(d, k), n # 0,
         NEW T, T = SingleSteps(d, k), NEW map, Requested(d, map, T),
         Named(d, {k}) \subseteq asked'[d], n # 1 => state'[d] # "exact"
  PROVE  Good(d)'
<1>1. TypeOK /\ Todo(d) = {} /\ Good(d) /\ ~Merging(d)
  BY DEF Requested
<1>2. /\ T \in SUBSET Steps /\ \A q \in T : q.op \in {"unlink", "raise"}
      /\ \A q \in T : q.op = "unlink" =>
           q.from = k /\ q.to = k /\ q.in \in Range(Stores) /\ k \in In(d, q.in) /\ n # 1
      /\ n # 1 => \E u \in T : u.op = "unlink" /\ u.in = "data" /\ u.from = k
  BY <1>1, LackStepsAre
<1>3. /\ \A s : In(d, s)' = In(d, s) /\ \A i : Ep(d, s, i)' = Ep(d, s, i)
      /\ \A s \in Range(Stores) : In(d, s) \in SUBSET Indices
      /\ Kept(d) => Kept(d)'
      /\ Todo(d)' = T /\ rows' = rows /\ files' = files /\ count' = count
      /\ asked[d] \subseteq asked'[d]
  BY FilesAtRequest DEF Requested
<1>4. \A q \in T : ~Moves(q) /\ q.op \notin {"copy", "rows", "patch", "info"}
  BY <1>2 DEF Moves
<1>5. Feasible(d)'
  BY <1>2, <1>3, <1>4 DEF Feasible, Takes, Moves
<1>6. Spared(d)'
  <2> SUFFICES ASSUME NEW u \in T, u.op = "unlink"
               PROVE  Ep(d, u.in, u.from) \in asked'[d]
    BY <1>3 DEF Spared
  <2> QED
    BY <1>2, NamedAre
<1>7. Room(d)'
  BY <1>3, <1>4 DEF Room, Moves
<1>8. state'[d] # "adrift" => Kept(d)'
  BY <1>3 DEF Requested, Good
<1>9. /\ \A s, i, j : Goes(d, s, i, j)' <=>
           i \in In(d, s) /\ i = j /\ \A q \in T : q.op = "unlink" /\ q.in = s => q.from # i
      /\ \A r, q, j : RowGoes(d, r, q, j)' <=> q \in rows[d][r] /\ j = q.index
  BY <1>3, <1>4 DEF Goes, RowGoes, Takes, Moves
<1>10. ASSUME Sound(d)'
       PROVE  MediaAgree(d)' /\ RowsAgree(d)' /\ ColumnsAgree(d)'
  <2>1. Sound(d) /\ MediaAgree(d) /\ RowsAgree(d) /\ ColumnsAgree(d)
    BY <1>1, <1>10 DEF Requested, Good
  <2>2. MediaAgree(d)'
    <3> SUFFICES ASSUME NEW s \in Range(Media), NEW i \in Indices, NEW j \in Indices,
                        Goes(d, s, i, j)',
                        state'[d] = "exact" \/ Ep(d, s, i) \notin asked'[d]
                 PROVE  Goes(d, "data", i, j)' /\ Ep(d, "data", i) = Ep(d, s, i)
      BY <1>3 DEF MediaAgree
    <3>1. i \in In(d, s) /\ i = j
      BY <1>9
    <3>2. state[d] = "exact" \/ Ep(d, s, i) \notin asked[d]
      BY <1>3 DEF Requested
    <3>3. i \in In(d, "data") /\ Ep(d, "data", i) = Ep(d, s, i)
      BY <1>1, <2>1, <3>1, <3>2, AgreeAtRest
    <3>4. CASE n = 1
      BY <1>2, <1>9, <3>1, <3>3, <3>4
    <3>5. CASE n # 1
      <4>1. Ep(d, s, i) \notin asked'[d]
        BY <3>5
      <4>2. s \in Range(Stores)
        BY DataIsStore
      <4>3. i # k
        BY <3>1, <4>1, <4>2, NamedAre
      <4> QED
        BY <1>2, <1>9, <3>1, <3>3, <4>3
    <3> QED
      BY <3>4, <3>5
  <2>3. RowsAgree(d)'
    <3> SUFFICES ASSUME NEW r \in Range(RowFiles), NEW q \in rows[d][r],
                        NEW i \in Indices, NEW j \in Indices,
                        RowGoes(d, r, q, j)', Goes(d, "data", i, j)'
                 PROVE  q.episode = Ep(d, "data", i)
      BY <1>3 DEF RowsAgree
    <3>1. i \in In(d, "data") /\ i = j /\ j = q.index
      BY <1>9
    <3> QED
      BY <1>1, <2>1, <3>1, AgreeAtRest
  <2>4. ColumnsAgree(d)'
    <3>1. \A i \in In(d, "data") : files[d]["data"][i].column = i
      BY <1>1, <2>1, AgreeAtRest
    <3>2. ~ \E p \in Todo(d)' : p.op = "patch"
      BY <1>3, <1>4
    <3>3. \A i \in In(d, "data")' : files'[d]["data"][i].column = i
      BY <1>3, <3>1
    <3> QED
      BY <3>2, <3>3 DEF ColumnsAgree
  <2> QED
    BY <2>2, <2>3, <2>4
<1>11. state'[d] = "exact" => Counted(d)'
  <2> SUFFICES ASSUME state'[d] = "exact"
               PROVE  Counted(d)'
    OBVIOUS
  <2>1. state[d] = "exact" /\ Counted(d)
    BY <1>1 DEF Requested, Good
  <2>2. /\ \A i \in In(d, "data") : i < count[d]
        /\ \A r \in Range(RowFiles) : \A q \in rows[d][r] : q.index < count[d]
    BY <1>1, <2>1, CountedAtRest
  <2>3. BelowNext(d, count[d])
    BY <1>3, <1>9, <2>2 DEF BelowNext
  <2>4. Counted(d)' <=>
          /\ \A q \in T : q.op = "info" =>
               q.from <= count'[d] /\ BelowNext(d, count'[d] - q.from)
          /\ (\A q \in T : q.op # "info") => BelowNext(d, count'[d])
    BY <1>3 DEF Counted, Below, BelowNext
  <2> QED
    BY <1>3, <1>4, <2>3, <2>4
<1> QED
  BY <1>5, <1>6, <1>7, <1>8, <1>10, <1>11 DEF Good

\* The request to delete one episode. A deletion that finds a file missing unlinks
\* what comes before it.
LEMMA SingleRequests ==
  ASSUME IInv, NEW d \in Datasets, NEW k \in Indices, DeleteSingle(d, k),
         NEW T, T = SingleSteps(d, k), NEW m, m = Shifted(k), NEW n, n = FirstLack(d, k)
  PROVE  /\ TypeOK /\ TypeOK' /\ Arrives(d) /\ Requested(d, m, T) /\ Ordered(T)
         /\ n = 0 \/ (n \in Nat /\ n # 0)
         /\ n = 0 => Renumbers(d, {k}, m, T) /\ Indices \subseteq {k} \cup DOMAIN m
         /\ job'.kind = "single" /\ job'.todo = T
         /\ \A q \in T : q.op \notin MergeOps
         /\ asked'[d] = asked[d] \cup Named(d, {k})
         /\ n <= 1 => state'[d] = state[d]
         /\ ~(n <= 1) =>
              state'[d] = IF state[d] \in {"broken", "adrift"} THEN state[d] ELSE "aligned"
<1>1. /\ TypeOK /\ job = NoJob /\ job' = Job("single", d, m, T) /\ edits' = edits + 1
      /\ files' = files /\ rows' = rows /\ count' = count /\ faults' = faults
      /\ asked' = [asked EXCEPT ![d] = @ \cup Named(d, {k})]
      /\ state' = IF n <= 1 THEN state ELSE Worse(d, "aligned")
  BY DEF IInv, DeleteSingle, Request, Asks
<1>2. n = 0 \/ (n \in Nat /\ n # 0)
  BY FirstLackIs
<1>3. m \in IndexMaps /\ DOMAIN m = Indices \ {k}
  BY ShiftedIs
<1>4. /\ T \in SUBSET Steps /\ Ordered(T) /\ \A q \in T : q.op \notin MergeOps
      /\ n = 0 => Renumbers(d, {k}, m, T)
  <2>1. CASE n = 0
    <3>1. Renumbers(d, {k}, m, T) /\ Placed({k}, m, T)
      BY <1>1, <2>1, SingleRenumbers, SinglePlaced
    <3>2. Ordered(T)
      BY <3>1, PlacedIsOrdered DEF Renumbers
    <3>3. \A q \in T : q \in Steps /\ SingleStep(q, d, k, m)
      BY <1>1, <2>1, SingleStepIs
    <3>4. \A q \in T : q.op \notin MergeOps
      BY <3>3 DEF SingleStep, MergeOps
    <3> QED
      BY <3>1, <3>2, <3>3, <3>4
  <2>2. CASE n # 0
    <3>1. T \in SUBSET Steps /\ Ordered(T) /\ \A q \in T : q.op \in {"unlink", "raise"}
      BY <1>1, <2>2, LackStepsAre
    <3> QED
      BY <2>2, <3>1 DEF MergeOps
  <2> QED
    BY <2>1, <2>2
<1>5. /\ job' \in [kind : Kinds, on : Datasets, map : IndexMaps, todo : SUBSET Steps]
      /\ job'.kind = "single" /\ job'.on = d /\ job'.map = m /\ job'.todo = T
  BY <1>1, <1>3, <1>4, JobIs DEF Kinds
<1>6. /\ state' \in [Datasets -> {"exact", "aligned", "broken", "adrift"}]
      /\ \A e \in Datasets \ {d} : state'[e] = state[e]
      /\ n <= 1 => state'[d] = state[d]
      /\ ~(n <= 1) =>
           state'[d] = IF state[d] \in {"broken", "adrift"} THEN state[d] ELSE "aligned"
  <2>1. CASE n <= 1
    BY <1>1, <2>1 DEF TypeOK
  <2>2. CASE ~(n <= 1)
    BY <1>1, <2>2, WorseIs
  <2> QED
    BY <2>1, <2>2
<1>7. /\ asked' \in [Datasets -> SUBSET Episode]
       /\ asked'[d] = asked[d] \cup Named(d, {k})
       /\ \A e \in Datasets \ {d} : asked'[e] = asked[e]
  BY <1>1, NamedOK DEF TypeOK
<1>8. TypeOK'
  <2>1. state' \in [Datasets -> {"exact", "aligned", "broken", "adrift"}]
    BY <1>6
  <2>2. asked' \in [Datasets -> SUBSET Episode]
    BY <1>7
  <2>3. /\ files' = files /\ rows' = rows /\ count' = count /\ faults' = faults
        /\ edits' = edits + 1 /\ TypeOK
    BY <1>1
  <2> QED
    BY <1>5, <2>1, <2>2, <2>3 DEF TypeOK
<1>9. Arrives(d)
  BY <1>1, <1>5, <1>6, <1>7 DEF Arrives
<1>10. Requested(d, m, T)
  <2>1. Todo(d) = {} /\ ~Merging(d) /\ Todo(d)' = T
    BY <1>5, <1>9, BeforeRequest
  <2>2. Good(d)
    BY DEF IInv
  <2>3. state[d] \in {"exact", "aligned", "broken", "adrift"}
    BY <1>1 DEF TypeOK
  <2>4. CASE n <= 1
    BY <1>1, <1>5, <1>6, <1>7, <2>1, <2>2, <2>4 DEF Requested, Sound
  <2>5. CASE ~(n <= 1)
    BY <1>1, <1>5, <1>6, <1>7, <2>1, <2>2, <2>3, <2>5 DEF Requested, Sound
  <2> QED
    BY <2>4, <2>5
<1> QED
  BY <1>1, <1>2, <1>3, <1>4, <1>5, <1>6, <1>7, <1>8, <1>9, <1>10

\* It keeps the invariant.
LEMMA SingleKeepsIInv ==
  ASSUME IInv, NEW d \in Datasets, NEW k \in Indices, DeleteSingle(d, k)
  PROVE  IInv'
<1>1. PICK T : T = SingleSteps(d, k)
  OBVIOUS
<1>2. PICK m : m = Shifted(k)
  OBVIOUS
<1>3. PICK n : n = FirstLack(d, k)
  OBVIOUS
<1>4. /\ TypeOK /\ TypeOK' /\ Arrives(d) /\ Requested(d, m, T) /\ Ordered(T)
      /\ n = 0 \/ (n \in Nat /\ n # 0)
      /\ n = 0 => Renumbers(d, {k}, m, T) /\ Indices \subseteq {k} \cup DOMAIN m
      /\ job'.kind = "single" /\ job'.todo = T
      /\ \A q \in T : q.op \notin MergeOps
      /\ asked'[d] = asked[d] \cup Named(d, {k})
      /\ n <= 1 => state'[d] = state[d]
      /\ ~(n <= 1) =>
           state'[d] = IF state[d] \in {"broken", "adrift"} THEN state[d] ELSE "aligned"
  BY <1>1, <1>2, <1>3, SingleRequests
<1>5. Good(d)'
  <2>1. CASE n = 0
    <3>1. state'[d] = "exact" => Counted(d)'
      <4>1. state'[d] = "exact" => Counted(d)
        BY <1>4 DEF Requested, Good
      <4> QED
        BY <1>1, <1>2, <1>3, <1>4, <2>1, <4>1, SingleCounted
    <3> QED
      BY <1>4, <2>1, <3>1, RenumberingIsGood
  <2>2. CASE n # 0
    <3>1. n # 1 => state'[d] # "exact"
      BY <1>4, <2>2
    <3> QED
      BY <1>1, <1>3, <1>4, <2>2, <3>1, LackIsGood
  <2> QED
    BY <2>1, <2>2
<1>6. /\ KindsOfSteps' /\ MergesFit' /\ Ordered(job.todo)'
      /\ \A e \in Datasets : Good(e)' /\ MergedOver(e)' /\ ExactMerge(e)'
  BY <1>4, <1>5, DeletionArrives
<1> QED
  BY <1>4, <1>6 DEF IInv

----------------------------------------------------------------------------
(* Merges: their requests.                                                 *)

\* A share is a number.
LEMMA ShareOK ==
  ASSUME TypeOK, NEW x \in Datasets
  PROVE  Share(x) \in Nat
<1>1. count[x] \in Nat
  BY DEF TypeOK
<1>2. Cardinality(In(x, "data")) \in Nat
  <2>1. In(x, "data") \in SUBSET Indices
    BY MapsOK, DataIsStore
  <2> QED
    BY <2>1, IndicesFinite
<1> QED
  BY <1>1, <1>2 DEF Share

\* The kinds of steps of a merge.
MergeStep(q, x, y) ==
  \/ /\ q.op \in {"merge data", "merge meta", "merge videos"}
     /\ \/ q.in = x /\ q.from = 0
        \/ q.in = y /\ q.from = Share(x)
  \/ q.op = "clear"

\* The places of the steps that bring something over.
MergePlaces ==
  {<<1, 1, 0>>, <<1, 2, 0>>, <<3, 1, 0>>, <<3, 2, 0>>, <<4, 1, 0>>, <<4, 2, 0>>}

\* The steps of a merge, in their order.
LEMMA MergeStepsAre ==
  ASSUME TypeOK, NEW x \in Datasets, NEW y \in Datasets, NEW T, T = MergeSteps(x, y)
  PROVE  /\ T \in SUBSET Steps /\ Ordered(T)
         /\ \A q \in T : MergeStep(q, x, y)
         /\ \A at \in MergePlaces : \E q \in T : q.at = at
<1>1. Share(x) \in Nat /\ Share(y) \in Nat
  BY ShareOK
<1>2. x \in Places /\ y \in Places /\ "meta" \in Places
  BY DEF Places
<1> DEFINE a1 == Step(<<1, 1, 0>>, "merge data", x, 0, Share(x))
           a2 == Step(<<1, 2, 0>>, "merge data", y, Share(x), Share(y))
           c == Step(<<2, 0, 0>>, "clear", "meta", 0, 0)
           m1 == Step(<<3, 1, 0>>, "merge meta", x, 0, Share(x))
           m2 == Step(<<3, 2, 0>>, "merge meta", y, Share(x), Share(y))
           v1 == Step(<<4, 1, 0>>, "merge videos", x, 0, Share(x))
           v2 == Step(<<4, 2, 0>>, "merge videos", y, Share(x), Share(y))
<1>3. T = {a1, a2, c, m1, m2, v1, v2}
  BY DEF MergeSteps
<1>4. /\ a1.at = <<1, 1, 0>> /\ a2.at = <<1, 2, 0>> /\ c.at = <<2, 0, 0>>
      /\ m1.at = <<3, 1, 0>> /\ m2.at = <<3, 2, 0>>
      /\ v1.at = <<4, 1, 0>> /\ v2.at = <<4, 2, 0>>
  BY DEF Step
<1>5. /\ MergeStep(a1, x, y) /\ MergeStep(a2, x, y) /\ MergeStep(c, x, y)
      /\ MergeStep(m1, x, y) /\ MergeStep(m2, x, y)
      /\ MergeStep(v1, x, y) /\ MergeStep(v2, x, y)
  BY DEF Step, MergeStep
<1>6. a1 \in Steps /\ a2 \in Steps /\ c \in Steps
  BY <1>1, <1>2 DEF Step, Steps, MergeOps
<1>7. m1 \in Steps /\ m2 \in Steps /\ v1 \in Steps /\ v2 \in Steps
  BY <1>1, <1>2 DEF Step, Steps, MergeOps
<1> HIDE DEF a1, a2, c, m1, m2, v1, v2
<1>8. T \in SUBSET Steps /\ \A q \in T : MergeStep(q, x, y)
  BY <1>3, <1>5, <1>6, <1>7
<1>9. \A q, p \in T : q.at = p.at => q = p
  <2>1. /\ <<1, 1, 0>> # <<1, 2, 0>> /\ <<3, 1, 0>> # <<3, 2, 0>> /\ <<4, 1, 0>> # <<4, 2, 0>>
        /\ \A i, j, k, l : i # k => <<i, j, 0>> # <<k, l, 0>>
    OBVIOUS
  <2> QED
    BY <1>3, <1>4, <2>1
<1>10. \A q \in T : /\ ~Takes(q) /\ ~Moves(q)
                    /\ q.op \notin {"unlink", "copy", "rename", "patch", "raise", "info", "rows"}
  BY <1>8 DEF MergeStep, Takes, Moves
<1>11. Ordered(T)
  BY <1>9, <1>10 DEF Ordered
<1>12. \A at \in MergePlaces : \E q \in T : q.at = at
  BY <1>3, <1>4 DEF MergePlaces
<1> QED
  BY <1>8, <1>11, <1>12

\* An exact dataset of no episodes has no rows.
LEMMA EmptyAtRest ==
  ASSUME TypeOK, NEW d \in Datasets, Todo(d) = {}, Counted(d), count[d] = 0
  PROVE  \A r \in Range(RowFiles) : rows[d][r] = {}
<1> SUFFICES ASSUME NEW r \in Range(RowFiles), NEW q \in rows[d][r]
             PROVE  FALSE
  OBVIOUS
<1>1. q.index < 0
  BY CountedAtRest
<1>2. q.index \in Nat
  BY EditAssumption DEF TypeOK, Rows, Indices
<1> QED
  BY <1>1, <1>2

\* A merge into a new directory, of exact datasets.
IntoNew(d, x, y) ==
  /\ \A s \in Range(Stores) : In(d, s) = {}
  /\ state[x] = "exact" /\ state[y] = "exact" /\ state[d] = "exact"
  /\ count[d] = 0

\* The request to merge: into an empty directory, what is merged is nothing yet;
\* into another, all there was may be overwritten.
LEMMA MergeRequests ==
  ASSUME IInv, NEW x \in Datasets, NEW y \in Datasets, NEW d \in Datasets,
         MergeDatasets(x, y, d), NEW T, T = MergeSteps(x, y)
  PROVE  /\ TypeOK /\ TypeOK' /\ Arrives(d) /\ x # d /\ y # d /\ Fits(x, y)
         /\ files' = files /\ rows' = rows /\ count' = count
         /\ job'.kind = "merge" /\ job'.on = d /\ job'.todo = T
         /\ T \in SUBSET Steps /\ Ordered(T) /\ \A q \in T : MergeStep(q, x, y)
         /\ \A at \in MergePlaces : \E q \in T : q.at = at
         /\ asked'[d] = asked[d] \cup Named(d, Indices)
         /\ \A e \in Datasets \ {d} : state'[e] = state[e]
         /\ IntoNew(d, x, y) => state'[d] = state[d]
         /\ ~IntoNew(d, x, y) =>
              state'[d] = IF state[d] \in {"broken", "adrift"} THEN state[d] ELSE "broken"
         /\ Todo(d) = {} /\ Todo(d)' = T /\ Merging(d)' /\ ~Merging(d) /\ Good(d)
<1>1. /\ TypeOK /\ job = NoJob /\ job' = Job("merge", d, NoMap, T) /\ edits' = edits + 1
      /\ files' = files /\ rows' = rows /\ count' = count /\ faults' = faults
      /\ asked' = [asked EXCEPT ![d] = @ \cup Named(d, Indices)]
      /\ state' = IF IntoNew(d, x, y) THEN state ELSE Worse(d, "broken")
      /\ x # d /\ y # d /\ Fits(x, y)
  BY DEF IInv, MergeDatasets, Request, Asks, IntoNew
<1>2. /\ T \in SUBSET Steps /\ Ordered(T) /\ \A q \in T : MergeStep(q, x, y)
      /\ \A at \in MergePlaces : \E q \in T : q.at = at
  BY <1>1, MergeStepsAre
<1>3. NoMap \in IndexMaps
  <2>1. NoMap \in [{} -> Indices]
    BY DEF NoMap
  <2> QED
    BY <2>1 DEF IndexMaps
<1>4. /\ job' \in [kind : Kinds, on : Datasets, map : IndexMaps, todo : SUBSET Steps]
      /\ job'.kind = "merge" /\ job'.on = d /\ job'.todo = T
  BY <1>1, <1>2, <1>3, JobIs DEF Kinds
<1>5. /\ state' \in [Datasets -> {"exact", "aligned", "broken", "adrift"}]
      /\ \A e \in Datasets \ {d} : state'[e] = state[e]
      /\ IntoNew(d, x, y) => state'[d] = state[d]
      /\ ~IntoNew(d, x, y) =>
           state'[d] = IF state[d] \in {"broken", "adrift"} THEN state[d] ELSE "broken"
  <2>1. CASE IntoNew(d, x, y)
    BY <1>1, <2>1 DEF TypeOK
  <2>2. CASE ~IntoNew(d, x, y)
    BY <1>1, <2>2, WorseIs
  <2> QED
    BY <2>1, <2>2
<1>6. /\ asked' \in [Datasets -> SUBSET Episode]
      /\ asked'[d] = asked[d] \cup Named(d, Indices)
      /\ \A e \in Datasets \ {d} : asked'[e] = asked[e]
  BY <1>1, NamedOK DEF TypeOK
<1>7. TypeOK'
  <2>1. state' \in [Datasets -> {"exact", "aligned", "broken", "adrift"}]
    BY <1>5
  <2>2. /\ files' = files /\ rows' = rows /\ count' = count /\ faults' = faults
        /\ edits' = edits + 1 /\ TypeOK
    BY <1>1
  <2> QED
    BY <1>4, <1>6, <2>1, <2>2 DEF TypeOK
<1>8. Arrives(d)
  BY <1>1, <1>4, <1>5, <1>6 DEF Arrives
<1>9. Todo(d) = {} /\ Todo(d)' = T /\ Merging(d)' /\ ~Merging(d) /\ Good(d)
  BY <1>4, <1>8, BeforeRequest DEF IInv, Merging
<1> QED
  BY <1>1, <1>2, <1>4, <1>5, <1>6, <1>7, <1>8, <1>9

\* A merge into a new directory begins with nothing.
LEMMA MergeBegins ==
  ASSUME IInv, NEW x \in Datasets, NEW y \in Datasets, NEW d \in Datasets,
         MergeDatasets(x, y, d), IntoNew(d, x, y)
  PROVE  /\ Merged(d, x, y)' /\ \A at \in MergePlaces : ~Past(at)'
         /\ MediaAgree(d)' /\ RowsAgree(d)' /\ ColumnsAgree(d)'
         /\ state'[x] = "exact" /\ state'[y] = "exact"
<1>1. PICK T : T = MergeSteps(x, y)
  OBVIOUS
<1>2. /\ TypeOK /\ TypeOK' /\ Arrives(d) /\ x # d /\ y # d /\ Fits(x, y)
      /\ files' = files /\ rows' = rows /\ count' = count
      /\ job'.kind = "merge" /\ job'.on = d /\ job'.todo = T
      /\ T \in SUBSET Steps /\ Ordered(T) /\ \A q \in T : MergeStep(q, x, y)
      /\ \A at \in MergePlaces : \E q \in T : q.at = at
      /\ asked'[d] = asked[d] \cup Named(d, Indices)
      /\ \A e \in Datasets \ {d} : state'[e] = state[e]
      /\ IntoNew(d, x, y) => state'[d] = state[d]
      /\ ~IntoNew(d, x, y) =>
           state'[d] = IF state[d] \in {"broken", "adrift"} THEN state[d] ELSE "broken"
      /\ Todo(d) = {} /\ Todo(d)' = T /\ Merging(d)' /\ ~Merging(d) /\ Good(d)
  BY <1>1, MergeRequests
<1>3. /\ \A s \in Range(Stores) : In(d, s) = {}
      /\ state[x] = "exact" /\ state[y] = "exact" /\ state[d] = "exact" /\ count[d] = 0
  BY DEF IntoNew
<1>4. \A r \in Range(RowFiles) : rows[d][r] = {}
  BY <1>2, <1>3, EmptyAtRest DEF Good
<1>5. /\ "data" \in Range(Stores)
      /\ \A s \in Range(Media) : s \in Range(Stores)
  BY DataIsStore
<1>6. /\ \A s \in Range(Stores) : In(d, s)' = {}
      /\ \A r \in Range(RowFiles) : rows'[d][r] = {}
  BY <1>2, <1>3, <1>4 DEF In
<1>7. MediaAgree(d)' /\ RowsAgree(d)' /\ ColumnsAgree(d)'
  BY <1>5, <1>6 DEF MediaAgree, RowsAgree, ColumnsAgree, Goes
<1>8. \A at \in MergePlaces : ~Past(at)'
  BY <1>2 DEF Past
<1>9. Merged(d, x, y)'
  <2>1. MergeSteps(x, y)' = MergeSteps(x, y)
    BY <1>2, SourcesStay
  <2>2. count'[d] = 0
    BY <1>2, <1>3
  <2>3. /\ ~Past(<<1, 1, 0>>)' /\ ~Past(<<1, 2, 0>>)'
        /\ ~Past(<<3, 1, 0>>)' /\ ~Past(<<3, 2, 0>>)'
    BY <1>8 DEF MergePlaces
  <2>4. job'.todo \subseteq MergeSteps(x, y)'
    BY <1>1, <1>2, <2>1
  <2>5. /\ \A j \in In(d, "data")' : Comes(d, x, y, "data", j)'
        /\ \A s \in Range(Media) : \A j \in In(d, s)' : FALSE
        /\ \A r \in Range(RowFiles) : \A q \in rows'[d][r] : FALSE
    BY <1>5, <1>6
  <2> QED
    BY <2>2, <2>3, <2>4, <2>5 DEF Merged
<1>10. state'[x] = "exact" /\ state'[y] = "exact"
  BY <1>2, <1>3
<1> QED
  BY <1>7, <1>8, <1>9, <1>10

\* It keeps the invariant.
LEMMA MergeKeepsIInv ==
  ASSUME IInv, NEW x \in Datasets, NEW y \in Datasets, NEW d \in Datasets,
         MergeDatasets(x, y, d)
  PROVE  IInv'
<1>1. PICK T : T = MergeSteps(x, y)
  OBVIOUS
<1>2. /\ TypeOK /\ TypeOK' /\ Arrives(d) /\ x # d /\ y # d /\ Fits(x, y)
      /\ files' = files /\ rows' = rows /\ count' = count
      /\ job'.kind = "merge" /\ job'.on = d /\ job'.todo = T
      /\ T \in SUBSET Steps /\ Ordered(T) /\ \A q \in T : MergeStep(q, x, y)
      /\ \A at \in MergePlaces : \E q \in T : q.at = at
      /\ asked'[d] = asked[d] \cup Named(d, Indices)
      /\ \A e \in Datasets \ {d} : state'[e] = state[e]
      /\ IntoNew(d, x, y) => state'[d] = state[d]
      /\ ~IntoNew(d, x, y) =>
           state'[d] = IF state[d] \in {"broken", "adrift"} THEN state[d] ELSE "broken"
      /\ Todo(d) = {} /\ Todo(d)' = T /\ Merging(d)' /\ ~Merging(d) /\ Good(d)
  BY <1>1, MergeRequests
<1>3. \A q \in T : q.op \in MergeOps
  BY <1>2 DEF MergeStep, MergeOps
<1>4. KindsOfSteps'
  BY <1>2, <1>3 DEF KindsOfSteps
<1>5. MergesFit'
  <2> SUFFICES ASSUME NEW q \in T, q.op \in MergeOps \ {"clear"}
               PROVE  /\ q.in \in Datasets \ {d}
                      /\ \A s \in Range(Stores) : \A i \in In(q.in, s) : i + q.from \in Indices
                      /\ \A r \in Range(RowFiles) : \A w \in rows[q.in][r] :
                           w.index + q.from \in Indices
    BY <1>2 DEF MergesFit, In
  <2>1. \/ q.in = x /\ q.from = 0
        \/ q.in = y /\ q.from = Share(x)
    BY <1>2 DEF MergeStep
  <2>2. q.in \in Datasets \ {d}
    BY <1>2, <2>1
  <2>3. Share(x) \in Nat /\ MaxIndex \in Nat /\ \A i \in Indices : i \in Nat /\ i + 0 = i
    BY <1>2, ShareOK, EditAssumption DEF Indices
  <2>4. /\ \A e \in Datasets : \A s \in Range(Stores) : In(e, s) \in SUBSET Indices
        /\ \A e \in Datasets : \A r \in Range(RowFiles) : \A w \in rows[e][r] :
             w.index \in Indices
    BY <1>2, MapsOK DEF TypeOK, Rows
  <2>5. CASE q.in = x /\ q.from = 0
    <3>1. \A i \in Indices : i + q.from \in Indices
      BY <2>3, <2>5
    <3> QED
      BY <2>2, <2>4, <3>1
  <2>6. CASE q.in = y /\ q.from = Share(x)
    <3>1. ASSUME NEW i \in Indices, Share(x) + i <= MaxIndex
          PROVE  i + Share(x) \in Indices
      BY <2>3, <3>1 DEF Indices
    <3>2. /\ \A s \in Range(Stores) : \A i \in In(y, s) : Share(x) + i <= MaxIndex
          /\ \A r \in Range(RowFiles) : \A w \in rows[y][r] : Share(x) + w.index <= MaxIndex
      BY <1>2 DEF Fits
    <3> QED
      BY <2>2, <2>4, <2>6, <3>1, <3>2
  <2> QED
    BY <2>1, <2>5, <2>6
<1>6. Ordered(job.todo)'
  <2>1. job'.todo = T /\ Ordered(T)
    BY <1>2
  <2> QED
    BY <2>1 DEF Ordered, Earlier, Follows, Takes, Moves, NextIn
<1>7. /\ \A s : In(d, s)' = In(d, s) /\ \A i : Ep(d, s, i)' = Ep(d, s, i)
  BY <1>2 DEF In, Ep
<1>8. state'[d] # "adrift" => Kept(d)
  BY <1>2 DEF Good
<1>9. MergedOver(d)'
  <2> SUFFICES ASSUME state'[d] # "adrift", NEW n \in 1 .. Episodes[d], <<d, n>> \notin asked[d]
               PROVE  <<d, n>> \in Named(d, Indices)
    BY <1>2 DEF MergedOver
  <2>1. "data" \in Range(Stores) /\ "data" \notin Range(Media)
    BY DataIsStore
  <2>2. <<"data", <<d, n>>>> \notin Missing
    BY <2>1, EditAssumption
  <2>3. PICK i \in In(d, "data") : Ep(d, "data", i) = <<d, n>>
    BY <1>8, <2>1, <2>2 DEF Kept
  <2>4. i \in Indices \cap In(d, "data")
    BY <1>2, <2>1, MapsOK
  <2> QED
    BY <2>1, <2>3, <2>4, NamedAre
<1>10. Feasible(d)' /\ Spared(d)' /\ Room(d)'
  <2>1. \A q \in T : ~Takes(q) /\ ~Moves(q) /\ q.op \notin {"copy", "rows", "unlink"}
    BY <1>3 DEF MergeOps, Takes, Moves
  <2> QED
    BY <1>2, <2>1 DEF Feasible, Spared, Room, Moves, Takes
<1>11. Kept(d) => Kept(d)'
  BY <1>2, <1>7 DEF Kept
<1>12. ASSUME Sound(d)'
       PROVE  /\ MediaAgree(d)' /\ RowsAgree(d)' /\ ColumnsAgree(d)'
              /\ ExactMerge(d)'
  <2>1. IntoNew(d, x, y)
    BY <1>2, <1>12 DEF Sound
  <2>2. /\ Merged(d, x, y)' /\ MediaAgree(d)' /\ RowsAgree(d)' /\ ColumnsAgree(d)'
        /\ state'[x] = "exact" /\ state'[y] = "exact"
    BY <2>1, MergeBegins
  <2>3. ExactMerge(d)'
    BY <1>2, <2>2 DEF ExactMerge
  <2> QED
    BY <2>2, <2>3
<1>13. ExactMerge(d)'
  BY <1>12 DEF ExactMerge, Sound
<1>14. Good(d)'
  BY <1>2, <1>8, <1>10, <1>11, <1>12 DEF Good
<1>15. \A e \in Datasets : Good(e)' /\ MergedOver(e)' /\ ExactMerge(e)'
  BY <1>2, <1>9, <1>13, <1>14, OthersAtRequest DEF IInv
<1> QED
  BY <1>2, <1>4, <1>5, <1>6, <1>15 DEF IInv

----------------------------------------------------------------------------
(* One step of a request.                                                  *)

\* Every step takes itself off the request, and leaves the history alone.
LEMMA StepFrame ==
  ASSUME NEW x, Deletes(x) \/ Merges(x)
  PROVE  /\ NextIn(job.todo, x) /\ Done(x)
         /\ asked' = asked /\ state' = state /\ edits' = edits /\ faults' = faults
<1> USE DEF NextIn, IsNext, Doing, history
<1>1. CASE UnlinkFile(x) \/ RenameFile(x) \/ CopyParquet(x)
  BY <1>1 DEF UnlinkFile, RenameFile, CopyParquet
<1>2. CASE PatchParquet(x) \/ RewriteRows(x) \/ WriteInfo(x)
  BY <1>2 DEF PatchParquet, RewriteRows, WriteInfo
<1>3. CASE Doing("raise", x) /\ Done(x) /\ UNCHANGED <<files, rows, count, history>>
  BY <1>3
<1>4. CASE MergeData(x) \/ ClearMeta(x)
  BY <1>4 DEF MergeData, ClearMeta
<1>5. CASE MergeMeta(x) \/ MergeVideos(x)
  BY <1>5 DEF MergeMeta, MergeVideos
<1> QED
  BY <1>1, <1>2, <1>3, <1>4, <1>5 DEF Deletes, Merges

\* What a step does to files, rows and counts has their types, and is about the
\* dataset of the request.
Framed(d) ==
  /\ files' \in [Datasets -> [Range(Stores) -> FileMaps]]
  /\ rows' \in [Datasets -> [Range(RowFiles) -> Rows]]
  /\ count' \in [Datasets -> Nat]
  /\ \A e \in Datasets \ {d} : files'[e] = files[e] /\ rows'[e] = rows[e] /\ count'[e] = count[e]

\* The steps of a deletion,
LEMMA DeletesFramed ==
  ASSUME NEW d \in Datasets, NEW x, Working(d, x), Deletes(x)
  PROVE  Framed(d)
<1>0. /\ TypeOK /\ d = job.on /\ Feasible(d) /\ x \in job.todo
      /\ files \in [Datasets -> [Range(Stores) -> FileMaps]]
      /\ rows \in [Datasets -> [Range(RowFiles) -> Rows]]
      /\ count \in [Datasets -> Nat]
  BY DEF Working, TypeOK
<1>m. Moves(x) => x.from # x.to
  BY MovesSomewhere, AtWork DEF Working
<1>1. CASE UnlinkFile(x)
  <2>1. files' \in [Datasets -> [Range(Stores) -> FileMaps]]
    BY <1>0, <1>1, UnlinkDoes
  <2>2. /\ rows' = rows /\ count' = count
        /\ \A e \in Datasets \ {d} : files'[e] = files[e]
    BY <1>0, <1>1 DEF UnlinkFile, Store
  <2> QED
    BY <1>0, <2>1, <2>2 DEF Framed
<1>2. CASE RenameFile(x)
  <2>1. x.from # x.to
    BY <1>m, <1>2 DEF RenameFile, Doing, Moves
  <2>2. files' \in [Datasets -> [Range(Stores) -> FileMaps]]
    BY <1>0, <1>2, <2>1, RenameDoes
  <2>3. /\ rows' = rows /\ count' = count
        /\ \A e \in Datasets \ {d} : files'[e] = files[e]
    BY <1>0, <1>2 DEF RenameFile, Store
  <2> QED
    BY <1>0, <2>2, <2>3 DEF Framed
<1>3. CASE CopyParquet(x)
  <2>1. x.from # x.to
    BY <1>m, <1>3 DEF CopyParquet, Doing, Moves
  <2>2. files' \in [Datasets -> [Range(Stores) -> FileMaps]]
    BY <1>0, <1>3, <2>1, CopyDoes
  <2>3. /\ rows' = rows /\ count' = count
        /\ \A e \in Datasets \ {d} : files'[e] = files[e]
    BY <1>0, <1>3 DEF CopyParquet, Store
  <2> QED
    BY <1>0, <2>2, <2>3 DEF Framed
<1>4. CASE PatchParquet(x)
  <2>1. files' \in [Datasets -> [Range(Stores) -> FileMaps]]
    BY <1>0, <1>4, PatchDoes
  <2>2. /\ rows' = rows /\ count' = count
        /\ \A e \in Datasets \ {d} : files'[e] = files[e]
    BY <1>0, <1>4 DEF PatchParquet, Store
  <2> QED
    BY <1>0, <2>1, <2>2 DEF Framed
<1>5. CASE RewriteRows(x)
  <2>1. rows' \in [Datasets -> [Range(RowFiles) -> Rows]]
    BY <1>0, <1>5, RewriteDoes
  <2>2. /\ files' = files /\ count' = count
        /\ \A e \in Datasets \ {d} : rows'[e] = rows[e]
    BY <1>0, <1>5 DEF RewriteRows
  <2> QED
    BY <1>0, <2>1, <2>2 DEF Framed
<1>6. CASE WriteInfo(x)
  <2>1. count' \in [Datasets -> Nat]
    BY <1>0, <1>6, InfoDoes
  <2>2. /\ files' = files /\ rows' = rows
        /\ \A e \in Datasets \ {d} : count'[e] = count[e]
    BY <1>0, <1>6 DEF WriteInfo
  <2> QED
    BY <1>0, <2>1, <2>2 DEF Framed
<1>7. CASE Doing("raise", x) /\ Done(x) /\ UNCHANGED <<files, rows, count, history>>
  BY <1>0, <1>7 DEF Framed
<1> QED
  BY <1>1, <1>2, <1>3, <1>4, <1>5, <1>6, <1>7 DEF Deletes

\* and of a merge.
LEMMA MergesFramed ==
  ASSUME NEW d \in Datasets, NEW z, Combining(d, z), Merges(z)
  PROVE  Framed(d)
<1>0. /\ TypeOK /\ d = job.on /\ MergesFit /\ z \in job.todo
      /\ files \in [Datasets -> [Range(Stores) -> FileMaps]]
      /\ rows \in [Datasets -> [Range(RowFiles) -> Rows]]
      /\ count \in [Datasets -> Nat]
  BY DEF Combining, TypeOK
<1>1. CASE MergeData(z)
  <2>1. files' \in [Datasets -> [Range(Stores) -> FileMaps]]
    BY <1>0, <1>1, MergeDataDoes
  <2>2. /\ rows' = rows /\ count' = count
        /\ \A e \in Datasets \ {d} : files'[e] = files[e]
    BY <1>0, <1>1 DEF MergeData, Store
  <2> QED
    BY <1>0, <2>1, <2>2 DEF Framed
<1>2. CASE ClearMeta(z)
  <2>1. /\ rows' \in [Datasets -> [Range(RowFiles) -> Rows]] /\ count' \in [Datasets -> Nat]
        /\ \A e \in Datasets : e # d => rows'[e] = rows[e] /\ count'[e] = count[e]
    BY <1>0, <1>2, ClearDoes
  <2>2. files' = files
    BY <1>2 DEF ClearMeta
  <2> QED
    BY <1>0, <2>1, <2>2 DEF Framed
<1>3. CASE MergeMeta(z)
  <2>1. /\ rows' \in [Datasets -> [Range(RowFiles) -> Rows]] /\ count' \in [Datasets -> Nat]
        /\ \A e \in Datasets : e # d => rows'[e] = rows[e] /\ count'[e] = count[e]
    BY <1>0, <1>3, MergeMetaDoes
  <2>2. files' = files
    BY <1>3 DEF MergeMeta
  <2> QED
    BY <1>0, <2>1, <2>2 DEF Framed
<1>4. CASE MergeVideos(z)
  <2>1. files' \in [Datasets -> [Range(Stores) -> FileMaps]]
    BY <1>0, <1>4, MergeVideosDoes
  <2>2. /\ rows' = rows /\ count' = count
        /\ \A e \in Datasets \ {d} : files'[e] = files[e]
    BY <1>0, <1>4 DEF MergeVideos
  <2> QED
    BY <1>0, <2>1, <2>2 DEF Framed
<1> QED
  BY <1>1, <1>2, <1>3, <1>4 DEF Merges

\* The parts of the invariant that do not depend on the kind of step.
LEMMA StepKeepsFrame ==
  ASSUME IInv, NEW d \in Datasets, d = job.on, NEW x \in job.todo,
         Deletes(x) \/ Merges(x), Framed(d)
  PROVE  /\ TypeOK' /\ KindsOfSteps' /\ MergesFit' /\ Ordered(job.todo)'
         /\ \A e \in Datasets \ {d} : Good(e)' /\ MergedOver(e)' /\ ExactMerge(e)'
<1>1. /\ NextIn(job.todo, x) /\ Done(x)
      /\ asked' = asked /\ state' = state /\ edits' = edits /\ faults' = faults
  BY StepFrame
<1>2. TypeOK /\ KindsOfSteps /\ MergesFit /\ Ordered(job.todo) /\ job.todo \in SUBSET Steps
  BY DEF IInv, TypeOK
<1>3. /\ job' \in [kind : Kinds, on : Datasets, map : IndexMaps, todo : SUBSET Steps]
      /\ job'.todo = job.todo \ {x}
      /\ \/ job' = NoJob /\ job.todo \ {x} = {}
         \/ job'.kind = job.kind /\ job'.on = job.on /\ job'.map = job.map
      /\ \A e \in Datasets : Todo(e)' = Todo(e) \ {x}
  BY <1>1, <1>2, JobGoesOn
<1>4. NoJob.kind = "none" /\ NoJob.todo = {}
  BY <1>2, NoJobOK
<1>5. TypeOK'
  <2>1. /\ asked' \in [Datasets -> SUBSET Episode]
        /\ state' \in [Datasets -> {"exact", "aligned", "broken", "adrift"}]
        /\ edits' \in Nat /\ faults' \in Nat
    BY <1>1, <1>2 DEF TypeOK
  <2> QED
    BY <1>3, <2>1 DEF TypeOK, Framed
<1>6. KindsOfSteps'
  <2>1. CASE job' = NoJob
    BY <1>4, <2>1 DEF KindsOfSteps
  <2>2. CASE job'.kind = job.kind
    BY <1>2, <1>3, <2>2 DEF KindsOfSteps
  <2> QED
    BY <1>3, <2>1, <2>2
<1>7. MergesFit'
  <2> SUFFICES ASSUME NEW q \in job'.todo, q.op \in MergeOps \ {"clear"}
               PROVE  /\ q.in \in Datasets \ {job'.on}
                      /\ \A s \in Range(Stores) : \A i \in In(q.in, s)' : i + q.from \in Indices
                      /\ \A r \in Range(RowFiles) : \A w \in rows'[q.in][r] :
                           w.index + q.from \in Indices
    BY DEF MergesFit
  <2>1. q \in job.todo /\ job'.on = d
    BY <1>3, <1>4
  <2>2. /\ q.in \in Datasets \ {d}
        /\ \A s \in Range(Stores) : \A i \in In(q.in, s) : i + q.from \in Indices
        /\ \A r \in Range(RowFiles) : \A w \in rows[q.in][r] : w.index + q.from \in Indices
    BY <1>2, <2>1 DEF MergesFit
  <2>3. files'[q.in] = files[q.in] /\ rows'[q.in] = rows[q.in]
    BY <2>2 DEF Framed
  <2> QED
    BY <2>1, <2>2, <2>3 DEF In
<1>8. Ordered(job.todo)'
  <2>1. Ordered(job.todo \ {x})
    BY <1>1, <1>2, OrderedShrinks
  <2> QED
    BY <1>3, <2>1 DEF Ordered, Earlier, Follows, Takes, Moves, NextIn
<1>9. ASSUME NEW e \in Datasets \ {d}
      PROVE  Good(e)' /\ MergedOver(e)' /\ ExactMerge(e)'
  <2>1. Todo(e) = {} /\ Todo(e)' = {} /\ ~Merging(e)
    BY <1>3 DEF Todo, Merging
  <2>2. ~Merging(e)'
    BY <1>3, <1>4 DEF Merging
  <2>3. /\ files'[e] = files[e] /\ rows'[e] = rows[e] /\ count'[e] = count[e]
        /\ asked'[e] = asked[e] /\ state'[e] = state[e] /\ Good(e)
    BY <1>1 DEF Framed, IInv
  <2>4. Good(e)'
    BY <2>1, <2>3, GoodStays
  <2> QED
    BY <2>2, <2>4 DEF MergedOver, ExactMerge
<1> QED
  BY <1>5, <1>6, <1>7, <1>8, <1>9

\* Each step of a deletion keeps the invariant,
LEMMA DeletesKeepsIInv ==
  ASSUME IInv, NEW x \in job.todo, Deletes(x)
  PROVE  IInv'
<1>1. PICK d \in Datasets : d = job.on
  BY DEF IInv, TypeOK
<1>2. /\ NextIn(job.todo, x) /\ Done(x)
      /\ asked' = asked /\ state' = state /\ edits' = edits /\ faults' = faults
  BY StepFrame
<1>3. TypeOK /\ KindsOfSteps /\ Ordered(job.todo) /\ Good(d) /\ Feasible(d)
  BY DEF IInv, Good
<1>4. Working(d, x)
  BY <1>1, <1>2, <1>3 DEF Working
<1>5. x.op \notin MergeOps
  BY DEF Deletes, UnlinkFile, RenameFile, CopyParquet, PatchParquet, RewriteRows,
         WriteInfo, Doing, MergeOps
<1>6. ~Merging(d)
  BY <1>3, <1>5 DEF KindsOfSteps, Merging
<1>7. Good(d)'
  BY <1>3, <1>4, <1>6, DeletionGoesOn
<1>8. ~Merging(d)'
  <2>1. job' = NoJob \/ job'.kind = job.kind
    BY <1>2, <1>3, JobGoesOn
  <2>2. NoJob.kind = "none"
    BY <1>3, NoJobOK
  <2> QED
    BY <1>1, <1>6, <2>1, <2>2 DEF Merging
<1>9. Framed(d)
  BY <1>4, DeletesFramed
<1>10. /\ TypeOK' /\ KindsOfSteps' /\ MergesFit' /\ Ordered(job.todo)'
       /\ \A e \in Datasets \ {d} : Good(e)' /\ MergedOver(e)' /\ ExactMerge(e)'
  BY <1>1, <1>9, StepKeepsFrame
<1>11. MergedOver(d)' /\ ExactMerge(d)'
  BY <1>8 DEF MergedOver, ExactMerge
<1> QED
  BY <1>7, <1>10, <1>11 DEF IInv

\* and so does each step of a merge,
LEMMA MergesKeepsIInv ==
  ASSUME IInv, NEW z \in job.todo, Merges(z)
  PROVE  IInv'
<1>1. PICK d \in Datasets : d = job.on
  BY DEF IInv, TypeOK
<1>2. /\ NextIn(job.todo, z) /\ Done(z)
      /\ asked' = asked /\ state' = state /\ edits' = edits /\ faults' = faults
  BY StepFrame
<1>3. /\ TypeOK /\ KindsOfSteps /\ MergesFit /\ Ordered(job.todo)
      /\ \A e \in Datasets : Good(e)
      /\ MergedOver(d) /\ ExactMerge(d)
  BY DEF IInv
<1>4. z.op \in MergeOps
  BY DEF Merges, MergeData, ClearMeta, MergeMeta, MergeVideos, Doing, MergeOps
<1>5. Combining(d, z)
  BY <1>1, <1>2, <1>3, <1>4 DEF Combining, KindsOfSteps
<1>6. Framed(d)
  BY <1>5, MergesFramed
<1>7. /\ TypeOK' /\ KindsOfSteps' /\ MergesFit' /\ Ordered(job.todo)'
      /\ \A e \in Datasets \ {d} : Good(e)' /\ MergedOver(e)' /\ ExactMerge(e)'
  BY <1>1, <1>6, StepKeepsFrame
<1>8. Good(d)' /\ MergedOver(d)' /\ ExactMerge(d)'
  BY <1>2, <1>3, <1>5, <1>7, MergeGoesOn
<1> QED
  BY <1>7, <1>8 DEF IInv

\* A request that is broken off, by an error or by a crash.
LEMMA BreakKeepsIInv ==
  ASSUME IInv, job' = NoJob, state' = Worse(job.on, "broken"),
         UNCHANGED <<files, rows, count, asked, edits>>, faults' \in Nat
  PROVE  IInv'
<1>1. PICK d \in Datasets : d = job.on
  BY DEF IInv, TypeOK
<1>2. TypeOK /\ \A e \in Datasets : Good(e)
  BY DEF IInv
<1>3. /\ job' \in [kind : Kinds, on : Datasets, map : IndexMaps, todo : SUBSET Steps]
      /\ job'.kind = "none" /\ job'.todo = {}
      /\ \A e \in Datasets : Todo(e)' = {}
  BY <1>2, JobEnds
<1>4. /\ state' \in [Datasets -> {"exact", "aligned", "broken", "adrift"}]
      /\ \A e \in Datasets \ {d} : state'[e] = state[e]
      /\ state'[d] = IF state[d] \in {"broken", "adrift"} THEN state[d] ELSE "broken"
  BY <1>1, <1>2, WorseIs
<1>5. TypeOK'
  BY <1>2, <1>3, <1>4 DEF TypeOK
<1>6. KindsOfSteps' /\ MergesFit'
  BY <1>3 DEF KindsOfSteps, MergesFit
<1>7. Ordered(job.todo)'
  BY <1>3, NoneOrdered DEF Ordered
<1>8. Good(d)'
  BY <1>2, <1>3, <1>4, BreaksOff
<1>9. ASSUME NEW e \in Datasets \ {d}
      PROVE  Good(e)'
  <2>1. Todo(e) = {} /\ ~Merging(e)
    BY <1>1 DEF Todo, Merging
  <2> QED
    BY <1>2, <1>3, <1>4, <2>1, GoodStays
<1>10. \A e \in Datasets : MergedOver(e)' /\ ExactMerge(e)'
  BY <1>3 DEF MergedOver, ExactMerge, Merging
<1> QED
  BY <1>5, <1>6, <1>7, <1>8, <1>9, <1>10 DEF IInv

\* An error that ends a request is its last step.
LEMMA RaiseIsLast ==
  ASSUME IInv, NEW x \in job.todo, Raise(x), Doing("raise", x), state' = state
  PROVE  Deletes(x)
<1>1. TypeOK /\ Ordered(job.todo) /\ job.todo \in SUBSET Steps
  BY DEF IInv, TypeOK
<1>2. /\ job' = NoJob /\ files' = files /\ rows' = rows /\ count' = count /\ asked' = asked
      /\ list' = list /\ edits' = edits /\ faults' = faults
  BY DEF Raise
<1>3. job.todo = {x}
  <2> SUFFICES ASSUME NEW q \in job.todo, q # x
               PROVE  FALSE
    OBVIOUS
  <2>1. Earlier(q, x)
    BY <1>1 DEF Ordered, Doing
  <2>2. NextIn(job.todo, x)
    BY DEF Doing, IsNext, NextIn
  <2> QED
    BY <1>1, <2>1, <2>2, NextIsFirst
<1>4. Done(x)
  BY <1>2, <1>3 DEF Done
<1> QED
  BY <1>2, <1>4 DEF Deletes, history

\* an error, which is the last step of its request or breaks it off,
LEMMA RaiseKeepsIInv ==
  ASSUME IInv, NEW x \in job.todo, Raise(x)
  PROVE  IInv'
<1>1. job' = NoJob /\ UNCHANGED <<files, rows, count, asked, edits, faults>>
  BY DEF Raise
<1>2. CASE Doing("raise", x) /\ state' = state
  BY <1>2, RaiseIsLast, DeletesKeepsIInv
<1>3. CASE state' = Worse(job.on, "broken")
  <2>1. faults' \in Nat
    BY <1>1 DEF IInv, TypeOK
  <2> QED
    BY <1>1, <1>3, <2>1, BreakKeepsIInv
<1> QED
  BY <1>2, <1>3 DEF Raise

\* a crash,
LEMMA CrashKeepsIInv ==
  ASSUME IInv, Crash
  PROVE  IInv'
<1>1. faults' \in Nat
  BY DEF Crash, IInv, TypeOK
<1> QED
  BY <1>1, BreakKeepsIInv DEF Crash

\* What a failure drops: the step, and the patch of a parquet file that was not
\* renamed, which is next then.
LEMMA DroppedAre ==
  ASSUME TypeOK, NEW T, T = job.todo, Ordered(T), NEW x \in T, NextIn(T, x)
  PROVE  \/ Dropped(x) = {x}
         \/ \E p \in T \ {x} : p.op = "patch" /\ Dropped(x) = {x, p} /\ NextIn(T \ {x}, p)
<1>1. T \in SUBSET Steps
  BY DEF TypeOK
<1>2. CASE ~(x.op = "rename" /\ x.in = "data")
  BY <1>2 DEF Dropped
<1>3. CASE x.op = "rename" /\ x.in = "data"
  <2>1. \E p \in T : p.op = "patch" /\ p.to = x.to /\ Follows(x, p)
    BY <1>3 DEF Ordered
  <2>2. PICK p \in T : p.op = "patch" /\ p.to = x.to /\ Follows(x, p)
    BY <2>1
  <2>3. p # x
    BY <1>3, <2>2
  <2>4. NextIn(T \ {x}, p)
    BY <1>1, <2>2, FollowerIsNext DEF Ordered
  <2>5. ASSUME NEW q \in T, q.op = "patch", q.to = x.to
        PROVE  q = p
    <3>1. q # x
      BY <1>3, <2>5
    <3>2. ~NextIn(T, q)
      BY <3>1, <1>1, NextIsFirst DEF NextIn
    <3>3. PICK y \in T : y.op = "rename" /\ y.in = "data" /\ y.to = q.to /\ Follows(y, q)
      BY <2>5, <3>2 DEF Ordered
    <3>4. y = x
      BY <1>3, <2>5, <3>3 DEF Ordered, Moves
    <3>5. q.at = p.at
      BY <2>2, <3>3, <3>4 DEF Follows
    <3> QED
      BY <3>5 DEF Ordered
  <2>6. Dropped(x) = {x, p}
    BY <1>3, <2>2, <2>5 DEF Dropped
  <2> QED
    BY <2>2, <2>3, <2>4, <2>6
<1> QED
  BY <1>2, <1>3

\* A failure leaves the other steps as they were. What the step would have taken
\* from its name is asked for, and may be overwritten, unless it is a folder.
LEMMA FailDoes ==
  ASSUME IInv, NEW d \in Datasets, d = job.on, NEW x \in job.todo, Fail(x),
         NEW D, D = Dropped(x)
  PROVE  /\ job' \in [kind : Kinds, on : Datasets, map : IndexMaps, todo : SUBSET Steps]
         /\ job'.todo = job.todo \ D
         /\ \/ job' = NoJob
            \/ job'.kind = job.kind /\ job'.on = job.on /\ job'.map = job.map
         /\ \A e \in Datasets : Todo(e)' = Todo(e) \ D
         /\ Ordered(job.todo \ D)
         /\ x \in D /\ D \subseteq job.todo /\ \A q \in D \ {x} : q.op = "patch"
         /\ NextIn(job.todo, x) /\ x.op \in {"unlink", "rename", "patch", "rows", "info"}
         /\ ~Merging(d)
<1>1. TypeOK /\ KindsOfSteps /\ Ordered(job.todo) /\ job.todo \in SUBSET Steps
  BY DEF IInv, TypeOK
<1>2. NextIn(job.todo, x) /\ x.op \in {"unlink", "rename", "patch", "rows", "info"}
  BY DEF Fail, IsNext, NextIn, GoesOn
<1>3. \/ D = {x}
      \/ \E p \in job.todo \ {x} :
           p.op = "patch" /\ D = {x, p} /\ NextIn(job.todo \ {x}, p)
  BY <1>1, <1>2, DroppedAre
<1>4. x \in D /\ D \subseteq job.todo /\ \A q \in D \ {x} : q.op = "patch"
  BY <1>3
<1>5. Ordered(job.todo \ D)
  <2>1. Ordered(job.todo \ {x})
    BY <1>1, <1>2, OrderedShrinks
  <2>2. CASE D = {x}
    BY <2>1, <2>2
  <2>3. ASSUME NEW p \in job.todo \ {x}, D = {x, p}, NextIn(job.todo \ {x}, p)
        PROVE  Ordered(job.todo \ D)
    <3>1. job.todo \ {x} \in SUBSET Steps
      BY <1>1
    <3>2. Ordered((job.todo \ {x}) \ {p})
      BY <2>1, <2>3, <3>1, OrderedShrinks
    <3>3. (job.todo \ {x}) \ {p} = job.todo \ D
      BY <2>3
    <3> QED
      BY <3>2, <3>3
  <2> QED
    BY <1>3, <2>2, <2>3
<1>6. job' = IF job.todo = D THEN NoJob ELSE [job EXCEPT !.todo = @ \ D]
  BY DEF Fail
<1>7. ~Merging(d)
  BY <1>1, <1>2 DEF KindsOfSteps, Merging, MergeOps
<1> QED
  BY <1>1, <1>2, <1>4, <1>5, <1>6, <1>7, JobShrinks

\* The dataset stays good: nothing is expected of it, and its files are there.
LEMMA FailIsGood ==
  ASSUME NEW d \in Datasets, d = job.on, NEW x \in job.todo, NEW D, TypeOK, Good(d),
         Todo(d)' = Todo(d) \ D, x \in D, \A q \in D \ {x} : q.op = "patch",
         NextIn(job.todo, x), x.op \in {"unlink", "rename", "patch", "rows", "info"},
         files' = files, asked[d] \subseteq asked'[d],
         x.op = "unlink" \/ (x.op = "rename" /\ x.in \notin Range(Images)) =>
           Ep(d, x.in, x.from) \in asked'[d],
         state'[d] \in {"broken", "adrift"}, state[d] = "adrift" => state'[d] = "adrift"
  PROVE  Good(d)'
<1>1. Todo(d) = job.todo /\ job.todo \in SUBSET Steps
  BY DEF Todo, TypeOK
<1>2. \A s : In(d, s)' = In(d, s) /\ \A i : Ep(d, s, i)' = Ep(d, s, i)
  BY DEF In, Ep
<1>3. Feasible(d)'
  BY <1>2 DEF Good, Feasible, Takes
<1>4. Spared(d)'
  <2> SUFFICES ASSUME NEW u \in Todo(d) \ D, u.op = "unlink"
               PROVE  \/ Ep(d, u.in, u.from) \in asked'[d]
                      \/ \E c \in Todo(d) \ D : /\ c.op = "copy" /\ c.in = u.in
                                                /\ c.from = u.from /\ Follows(c, u)
    BY <1>2 DEF Spared, Follows
  <2>1. CASE Ep(d, u.in, u.from) \in asked[d]
    BY <2>1
  <2>2. ASSUME NEW c \in Todo(d), c.op = "copy", c.in = u.in, c.from = u.from, Follows(c, u)
        PROVE  c \in Todo(d) \ D
    BY <2>2
  <2>3. ~NextIn(Todo(d), u)
    <3>1. Earlier(x, u)
      BY <1>1 DEF NextIn
    <3> QED
      BY <1>1, <3>1, NextIsFirst
  <2> QED
    BY <2>1, <2>2, <2>3 DEF Good, Spared
<1>5. Room(d) => Room(d)'
  <2> SUFFICES ASSUME Room(d), NEW m \in Todo(d) \ D, Moves(m), m.to \in In(d, m.in)
               PROVE  \/ Ep(d, m.in, m.to) \in asked'[d]
                      \/ \E q \in Todo(d) \ D : /\ q.op \in {"unlink", "rename"}
                                                /\ q.in = m.in /\ q.from = m.to
                      \/ m.op = "rename" /\ m.in \in Range(Images)
    BY <1>2 DEF Room, Moves
  <2>1. CASE Ep(d, m.in, m.to) \in asked[d]
    BY <2>1
  <2>2. ASSUME NEW q \in Todo(d), q.op \in {"unlink", "rename"}, q.in = m.in, q.from = m.to,
               q \notin D
        PROVE  \E p \in Todo(d) \ D : /\ p.op \in {"unlink", "rename"}
                                       /\ p.in = m.in /\ p.from = m.to
    BY <2>2
  <2>3. ASSUME x.op \in {"unlink", "rename"}, x.in = m.in, x.from = m.to
        PROVE  \/ Ep(d, m.in, m.to) \in asked'[d]
               \/ m.op = "rename" /\ m.in \in Range(Images)
    <3>1. CASE x.in \notin Range(Images)
      BY <2>3, <3>1
    <3>2. CASE x.op = "unlink"
      BY <2>3, <3>2
    <3>3. CASE x.in \in Range(Images)
      <4>1. m.in # "data"
        BY <2>3, <3>3, DataIsStore
      <4>2. m.op # "copy"
        BY <4>1 DEF Good, Feasible
      <4> QED
        BY <2>3, <3>3, <4>2 DEF Moves
    <3> QED
      BY <3>1, <3>2, <3>3
  <2>4. ASSUME NEW q \in Todo(d), q.op \in {"unlink", "rename"}, q \in D
        PROVE  q = x
    BY <2>4
  <2> QED
    BY <2>1, <2>2, <2>3, <2>4 DEF Room
<1>6. Kept(d) => Kept(d)'
  BY <1>2 DEF Kept
<1>7. ~Sound(d)' /\ state'[d] # "exact"
  BY DEF Sound
<1> QED
  BY <1>3, <1>4, <1>5, <1>6, <1>7 DEF Good

\* an operation that fails, after which the request goes on,
LEMMA FailKeepsIInv ==
  ASSUME IInv, NEW x \in job.todo, Fail(x)
  PROVE  IInv'
<1>1. PICK d \in Datasets : d = job.on
  BY DEF IInv, TypeOK
<1>2. PICK D : D = Dropped(x)
  OBVIOUS
<1>3. TypeOK /\ KindsOfSteps /\ MergesFit /\ \A e \in Datasets : Good(e)
  BY DEF IInv
<1>4. /\ job' \in [kind : Kinds, on : Datasets, map : IndexMaps, todo : SUBSET Steps]
      /\ job'.todo = job.todo \ D
      /\ \/ job' = NoJob
         \/ job'.kind = job.kind /\ job'.on = job.on /\ job'.map = job.map
      /\ \A e \in Datasets : Todo(e)' = Todo(e) \ D
      /\ Ordered(job.todo \ D)
      /\ x \in D /\ D \subseteq job.todo /\ \A q \in D \ {x} : q.op = "patch"
      /\ NextIn(job.todo, x) /\ x.op \in {"unlink", "rename", "patch", "rows", "info"}
      /\ ~Merging(d)
  BY <1>1, <1>2, FailDoes
<1>5. /\ files' = files /\ rows' = rows /\ count' = count /\ edits' = edits
      /\ state' = Worse(d, "broken")
  BY <1>1 DEF Fail
<1>6. faults' \in Nat
  BY <1>3 DEF Fail, TypeOK
<1>7. /\ state' \in [Datasets -> {"exact", "aligned", "broken", "adrift"}]
      /\ \A e \in Datasets \ {d} : state'[e] = state[e]
      /\ state'[d] = IF state[d] \in {"broken", "adrift"} THEN state[d] ELSE "broken"
  BY <1>3, <1>5, WorseIs
<1>8. /\ asked' \in [Datasets -> SUBSET Episode] /\ asked[d] \subseteq asked'[d]
      /\ \A e \in Datasets \ {d} : asked'[e] = asked[e]
      /\ x.op = "unlink" \/ (x.op = "rename" /\ x.in \notin Range(Images)) =>
           Ep(d, x.in, x.from) \in asked'[d]
  <2>1. CASE x.op = "unlink" \/ (x.op = "rename" /\ x.in \notin Range(Images))
    <3>1. asked' = [asked EXCEPT ![d] = @ \cup {Ep(d, x.in, x.from)}]
      BY <1>1, <2>1 DEF Fail, Here, Ep
    <3>2. x \in Todo(d) /\ Takes(x)
      BY <1>1, <2>1 DEF Todo, Takes
    <3>3. x.in \in Range(Stores) /\ x.from \in In(d, x.in)
      BY <1>3, <3>2 DEF Good, Feasible
    <3>4. Ep(d, x.in, x.from) \in Episode
      BY <1>3, <3>3, MapsOK
    <3>5. asked \in [Datasets -> SUBSET Episode]
      BY <1>3 DEF TypeOK
    <3> QED
      BY <3>1, <3>4, <3>5
  <2>2. CASE ~(x.op = "unlink" \/ (x.op = "rename" /\ x.in \notin Range(Images)))
    <3>1. asked' = asked
      BY <2>2 DEF Fail
    <3> QED
      BY <1>3, <2>2, <3>1 DEF TypeOK
  <2> QED
    BY <2>1, <2>2
<1>9. TypeOK'
  BY <1>3, <1>4, <1>5, <1>6, <1>7, <1>8 DEF TypeOK
<1>10. NoJob.kind = "none" /\ NoJob.todo = {}
  BY <1>3, NoJobOK
<1>11. KindsOfSteps'
  <2>1. CASE job' = NoJob
    BY <1>10, <2>1 DEF KindsOfSteps
  <2>2. CASE job'.kind = job.kind
    BY <1>3, <1>4, <2>2 DEF KindsOfSteps
  <2> QED
    BY <1>4, <2>1, <2>2
<1>12. MergesFit'
  <2> SUFFICES ASSUME NEW q \in job'.todo, q.op \in MergeOps
               PROVE  FALSE
    BY DEF MergesFit
  <2>1. q \in job.todo
    BY <1>4
  <2> QED
    BY <1>1, <1>3, <1>4, <2>1 DEF KindsOfSteps, Merging
<1>13. Ordered(job.todo)'
  BY <1>4 DEF Ordered, Earlier, Follows, Takes, Moves, NextIn
<1>14. Good(d)'
  BY <1>1, <1>3, <1>4, <1>5, <1>7, <1>8, FailIsGood
<1>15. \A e \in Datasets : ~Merging(e)'
  <2>1. \A e \in Datasets : ~Merging(e)
    BY <1>1, <1>4 DEF Merging
  <2> QED
    BY <1>4, <1>10, <2>1 DEF Merging
<1>16. ASSUME NEW e \in Datasets \ {d}
       PROVE  Good(e)'
  <2>1. Todo(e) = {} /\ Todo(e)' = {} /\ ~Merging(e)
    BY <1>1, <1>4 DEF Todo, Merging
  <2> QED
    BY <1>3, <1>5, <1>7, <1>8, <2>1, GoodStays
<1> QED
  BY <1>9, <1>11, <1>12, <1>13, <1>14, <1>15, <1>16 DEF IInv, MergedOver, ExactMerge

\* and a step that changes nothing.
LEMMA StutterKeepsIInv ==
  ASSUME IInv, UNCHANGED vars
  PROVE  IInv'
<1>1. /\ files' = files /\ rows' = rows /\ count' = count /\ job' = job
      /\ asked' = asked /\ state' = state /\ edits' = edits /\ faults' = faults
  BY DEF vars
<1>2. TypeOK'
  BY <1>1 DEF IInv, TypeOK
<1>3. KindsOfSteps' /\ MergesFit'
  BY <1>1 DEF IInv, KindsOfSteps, MergesFit, In
<1>4. Ordered(job.todo)'
  BY <1>1 DEF IInv, Ordered, Earlier, Follows, Takes, Moves, NextIn
<1> SUFFICES ASSUME NEW d \in Datasets
             PROVE  Good(d)' /\ MergedOver(d)' /\ ExactMerge(d)'
  BY <1>2, <1>3, <1>4 DEF IInv
<1>5. Good(d) /\ MergedOver(d) /\ ExactMerge(d)
  BY DEF IInv
<1>6. /\ Todo(d)' = Todo(d) /\ Merging(d)' = Merging(d) /\ Sound(d)' = Sound(d)
      /\ state'[d] = state[d]
  BY <1>1 DEF Todo, Merging, Sound
<1>7. /\ \A e, s : In(e, s)' = In(e, s)
      /\ \A e, s, i : Ep(e, s, i)' = Ep(e, s, i)
  BY <1>1 DEF In, Ep
<1>8. Feasible(d)' = Feasible(d) /\ Spared(d)' = Spared(d) /\ Room(d)' = Room(d)
  BY <1>1, <1>6, <1>7 DEF Feasible, Spared, Room, Takes, Moves, NextIn, Follows, Earlier
<1>9. Kept(d)' = Kept(d)
  BY <1>1, <1>7 DEF Kept
<1>10. /\ \A s, i, j : Goes(d, s, i, j)' = Goes(d, s, i, j)
       /\ \A r, q, j : RowGoes(d, r, q, j)' = RowGoes(d, r, q, j)
  BY <1>1, <1>6, <1>7 DEF Goes, RowGoes, Takes, Moves
<1>11. MediaAgree(d)' = MediaAgree(d) /\ RowsAgree(d)' = RowsAgree(d)
  BY <1>1, <1>7, <1>10 DEF MediaAgree, RowsAgree
<1>12. ColumnsAgree(d)' = ColumnsAgree(d)
  BY <1>1, <1>6, <1>7 DEF ColumnsAgree, NextIn, Earlier
<1>13. Counted(d)' = Counted(d)
  BY <1>1, <1>6, <1>10 DEF Counted, Below
<1>14. Good(d)'
  BY <1>5, <1>6, <1>8, <1>9, <1>11, <1>12, <1>13 DEF Good
<1>15. MergedOver(d)'
  BY <1>1, <1>5, <1>6 DEF MergedOver
<1>16. ExactMerge(d)'
  <2> SUFFICES ASSUME Merging(d), Sound(d)
               PROVE  \E x, y \in Datasets \ {d} : state'[x] = "exact" /\ state'[y] = "exact"
                                                   /\ Merged(d, x, y)'
    BY <1>6 DEF ExactMerge
  <2>1. PICK x \in Datasets \ {d}, y \in Datasets \ {d} :
          state[x] = "exact" /\ state[y] = "exact" /\ Merged(d, x, y)
    BY <1>5 DEF ExactMerge
  <2>2. MergeSteps(x, y)' = MergeSteps(x, y) /\ Share(x)' = Share(x)
    BY <1>1, SourcesStay
  <2>3. \A at : Past(at)' = Past(at)
    BY <1>1 DEF Past
  <2>4. \A s, j : Comes(d, x, y, s, j)' = Comes(d, x, y, s, j)
    BY <1>7, <2>2 DEF Comes
  <2>5. Merged(d, x, y)'
    BY <1>1, <1>7, <2>1, <2>2, <2>3, <2>4 DEF Merged
  <2> QED
    BY <1>1, <2>1, <2>5
<1> QED
  BY <1>14, <1>15, <1>16

\* So the invariant is inductive.
LEMMA NextKeepsIInv ==
  ASSUME IInv, [Next]_vars
  PROVE  IInv'
<1>1. CASE UNCHANGED vars
  BY <1>1, StutterKeepsIInv
<1>2. CASE \E d \in Datasets :
             \/ \E D \in SUBSET Indices : D # {} /\ DeleteBatch(d, D)
             \/ \E k \in Indices : DeleteSingle(d, k)
             \/ \E x, y \in Datasets : MergeDatasets(x, y, d)
  BY <1>2, BatchKeepsIInv, SingleKeepsIInv, MergeKeepsIInv
<1>3. CASE \E x \in job.todo : Deletes(x)
  BY <1>3, DeletesKeepsIInv
<1>4. CASE \E x \in job.todo : Raise(x)
  BY <1>4, RaiseKeepsIInv
<1>5. CASE \E x \in job.todo : Merges(x)
  BY <1>5, MergesKeepsIInv
<1>6. CASE Crash
  BY <1>6, CrashKeepsIInv
<1>7. CASE \E x \in job.todo : Fail(x)
  BY <1>7, FailKeepsIInv
<1> QED
  BY <1>1, <1>2, <1>3, <1>4, <1>5, <1>6, <1>7 DEF Next, Deletes, Merges

----------------------------------------------------------------------------
(* The initial state.                                                      *)

\* The files at the beginning: each under the index of its episode, but the
\* missing.
LEMMA InitFiles ==
  ASSUME Init, NEW d \in Datasets, NEW s \in Range(Stores)
  PROVE  /\ files[d][s] \in FileMaps
         /\ \A i \in Nat :
              /\ i \in In(d, s) <=>
                   i \in 0 .. Episodes[d] - 1 /\ <<s, <<d, i + 1>>>> \notin Missing
              /\ i \in In(d, s) =>
                   files[d][s][i] = File(<<d, i + 1>>, IF s = "data" THEN i ELSE 0)
<1> DEFINE S == {i \in 0 .. Episodes[d] - 1 : <<s, <<d, i + 1>>>> \notin Missing}
           f == [i \in S |-> File(<<d, i + 1>>, IF s = "data" THEN i ELSE 0)]
<1>1. Episodes[d] \in Nat /\ Episodes[d] <= MaxIndex + 1 /\ MaxIndex \in Nat
  BY EditAssumption
<1>2. \A i \in 0 .. Episodes[d] - 1 : list[d][i + 1] = <<d, i + 1>>
  <2>1. list[d] = [n \in 1 .. Episodes[d] |-> <<d, n>>]
    BY DEF Init
  <2>2. \A i \in 0 .. Episodes[d] - 1 : i + 1 \in 1 .. Episodes[d]
    BY <1>1
  <2> QED
    BY <2>1, <2>2
<1>3. files[d][s] =
        [i \in {i \in 0 .. Episodes[d] - 1 : <<s, list[d][i + 1]>> \notin Missing} |->
           File(list[d][i + 1], IF s = "data" THEN i ELSE 0)]
  BY DEF Init
<1>4. files[d][s] = f
  <2>1. {i \in 0 .. Episodes[d] - 1 : <<s, list[d][i + 1]>> \notin Missing} = S
    BY <1>2
  <2> QED
    BY <1>2, <1>3, <2>1
<1>5. S \in SUBSET Indices
  BY <1>1 DEF Indices
<1>6. \A i \in S : File(<<d, i + 1>>, IF s = "data" THEN i ELSE 0) \in Contents
  <2> SUFFICES ASSUME NEW i \in S
               PROVE  File(<<d, i + 1>>, IF s = "data" THEN i ELSE 0) \in Contents
    OBVIOUS
  <2>1. i \in Int /\ i + 1 \in Nat
    BY <1>1
  <2>2. (IF s = "data" THEN i ELSE 0) \in Int
    BY <2>1
  <2> QED
    BY <2>1, <2>2 DEF File, Contents, Episode
<1>7. f \in [S -> Contents]
  BY <1>6
<1>8. files[d][s] \in FileMaps
  BY <1>4, <1>5, <1>7 DEF FileMaps
<1>9. In(d, s) = S
  BY <1>4 DEF In
<1> QED
  BY <1>4, <1>8, <1>9

\* The invariant holds at the beginning.
LEMMA InitKeepsIInv ==
  ASSUME Init
  PROVE  IInv
<1>0. \A d \in Datasets : /\ Episodes[d] \in Nat /\ Episodes[d] <= MaxIndex + 1
                          /\ MaxIndex \in Nat
  BY EditAssumption
<1>1. /\ "data" \in Range(Stores) /\ "data" \notin Range(Media)
      /\ \A s \in Range(Media) : s \in Range(Stores)
  BY DataIsStore
<1>2. job = NoJob /\ job.kind = "none" /\ job.todo = {} /\ job.on \in Datasets
  BY EditAssumption DEF Init, NoJob, Job
<1>3. job \in [kind : Kinds, on : Datasets, map : IndexMaps, todo : SUBSET Steps]
  <2>1. NoMap \in [{} -> Indices]
    BY DEF NoMap
  <2>2. NoMap \in IndexMaps
    BY <2>1 DEF IndexMaps
  <2> QED
    BY <1>2, <2>2 DEF NoJob, Job, Kinds
<1>4. files \in [Datasets -> [Range(Stores) -> FileMaps]]
  <2>1. \A d \in Datasets : \A s \in Range(Stores) : files[d][s] \in FileMaps
    BY InitFiles
  <2> DEFINE f(d, s) == [i \in {i \in 0 .. Episodes[d] - 1 : <<s, list[d][i + 1]>> \notin Missing} |->
                           File(list[d][i + 1], IF s = "data" THEN i ELSE 0)]
  <2>2. files = [d \in Datasets |-> [s \in Range(Stores) |-> f(d, s)]]
    BY DEF Init
  <2> HIDE DEF f
  <2> QED
    BY <2>1, <2>2
<1>5. \A d \in Datasets : \A r \in Range(RowFiles) : \A q :
        q \in rows[d][r] <=> \E i \in 0 .. Episodes[d] - 1 : q = Row(i, <<d, i + 1>>)
  <2> SUFFICES ASSUME NEW d \in Datasets, NEW r \in Range(RowFiles)
               PROVE  rows[d][r] = {Row(i, <<d, i + 1>>) : i \in 0 .. Episodes[d] - 1}
    OBVIOUS
  <2>1. rows[d][r] = {Row(i, list[d][i + 1]) : i \in 0 .. Episodes[d] - 1}
    BY DEF Init
  <2>2. list[d] = [n \in 1 .. Episodes[d] |-> <<d, n>>]
    BY DEF Init
  <2>3. \A i \in 0 .. Episodes[d] - 1 : i + 1 \in 1 .. Episodes[d]
    BY <1>0
  <2>4. \A i \in 0 .. Episodes[d] - 1 : list[d][i + 1] = <<d, i + 1>>
    BY <2>2, <2>3
  <2> QED
    BY <2>1, <2>4
<1>6. \A d \in Datasets : \A i \in 0 .. Episodes[d] - 1 :
        /\ i \in Indices /\ <<d, i + 1>> \in Episode /\ i \in Nat /\ i < Episodes[d]
  <2> SUFFICES ASSUME NEW d \in Datasets, NEW i \in 0 .. Episodes[d] - 1
               PROVE  i \in Indices /\ i + 1 \in Nat /\ i \in Nat /\ i < Episodes[d]
    BY DEF Episode
  <2> QED
    BY <1>0 DEF Indices
<1>7. rows \in [Datasets -> [Range(RowFiles) -> Rows]]
  <2>1. \A d \in Datasets : \A r \in Range(RowFiles) : rows[d][r] \in Rows
    <3> SUFFICES ASSUME NEW d \in Datasets, NEW r \in Range(RowFiles), NEW q \in rows[d][r]
                 PROVE  q \in [index : Indices, episode : Episode]
      BY DEF Rows
    <3> QED
      BY <1>5, <1>6 DEF Row
  <2> DEFINE f(d, r) == {Row(i, list[d][i + 1]) : i \in 0 .. Episodes[d] - 1}
  <2>2. rows = [d \in Datasets |-> [r \in Range(RowFiles) |-> f(d, r)]]
    BY DEF Init
  <2> HIDE DEF f
  <2> QED
    BY <2>1, <2>2
<1>8. /\ count = Episodes /\ count \in [Datasets -> Nat] /\ edits = 0 /\ faults = 0
      /\ state = [d \in Datasets |-> "exact"] /\ asked = [d \in Datasets |-> {}]
  BY EditAssumption DEF Init
<1>9. TypeOK
  BY <1>3, <1>4, <1>7, <1>8 DEF TypeOK
<1>10. KindsOfSteps /\ MergesFit /\ Ordered(job.todo)
  BY <1>2, NoneOrdered DEF KindsOfSteps, MergesFit
<1> SUFFICES ASSUME NEW d \in Datasets
             PROVE  Good(d) /\ MergedOver(d) /\ ExactMerge(d)
  BY <1>9, <1>10 DEF IInv
<1>11. Todo(d) = {} /\ ~Merging(d)
  BY <1>2 DEF Todo, Merging
<1>12. Feasible(d) /\ Spared(d) /\ Room(d)
  BY <1>11 DEF Feasible, Spared, Room
<1>f. \A e, c : File(e, c).episode = e /\ File(e, c).column = c
  BY DEF File
<1>13. \A s \in Range(Stores) : \A i \in In(d, s) :
         /\ i \in Nat /\ i \in 0 .. Episodes[d] - 1
         /\ Ep(d, s, i) = <<d, i + 1>>
         /\ s = "data" => files[d][s][i].column = i
  <2> SUFFICES ASSUME NEW s \in Range(Stores), NEW i \in In(d, s)
               PROVE  /\ i \in Nat /\ i \in 0 .. Episodes[d] - 1
                      /\ Ep(d, s, i) = <<d, i + 1>>
                      /\ s = "data" => files[d][s][i].column = i
    OBVIOUS
  <2>1. i \in Nat
    BY <1>9, MapsOK, EditAssumption DEF Indices
  <2>2. /\ i \in 0 .. Episodes[d] - 1
        /\ files[d][s][i] = File(<<d, i + 1>>, IF s = "data" THEN i ELSE 0)
    BY <2>1, InitFiles
  <2>3. CASE s = "data"
    <3>1. files[d][s][i] = File(<<d, i + 1>>, i)
      BY <2>2, <2>3
    <3> QED
      BY <1>f, <2>1, <2>2, <3>1 DEF Ep
  <2>4. CASE s # "data"
    <3>1. files[d][s][i] = File(<<d, i + 1>>, 0)
      BY <2>2, <2>4
    <3> QED
      BY <1>f, <2>1, <2>2, <2>4, <3>1 DEF Ep
  <2> QED
    BY <2>3, <2>4
<1>14. Kept(d)
  <2> SUFFICES ASSUME NEW n \in 1 .. Episodes[d], NEW s \in Range(Stores),
                      <<s, <<d, n>>>> \notin Missing
               PROVE  \E i \in In(d, s) : Ep(d, s, i) = <<d, n>>
    BY DEF Kept
  <2>1. n - 1 \in Nat /\ n - 1 \in 0 .. Episodes[d] - 1 /\ (n - 1) + 1 = n
    BY <1>0
  <2>2. n - 1 \in In(d, s)
    BY <2>1, InitFiles
  <2> QED
    BY <1>13, <2>1, <2>2
<1>16. MediaAgree(d)
  <2>1. \A i : <<"data", <<d, i + 1>>>> \notin Missing
    BY <1>1, EditAssumption
  <2>2. \A s \in Range(Media) : \A i \in In(d, s) :
          i \in In(d, "data") /\ Ep(d, "data", i) = Ep(d, s, i)
    BY <1>1, <1>13, <2>1, InitFiles
  <2> QED
    BY <1>9, <1>11, <2>2, AgreeAtRest
<1>17. RowsAgree(d)
  <2>1. \A r \in Range(RowFiles) : \A q \in rows[d][r] :
          q.episode = <<d, q.index + 1>>
    BY <1>5 DEF Row
  <2>2. \A r \in Range(RowFiles) : \A q \in rows[d][r] :
          q.index \in In(d, "data") => q.episode = Ep(d, "data", q.index)
    BY <1>1, <1>13, <2>1
  <2> QED
    BY <1>9, <1>11, <2>2, AgreeAtRest
<1>18. ColumnsAgree(d)
  <2>1. \A i \in In(d, "data") : files[d]["data"][i].column = i
    BY <1>1, <1>13
  <2> QED
    BY <1>9, <1>11, <2>1, AgreeAtRest
<1>19. Counted(d)
  <2>1. \A i \in In(d, "data") : i < count[d]
    BY <1>1, <1>6, <1>8, <1>13
  <2>2. \A r \in Range(RowFiles) : \A q \in rows[d][r] : q.index < count[d]
    BY <1>5, <1>6, <1>8 DEF Row
  <2> QED
    BY <1>9, <1>11, <2>1, <2>2, CountedAtRest
<1> QED
  BY <1>11, <1>12, <1>14, <1>16, <1>17, <1>18, <1>19 DEF Good, MergedOver, ExactMerge

----------------------------------------------------------------------------
(* The invariant of contents.                                              *)

\* The directories that hold the files of all a dataset's episodes: a merge does
\* not copy folders of images.
Complete == {"data"} \cup Range(Videos)

\* The lists are lists of episodes.
ListsOK == list \in [Datasets -> Seq(Episode)]

\* What is missing is nowhere; only parquet files have a column.
ContentsFit ==
  \A d \in Datasets : \A s \in Range(Stores) : \A i \in In(d, s) :
    /\ <<s, Ep(d, s, i)>> \notin Missing
    /\ s # "data" => files[d][s][i].column = 0

\* Each file goes to the place its episode has in the list, and each place gets
\* its file, unless that is missing.
FilesExact(d) ==
  \A s \in Complete :
    /\ \A i, j \in Indices : Goes(d, s, i, j) =>
         j + 1 \in DOMAIN list[d] /\ Ep(d, s, i) = list[d][j + 1]
    /\ \A n \in DOMAIN list[d] : <<s, list[d][n]>> \notin Missing =>
         \E i \in Indices : Goes(d, s, i, n - 1)

\* So does each row.
RowsExact(d) ==
  \A r \in Range(RowFiles) :
    /\ \A q \in rows[d][r] : \A j \in Indices : RowGoes(d, r, q, j) =>
         j + 1 \in DOMAIN list[d] /\ q.episode = list[d][j + 1]
    /\ \A n \in DOMAIN list[d] : \E q \in rows[d][r] : RowGoes(d, r, q, n - 1)

\* The count is the length of the list, or will be when it is written.
CountExact(d) ==
  /\ \A q \in Todo(d) : q.op = "info" => count[d] - q.from = Len(list[d])
  /\ (\A q \in Todo(d) : q.op # "info") => count[d] = Len(list[d])

\* Files, rows and count of a dataset.
AllExact(d) == FilesExact(d) /\ RowsExact(d) /\ CountExact(d)

\* What has been merged is all there was.
MergedAll(d, x, y) ==
  /\ list[d] = list[x] \o list[y]
  /\ Past(<<3, 1, 0>>) => \A r \in Range(RowFiles) : rows[x][r] \subseteq rows[d][r]
  /\ Past(<<3, 2, 0>>) => \A r \in Range(RowFiles) : \A w \in rows[y][r] :
                            Row(w.index + Share(x), w.episode) \in rows[d][r]
  /\ Past(<<4, 1, 0>>) => \A s \in Range(Videos) : In(x, s) \subseteq In(d, s)
  /\ Past(<<4, 2, 0>>) => \A s \in Range(Videos) : \A k \in In(y, s) :
                            k + Share(x) \in In(d, s)

\* The exact datasets that are merged.
Merger(d, x, y) ==
  state[x] = "exact" /\ state[y] = "exact" /\ Merged(d, x, y) /\ MergedAll(d, x, y)

\* A dataset that nothing has happened to is exact, or will be.
Exactly(d) ==
  state[d] = "exact" =>
    IF Merging(d) THEN \E x, y \in Datasets \ {d} : Merger(d, x, y) ELSE AllExact(d)

\* The invariant of contents, beside IInv.
EInv == ListsOK /\ ContentsFit /\ \A d \in Datasets : Exactly(d)

----------------------------------------------------------------------------
(* Contents: a deletion goes on.                                           *)

\* No step of a deletion loses a row or changes its way.
RowFlowBack(d) ==
  \A r \in Range(RowFiles) : \A w \in rows[d][r] : \A j \in Indices :
    RowGoes(d, r, w, j) =>
      \E q \in rows'[d][r] : RowGoes(d, r, q, j)' /\ q.episode = w.episode

\* Rows that stay go on where they went,
LEMMA RowsStayOn ==
  ASSUME NEW d \in Datasets, NEW x, Working(d, x), NEW r \in Range(RowFiles),
         ~(x.op = "rows" /\ x.in = r), rows'[d][r] = rows[d][r],
         NEW q \in rows[d][r], NEW j, RowGoes(d, r, q, j)
  PROVE  RowGoes(d, r, q, j)'
<1> DEFINE T == job.todo
<1>1. Todo(d) = T /\ Todo(d)' = T \ {x} /\ x \in T
  BY AtWork DEF Working
<1>2. \/ job' = NoJob /\ T \ {x} = {}
      \/ job'.map = job.map
  BY JobGoesOn DEF Working
<1> HIDE DEF T
<1>3. RowGoes(d, r, q, j)' <=>
         IF \E v \in T \ {x} : v.op = "rows" /\ v.in = r
         THEN q.index \in DOMAIN job'.map /\ j = job'.map[q.index] ELSE j = q.index
  BY <1>1 DEF RowGoes
<1>4. (\E v \in T \ {x} : v.op = "rows" /\ v.in = r)
        <=> (\E v \in T : v.op = "rows" /\ v.in = r)
  OBVIOUS
<1>5. RowGoes(d, r, q, j) <=>
         IF \E v \in T : v.op = "rows" /\ v.in = r
         THEN q.index \in DOMAIN job.map /\ j = job.map[q.index] ELSE j = q.index
  BY <1>1 DEF RowGoes
<1> QED
  BY <1>2, <1>3, <1>4, <1>5

\* and those that are rewritten have got there.
LEMMA RowsFlowBack ==
  ASSUME NEW d \in Datasets, NEW x, Working(d, x),
         \/ x.op # "rows" /\ \A r \in Range(RowFiles) : rows'[d][r] = rows[d][r]
         \/ RewriteRows(x)
  PROVE  RowFlowBack(d)
<1> SUFFICES ASSUME NEW r \in Range(RowFiles), NEW w \in rows[d][r], NEW j \in Indices,
                    RowGoes(d, r, w, j)
             PROVE  \E q \in rows'[d][r] : RowGoes(d, r, q, j)' /\ q.episode = w.episode
  BY DEF RowFlowBack
<1>1. CASE x.op # "rows" /\ \A t \in Range(RowFiles) : rows'[d][t] = rows[d][t]
  BY <1>1, RowsStayOn
<1>2. CASE RewriteRows(x)
  <2>1. /\ x.op = "rows" /\ x.in \in Range(RowFiles)
        /\ \A t \in Range(RowFiles) : t # x.in => rows'[d][t] = rows[d][t]
        /\ rows'[d][x.in] = {Row(job.map[v.index], v.episode) :
                                v \in {v \in rows[d][x.in] : v.index \in DOMAIN job.map}}
    BY <1>2, RewriteDoes DEF Working
  <2>2. CASE r # x.in
    BY <2>1, <2>2, RowsStayOn
  <2>3. CASE r = x.in
    <3>1. Todo(d) = job.todo /\ Todo(d)' = job.todo \ {x} /\ x \in job.todo
      BY AtWork DEF Working
    <3>2. w.index \in DOMAIN job.map /\ j = job.map[w.index]
      BY <2>1, <2>3, <3>1 DEF RowGoes
    <3>3. \A v \in job.todo : v.op = "rows" /\ v.in = r => v = x
      BY <2>1, <2>3, <3>1 DEF Working, Ordered
    <3>4. PICK q \in rows'[d][r] : q.index = j /\ q.episode = w.episode
      <4>1. Row(j, w.episode) \in rows'[d][r]
        BY <2>1, <2>3, <3>2
      <4>2. Row(j, w.episode).index = j /\ Row(j, w.episode).episode = w.episode
        BY DEF Row
      <4> QED
        BY <4>1, <4>2
    <3>5. RowGoes(d, r, q, j)'
      BY <3>1, <3>3, <3>4 DEF RowGoes
    <3> QED
      BY <3>4, <3>5
  <2> QED
    BY <2>2, <2>3
<1> QED
  BY <1>1, <1>2

\* What a step of a deletion does to the ways of files and rows.
LEMMA DeletionFlows ==
  ASSUME NEW d \in Datasets, NEW x, Working(d, x), Deletes(x)
  PROVE  /\ Flow(d) /\ RowFlow(d) /\ RowFlowBack(d)
         /\ WriteInfo(x) \/ (x.op # "info" /\ UNCHANGED count)
         /\ list' = list
<1>1. /\ Flow(d)
      /\ \/ x.op # "rows" /\ UNCHANGED rows
         \/ RewriteRows(x)
      /\ WriteInfo(x) \/ (x.op # "info" /\ UNCHANGED count)
  <2>1. CASE UnlinkFile(x)
    BY <2>1, UnlinkFlows DEF UnlinkFile, Doing
  <2>2. CASE RenameFile(x)
    BY <2>2, RenameHasEffect DEF RenameFile, Doing
  <2>3. CASE CopyParquet(x)
    BY <2>3, CopyHasEffect DEF CopyParquet, Doing
  <2>4. CASE PatchParquet(x)
    BY <2>4, StillHasEffect DEF PatchParquet, Doing
  <2>5. CASE RewriteRows(x)
    <3>1. x.op = "rows" /\ UNCHANGED <<files, count>>
      BY <2>5 DEF RewriteRows, Doing
    <3> QED
      BY <2>5, <3>1, StillHasEffect
  <2>6. CASE WriteInfo(x)
    <3>1. x.op = "info" /\ UNCHANGED <<files, rows>>
      BY <2>6 DEF WriteInfo, Doing
    <3> QED
      BY <2>6, <3>1, StillHasEffect
  <2>7. CASE Doing("raise", x) /\ Done(x) /\ UNCHANGED <<files, rows, count, history>>
    <3>1. x.op = "raise" /\ UNCHANGED <<files, rows, count>>
      BY <2>7 DEF Doing
    <3> QED
      BY <3>1, StillHasEffect
  <2> QED
    BY <2>1, <2>2, <2>3, <2>4, <2>5, <2>6, <2>7 DEF Deletes
<1>2. RowFlow(d) /\ RowFlowBack(d)
  BY <1>1, RowsFlow, RowsFlowBack
<1>3. list' = list
  BY DEF Deletes, UnlinkFile, RenameFile, CopyParquet, PatchParquet, RewriteRows, WriteInfo,
         history
<1> QED
  BY <1>1, <1>2, <1>3

\* Files and rows go to indices.
LEMMA GoesToIndex ==
  ASSUME NEW d \in Datasets, TypeOK, Feasible(d)
  PROVE  /\ \A s \in Range(Stores) : \A i, j : Goes(d, s, i, j) => i \in Indices /\ j \in Indices
         /\ \A r \in Range(RowFiles) : \A q \in rows[d][r] : \A j :
              RowGoes(d, r, q, j) => j \in Indices
<1>1. ASSUME NEW s \in Range(Stores), NEW i, NEW j, Goes(d, s, i, j)
      PROVE  i \in Indices /\ j \in Indices
  BY <1>1, MapsOK DEF Goes, Feasible, Moves, Takes
<1>2. ASSUME NEW r \in Range(RowFiles), NEW q \in rows[d][r], NEW j, RowGoes(d, r, q, j)
      PROVE  j \in Indices
  <2>1. q.index \in Indices
    BY DEF TypeOK, Rows
  <2> QED
    BY <1>2, <2>1, MapIsMap DEF RowGoes
<1> QED
  BY <1>1, <1>2

\* So an exact dataset stays exact.
LEMMA AllExactAfter ==
  ASSUME NEW d \in Datasets, NEW x, Working(d, x), Deletes(x), Counted(d), AllExact(d)
  PROVE  AllExact(d)'
<1>1. /\ Flow(d) /\ RowFlow(d) /\ RowFlowBack(d) /\ list' = list
      /\ WriteInfo(x) \/ (x.op # "info" /\ UNCHANGED count)
  BY DeletionFlows
<1>2. TypeOK /\ Feasible(d) /\ \A s \in Complete : s \in Range(Stores)
  BY DataIsStore DEF Working, Complete
<1>3. FilesExact(d)'
  <2> SUFFICES ASSUME NEW s \in Complete
               PROVE  /\ \A i, j \in Indices : Goes(d, s, i, j)' =>
                           j + 1 \in DOMAIN list[d] /\ Ep(d, s, i)' = list[d][j + 1]
                      /\ \A n \in DOMAIN list[d] : <<s, list[d][n]>> \notin Missing =>
                           \E i \in Indices : Goes(d, s, i, n - 1)'
    BY <1>1 DEF FilesExact
  <2>1. ASSUME NEW i \in Indices, NEW j \in Indices, Goes(d, s, i, j)'
        PROVE  j + 1 \in DOMAIN list[d] /\ Ep(d, s, i)' = list[d][j + 1]
    <3>1. PICK k \in Indices : Goes(d, s, k, j) /\ Ep(d, s, k) = Ep(d, s, i)'
      BY <1>1, <1>2, <2>1 DEF Flow
    <3> QED
      BY <3>1 DEF AllExact, FilesExact
  <2>2. ASSUME NEW n \in DOMAIN list[d], <<s, list[d][n]>> \notin Missing
        PROVE  \E i \in Indices : Goes(d, s, i, n - 1)'
    <3>1. PICK i \in Indices : Goes(d, s, i, n - 1)
      BY <2>2 DEF AllExact, FilesExact
    <3>2. n - 1 \in Indices
      BY <1>2, <3>1, GoesToIndex
    <3> QED
      BY <1>1, <1>2, <3>1, <3>2 DEF Flow
  <2> QED
    BY <2>1, <2>2
<1>4. RowsExact(d)'
  <2> SUFFICES ASSUME NEW r \in Range(RowFiles)
               PROVE  /\ \A q \in rows'[d][r] : \A j \in Indices : RowGoes(d, r, q, j)' =>
                           j + 1 \in DOMAIN list[d] /\ q.episode = list[d][j + 1]
                      /\ \A n \in DOMAIN list[d] : \E q \in rows'[d][r] :
                           RowGoes(d, r, q, n - 1)'
    BY <1>1 DEF RowsExact
  <2>1. ASSUME NEW q \in rows'[d][r], NEW j \in Indices, RowGoes(d, r, q, j)'
        PROVE  j + 1 \in DOMAIN list[d] /\ q.episode = list[d][j + 1]
    <3>1. PICK w \in rows[d][r] : RowGoes(d, r, w, j) /\ w.episode = q.episode
      BY <1>1, <2>1 DEF RowFlow
    <3> QED
      BY <3>1 DEF AllExact, RowsExact
  <2>2. ASSUME NEW n \in DOMAIN list[d]
        PROVE  \E q \in rows'[d][r] : RowGoes(d, r, q, n - 1)'
    <3>1. PICK w \in rows[d][r] : RowGoes(d, r, w, n - 1)
      BY DEF AllExact, RowsExact
    <3>2. n - 1 \in Indices
      BY <1>2, <3>1, GoesToIndex
    <3> QED
      BY <1>1, <3>1, <3>2 DEF RowFlowBack
  <2> QED
    BY <2>1, <2>2
<1>5. CountExact(d)'
  <2> DEFINE T == job.todo
  <2>1. Todo(d) = T /\ Todo(d)' = T \ {x} /\ x \in T /\ Ordered(T)
    BY AtWork DEF Working
  <2> HIDE DEF T
  <2>2. CountExact(d) /\ (CountExact(d)' <=>
          /\ \A q \in T \ {x} : q.op = "info" => count'[d] - q.from = Len(list[d])
          /\ (\A q \in T \ {x} : q.op # "info") => count'[d] = Len(list[d]))
    BY <1>1, <2>1 DEF AllExact, CountExact
  <2>3. CASE x.op # "info" /\ UNCHANGED count
    BY <2>1, <2>2, <2>3 DEF CountExact
  <2>4. CASE WriteInfo(x)
    <3>1. /\ x.op = "info" /\ x.from \in Nat
          /\ count'[d] = IF count[d] > x.from THEN count[d] - x.from ELSE 0
      BY <2>4, InfoDoes DEF Working
    <3>2. \A q \in T \ {x} : q.op # "info"
      BY <2>1, <3>1 DEF Ordered
    <3>3. x.from <= count[d] /\ count[d] - x.from = Len(list[d])
      BY <2>1, <2>2, <3>1 DEF Counted, CountExact
    <3>4. count[d] \in Nat
      BY <1>2 DEF TypeOK
    <3>5. count'[d] = count[d] - x.from
      BY <3>1, <3>3, <3>4
    <3> QED
      BY <2>2, <3>2, <3>3, <3>5
  <2> QED
    BY <1>1, <2>3, <2>4
<1> QED
  BY <1>3, <1>4, <1>5 DEF AllExact

----------------------------------------------------------------------------
(* Contents: where they come from.                                         *)

\* A file of the directory s has what the directory of some dataset had.
FromFile(s, c) ==
  \E f \in Datasets : \E k \in In(f, s) :
    c.episode = Ep(f, s, k) /\ (s # "data" => c.column = files[f][s][k].column)

\* No step makes up the contents of a file.
NothingNew ==
  \A e \in Datasets : \A s \in Range(Stores) : \A i \in In(e, s)' :
    FromFile(s, files'[e][s][i])

\* What is in a file is from there.
LEMMA FileIsFromFile ==
  ASSUME NEW e \in Datasets, NEW s, NEW i \in In(e, s)
  PROVE  FromFile(s, files[e][s][i])
BY DEF FromFile, Ep

\* Directories that are left alone have nothing new.
LEMMA SameDirectory ==
  ASSUME NEW e \in Datasets, NEW s, files'[e][s] = files[e][s]
  PROVE  \A i \in In(e, s)' : FromFile(s, files'[e][s][i])
<1>1. In(e, s)' = In(e, s)
  BY DEF In
<1> QED
  BY <1>1, FileIsFromFile

\* The steps of a deletion make up nothing,
LEMMA DeletionNothingNew ==
  ASSUME NEW d \in Datasets, NEW x, Working(d, x), Deletes(x)
  PROVE  NothingNew
<1> SUFFICES ASSUME NEW e \in Datasets, NEW s \in Range(Stores), NEW i \in In(e, s)'
             PROVE  FromFile(s, files'[e][s][i])
  BY DEF NothingNew
<1>1. CASE files'[e][s] = files[e][s]
  BY <1>1, SameDirectory
<1>2. CASE UnlinkFile(x) /\ files'[e][s] # files[e][s]
  <2>a. /\ \A g \in Datasets : \A t \in Range(Stores) :
             g # d \/ t # x.in => files'[g][t] = files[g][t]
        /\ In(d, x.in)' = In(d, x.in) \ {x.from}
        /\ \A k \in In(d, x.in) \ {x.from} : files'[d][x.in][k] = files[d][x.in][k]
    BY <1>2, UnlinkDoes DEF Working
  <2>b. e = d /\ s = x.in
    BY <1>2, <2>a
  <2>1. /\ e = d /\ s = x.in /\ In(d, s)' = In(d, s) \ {x.from}
        /\ \A k \in In(d, s) \ {x.from} : files'[d][s][k] = files[d][s][k]
    BY <2>a, <2>b
  <2> QED
    BY <2>1, FileIsFromFile
<1>3. CASE RenameFile(x) /\ files'[e][s] # files[e][s]
  <2>1. x.from # x.to
    BY <1>3, MovesSomewhere, AtWork DEF Working, RenameFile, Doing, Moves
  <2>a. /\ \A g \in Datasets : \A t \in Range(Stores) :
             g # d \/ t # x.in => files'[g][t] = files[g][t]
        /\ x.from \in In(d, x.in)
        /\ In(d, x.in)' = (In(d, x.in) \ {x.from}) \cup {x.to}
        /\ files'[d][x.in][x.to] = files[d][x.in][x.from]
        /\ \A k \in In(d, x.in) \ {x.from, x.to} :
             files'[d][x.in][k] = files[d][x.in][k]
    BY <1>3, <2>1, RenameDoes DEF Working
  <2>b. e = d /\ s = x.in
    BY <1>3, <2>a
  <2>2. /\ e = d /\ s = x.in /\ In(d, s)' = (In(d, s) \ {x.from}) \cup {x.to}
        /\ x.from \in In(d, s) /\ files'[d][s][x.to] = files[d][s][x.from]
        /\ \A k \in In(d, s) \ {x.from, x.to} : files'[d][s][k] = files[d][s][k]
    BY <2>a, <2>b
  <2>3. CASE i = x.to
    BY <2>2, <2>3, FileIsFromFile
  <2>4. CASE i # x.to
    <3>1. i \in In(d, s) \ {x.from, x.to}
      BY <2>2, <2>4
    <3> QED
      BY <2>2, <3>1, FileIsFromFile
  <2> QED
    BY <2>3, <2>4
<1>4. CASE CopyParquet(x) /\ files'[e][s] # files[e][s]
  <2>1. x.from # x.to
    BY <1>4, MovesSomewhere, AtWork DEF Working, CopyParquet, Doing, Moves
  <2>a. /\ \A g \in Datasets : \A t \in Range(Stores) :
             g # d \/ t # x.in => files'[g][t] = files[g][t]
        /\ x.in = "data" /\ x.from \in In(d, x.in)
        /\ In(d, x.in)' = In(d, x.in) \cup {x.to}
        /\ files'[d][x.in][x.to] = File(files[d][x.in][x.from].episode, x.to)
        /\ \A k \in In(d, x.in) \ {x.to} : files'[d][x.in][k] = files[d][x.in][k]
    BY <1>4, <2>1, CopyDoes DEF Working
  <2>b. e = d /\ s = x.in
    BY <1>4, <2>a
  <2>2. /\ e = d /\ s = x.in /\ s = "data" /\ In(d, s)' = In(d, s) \cup {x.to}
        /\ x.from \in In(d, s)
        /\ files'[d][s][x.to] = File(files[d][s][x.from].episode, x.to)
        /\ \A k \in In(d, s) \ {x.to} : files'[d][s][k] = files[d][s][k]
    BY <2>a, <2>b
  <2>3. CASE i = x.to
    <3>1. files'[e][s][i].episode = Ep(d, s, x.from)
      BY <2>2, <2>3 DEF File, Ep
    <3> QED
      BY <2>2, <3>1 DEF FromFile
  <2>4. CASE i # x.to
    BY <2>2, <2>4, FileIsFromFile
  <2> QED
    BY <2>3, <2>4
<1>5. CASE PatchParquet(x) /\ files'[e][s] # files[e][s]
  <2>1. /\ e = d /\ s = "data" /\ In(d, "data")' = In(d, "data")
        /\ \A k \in In(d, "data") :
             files'[d]["data"][k].episode = files[d]["data"][k].episode
    BY <1>5, PatchDoes DEF Working
  <2> QED
    BY <2>1 DEF FromFile, Ep
<1>6. CASE UNCHANGED files
  BY <1>1, <1>6
<1> QED
  BY <1>1, <1>2, <1>3, <1>4, <1>5, <1>6 DEF Deletes, RewriteRows, WriteInfo

\* nor do those of a merge.
LEMMA MergeNothingNew ==
  ASSUME NEW d \in Datasets, NEW z, Combining(d, z), Merges(z)
  PROVE  NothingNew
<1> SUFFICES ASSUME NEW e \in Datasets, NEW s \in Range(Stores), NEW i \in In(e, s)'
             PROVE  FromFile(s, files'[e][s][i])
  BY DEF NothingNew
<1>1. CASE files'[e][s] = files[e][s]
  BY <1>1, SameDirectory
<1>2. CASE MergeData(z) /\ files'[e][s] # files[e][s]
  <2>a. /\ \A g \in Datasets : \A t \in Range(Stores) :
             g # d \/ t # "data" => files'[g][t] = files[g][t]
        /\ z.in \in Datasets /\ z.from \in Nat
    BY <1>2, MergeDataDoes DEF Combining
  <2>b. e = d /\ s = "data"
    BY <1>2, <2>a
  <2>1. /\ e = d /\ s = "data" /\ z.in \in Datasets /\ z.from \in Nat
        /\ In(d, "data")' = In(d, "data") \cup {k + z.from : k \in In(z.in, "data")}
        /\ \A k \in In(d, "data") \cup {k + z.from : k \in In(z.in, "data")} :
             files'[d]["data"][k] =
               IF k - z.from \in In(z.in, "data")
               THEN File(Ep(z.in, "data", k - z.from), k) ELSE files[d]["data"][k]
    BY <1>2, <2>a, <2>b, MergeDataDoes DEF Combining
  <2>2. files'[d]["data"][i] =
          IF i - z.from \in In(z.in, "data")
          THEN File(Ep(z.in, "data", i - z.from), i) ELSE files[d]["data"][i]
    BY <2>1
  <2>3. CASE i - z.from \in In(z.in, "data")
    <3>1. files'[d]["data"][i].episode = Ep(z.in, "data", i - z.from)
      BY <2>2, <2>3 DEF File
    <3> QED
      BY <2>1, <2>3, <3>1 DEF FromFile
  <2>4. CASE i - z.from \notin In(z.in, "data")
    <3>1. i \in In(d, "data")
      <4> SUFFICES ASSUME NEW k \in In(z.in, "data"), i = k + z.from
                   PROVE  FALSE
        BY <2>1
      <4>1. In(z.in, "data") \in SUBSET Indices
        BY <2>1, MapsOK, DataIsStore DEF Combining
      <4>2. k \in Int /\ z.from \in Int
        BY <2>1, <4>1 DEF Indices
      <4>3. i - z.from = k
        BY <4>2, PlusMinus
      <4> QED
        BY <2>4, <4>3
    <3> QED
      BY <2>1, <2>2, <2>4, <3>1, FileIsFromFile
  <2> QED
    BY <2>3, <2>4
<1>3. CASE MergeVideos(z) /\ files'[e][s] # files[e][s]
  <2>a. /\ \A g \in Datasets : \A t \in Range(Stores) :
             g # d \/ t \notin Range(Videos) => files'[g][t] = files[g][t]
        /\ z.in \in Datasets /\ z.from \in Nat
    BY <1>3, MergeVideosDoes DEF Combining
  <2>1. e = d /\ s \in Range(Videos) /\ z.in \in Datasets /\ z.from \in Nat
    BY <1>3, <2>a
  <2>b. \A t \in Range(Videos) :
          /\ In(d, t)' = In(d, t) \cup {k + z.from : k \in {g \in In(z.in, t) : g < z.to}}
          /\ \A k \in In(d, t) : files'[d][t][k] = files[d][t][k]
          /\ \A k \in In(z.in, t) : k < z.to /\ k + z.from \notin In(d, t) =>
               files'[d][t][k + z.from] = files[z.in][t][k]
    BY <1>3, MergeVideosDoes DEF Combining
  <2>2. /\ In(d, s)' = In(d, s) \cup {k + z.from : k \in {g \in In(z.in, s) : g < z.to}}
        /\ \A k \in In(d, s) : files'[d][s][k] = files[d][s][k]
        /\ \A k \in In(z.in, s) : k < z.to /\ k + z.from \notin In(d, s) =>
             files'[d][s][k + z.from] = files[z.in][s][k]
    BY <2>1, <2>b
  <2>3. CASE i \in In(d, s)
    BY <2>1, <2>2, <2>3, FileIsFromFile
  <2>4. CASE i \notin In(d, s)
    <3>1. PICK k \in In(z.in, s) : k < z.to /\ i = k + z.from
      BY <2>1, <2>2, <2>4
    <3> QED
      BY <2>1, <2>2, <2>4, <3>1, FileIsFromFile
  <2> QED
    BY <2>3, <2>4
<1>4. CASE UNCHANGED files
  BY <1>1, <1>4
<1> QED
  BY <1>1, <1>2, <1>3, <1>4 DEF Merges, ClearMeta, MergeMeta

\* So what is missing appears nowhere.
LEMMA ContentsFitAfter ==
  ASSUME ContentsFit, NothingNew
  PROVE  ContentsFit'
<1> SUFFICES ASSUME NEW d \in Datasets, NEW s \in Range(Stores), NEW i \in In(d, s)'
             PROVE  /\ <<s, Ep(d, s, i)'>> \notin Missing
                    /\ s # "data" => files'[d][s][i].column = 0
  BY DEF ContentsFit
<1>1. PICK f \in Datasets : \E k \in In(f, s) :
        /\ files'[d][s][i].episode = Ep(f, s, k)
        /\ s # "data" => files'[d][s][i].column = files[f][s][k].column
  BY DEF NothingNew, FromFile
<1>4. PICK k \in In(f, s) :
        /\ files'[d][s][i].episode = Ep(f, s, k)
        /\ s # "data" => files'[d][s][i].column = files[f][s][k].column
  BY <1>1
<1>2. <<s, Ep(f, s, k)>> \notin Missing /\ (s # "data" => files[f][s][k].column = 0)
  BY DEF ContentsFit
<1>3. Ep(d, s, i)' = files'[d][s][i].episode
  BY DEF Ep
<1> QED
  BY <1>4, <1>2, <1>3

----------------------------------------------------------------------------
(* Contents: a dataset at rest.                                            *)

\* No step is left, or only the error that a missing file is.
AtRest(d) == \A q \in Todo(d) : q.op = "raise"

\* Everything is in its place.
InPlace(d) ==
  /\ \A s \in Complete :
       /\ \A i \in In(d, s) : i + 1 \in DOMAIN list[d] /\ Ep(d, s, i) = list[d][i + 1]
       /\ \A n \in DOMAIN list[d] : <<s, list[d][n]>> \notin Missing => n - 1 \in In(d, s)
  /\ \A r \in Range(RowFiles) :
       /\ \A q \in rows[d][r] :
            q.index + 1 \in DOMAIN list[d] /\ q.episode = list[d][q.index + 1]
       /\ \A n \in DOMAIN list[d] : \E q \in rows[d][r] : q.index = n - 1
  /\ count[d] = Len(list[d])

\* At rest is a law of any state.
RestLaw ==
  \A d \in Datasets :
    TypeOK /\ AtRest(d) => (AllExact(d) <=> InPlace(d))

\* So a dataset at rest is exact when everything is in its place,
LEMMA ExactAtRest == RestLaw
<1> SUFFICES ASSUME NEW d \in Datasets, TypeOK, AtRest(d)
             PROVE  AllExact(d) <=> InPlace(d)
  BY DEF RestLaw
<1>a. \A q \in Todo(d) : ~Takes(q) /\ ~Moves(q) /\ q.op # "rows" /\ q.op # "info"
  BY DEF AtRest, Takes, Moves
<1>1. /\ \A s, i, j : Goes(d, s, i, j) <=> i \in In(d, s) /\ i = j
      /\ \A r, q, j : RowGoes(d, r, q, j) <=> q \in rows[d][r] /\ j = q.index
  BY <1>a DEF Goes, RowGoes
<1>2. \A s \in Complete : s \in Range(Stores) /\ In(d, s) \in SUBSET Indices
  <2>1. \A s \in Complete : s \in Range(Stores)
    BY DataIsStore DEF Complete
  <2> QED
    BY <2>1, MapsOK
<1>3. \A r \in Range(RowFiles) : \A q \in rows[d][r] : q.index \in Indices
  BY DEF TypeOK, Rows
<1>4. FilesExact(d) <=>
        \A s \in Complete :
          /\ \A i \in In(d, s) : i + 1 \in DOMAIN list[d] /\ Ep(d, s, i) = list[d][i + 1]
          /\ \A n \in DOMAIN list[d] : <<s, list[d][n]>> \notin Missing => n - 1 \in In(d, s)
  BY <1>1, <1>2 DEF FilesExact
<1>5. RowsExact(d) <=>
        \A r \in Range(RowFiles) :
          /\ \A q \in rows[d][r] :
               q.index + 1 \in DOMAIN list[d] /\ q.episode = list[d][q.index + 1]
          /\ \A n \in DOMAIN list[d] : \E q \in rows[d][r] : q.index = n - 1
  BY <1>1, <1>3 DEF RowsExact
<1>6. CountExact(d) <=> count[d] = Len(list[d])
  BY <1>a DEF CountExact
<1> QED
  BY <1>4, <1>5, <1>6 DEF AllExact, InPlace

\* in the next state as well,
LEMMA ExactAtRestNext == RestLaw'
BY ExactAtRest, PTL

\* and stays so when it is left alone.
LEMMA ExactStays ==
  ASSUME TypeOK, TypeOK', NEW e \in Datasets, Todo(e) = {}, Todo(e)' = {},
         ~Merging(e), ~Merging(e)',
         files'[e] = files[e], rows'[e] = rows[e], count'[e] = count[e],
         list'[e] = list[e], state'[e] = state[e], Exactly(e)
  PROVE  Exactly(e)'
<1> SUFFICES ASSUME state[e] = "exact"
             PROVE  AllExact(e)'
  BY DEF Exactly
<1>1. InPlace(e)
  BY ExactAtRest DEF RestLaw, AtRest, Exactly
<1>2. \A s : In(e, s)' = In(e, s) /\ \A i : Ep(e, s, i)' = Ep(e, s, i)
  BY DEF In, Ep
<1>3. InPlace(e)'
  BY <1>1, <1>2 DEF InPlace
<1> QED
  BY <1>3, ExactAtRestNext DEF RestLaw, AtRest

----------------------------------------------------------------------------
(* Contents: a merge goes on.                                              *)

\* What a step of a merge must do to what has been merged.
LEMMA MergedAllNext ==
  ASSUME NEW d \in Datasets, NEW z, Combining(d, z), Merges(z), UNCHANGED <<asked, state>>,
         NEW x \in Datasets \ {d}, NEW y \in Datasets \ {d}, MergedAll(d, x, y),
         list' = list,
         Past(<<3, 1, 0>>)' => \A r \in Range(RowFiles) : rows[x][r] \subseteq rows'[d][r],
         Past(<<3, 2, 0>>)' => \A r \in Range(RowFiles) : \A w \in rows[y][r] :
                                 Row(w.index + Share(x), w.episode) \in rows'[d][r],
         Past(<<4, 1, 0>>)' => \A s \in Range(Videos) : In(x, s) \subseteq In(d, s)',
         Past(<<4, 2, 0>>)' => \A s \in Range(Videos) : \A k \in In(y, s) :
                                 k + Share(x) \in In(d, s)'
  PROVE  MergedAll(d, x, y)'
<1>1. \A e \in {x, y} : files'[e] = files[e] /\ rows'[e] = rows[e] /\ count'[e] = count[e]
  BY OthersStay
<1>2. Share(x)' = Share(x) /\ \A s : In(x, s)' = In(x, s) /\ In(y, s)' = In(y, s)
  BY <1>1, SourcesStay
<1> QED
  BY <1>1, <1>2 DEF MergedAll

\* What has been merged stays; what the step merges is all there was.
LEMMA MergesAllGoesOn ==
  ASSUME NEW d \in Datasets, NEW z, Combining(d, z), Merges(z), UNCHANGED <<asked, state>>,
         NEW x \in Datasets \ {d}, NEW y \in Datasets \ {d}, Merged(d, x, y),
         Source(x), Source(y), MergedAll(d, x, y)
  PROVE  MergedAll(d, x, y)'
<1>1. /\ \A at : Past(at)' <=> Past(at) \/ z.at = at
      /\ ~Past(z.at)
  BY PastAfter
<1>t. TypeOK /\ MergesFit /\ d = job.on /\ z \in job.todo
  BY DEF Combining
<1>m. z \in MergeSteps(x, y)
  BY <1>t DEF Merged
<1>2. list' = list
  BY DEF Merges, MergeData, ClearMeta, MergeMeta, MergeVideos, history
<1>3. /\ Past(<<3, 1, 0>>) => \A r \in Range(RowFiles) : rows[x][r] \subseteq rows[d][r]
      /\ Past(<<3, 2, 0>>) => \A r \in Range(RowFiles) : \A w \in rows[y][r] :
                                Row(w.index + Share(x), w.episode) \in rows[d][r]
      /\ Past(<<4, 1, 0>>) => \A s \in Range(Videos) : In(x, s) \subseteq In(d, s)
      /\ Past(<<4, 2, 0>>) => \A s \in Range(Videos) : \A k \in In(y, s) :
                                k + Share(x) \in In(d, s)
  BY DEF MergedAll
<1>4. /\ "data" \notin Range(Videos) /\ \A s \in Range(Videos) : s \in Range(Stores)
      /\ \A s \in Range(Videos) : s \in Range(Media)
  BY DataIsStore
<1>5. CASE MergeData(z)
  <2>1. /\ z.op = "merge data" /\ rows' = rows
        /\ \A s \in Range(Stores) : s # "data" => files'[d][s] = files[d][s]
    <3>1. rows' = rows
      BY <1>5 DEF MergeData
    <3>2. /\ z.op = "merge data"
          /\ \A e \in Datasets : \A s \in Range(Stores) :
               e # d \/ s # "data" => files'[e][s] = files[e][s]
      BY <1>t, <1>5, MergeDataDoes
    <3> QED
      BY <3>1, <3>2
  <2>2. z.at = <<1, 1, 0>> \/ z.at = <<1, 2, 0>>
    <3>1. z.op = "merge data"
      BY <2>1
    <3> QED
      BY <1>m, <3>1, WhichStep
  <2>3. /\ Past(<<3, 1, 0>>)' <=> Past(<<3, 1, 0>>)
        /\ Past(<<3, 2, 0>>)' <=> Past(<<3, 2, 0>>)
        /\ Past(<<4, 1, 0>>)' <=> Past(<<4, 1, 0>>)
        /\ Past(<<4, 2, 0>>)' <=> Past(<<4, 2, 0>>)
    BY <1>1, <2>2
  <2>4. \A s \in Range(Videos) : In(d, s)' = In(d, s)
    BY <1>4, <2>1 DEF In
  <2> QED
    BY <1>2, <1>3, <2>1, <2>3, <2>4, MergedAllNext
<1>6. CASE ClearMeta(z)
  <2>1. z.op = "clear" /\ files' = files
    BY <1>6 DEF ClearMeta, Doing
  <2>2. z.at = <<2, 0, 0>>
    BY <1>m, <2>1, WhichStep
  <2>3. ~Past(<<3, 1, 0>>) /\ ~Past(<<3, 2, 0>>)
    BY <1>1, <2>2 DEF Merged
  <2>4. /\ ~Past(<<3, 1, 0>>)' /\ ~Past(<<3, 2, 0>>)'
        /\ Past(<<4, 1, 0>>)' <=> Past(<<4, 1, 0>>)
        /\ Past(<<4, 2, 0>>)' <=> Past(<<4, 2, 0>>)
    BY <1>1, <2>2, <2>3
  <2>5. \A s \in Range(Videos) : In(d, s)' = In(d, s)
    BY <2>1 DEF In
  <2> QED
    BY <1>2, <1>3, <2>4, <2>5, MergedAllNext
<1>7. CASE MergeMeta(z)
  <2>1. /\ z.op = "merge meta" /\ files' = files
        /\ \A r \in Range(RowFiles) : rows'[d][r] =
             rows[d][r] \cup {Row(q.index + z.from, q.episode) : q \in rows[z.in][r]}
    <3>1. files' = files
      BY <1>7 DEF MergeMeta
    <3> QED
      BY <1>t, <1>7, <3>1, MergeMetaDoes
  <2>2. \A s \in Range(Videos) : In(d, s)' = In(d, s)
    BY <2>1 DEF In
  <2>3. \/ z.at = <<3, 1, 0>> /\ z.in = x /\ z.from = 0
        \/ z.at = <<3, 2, 0>> /\ z.in = y /\ z.from = Share(x)
    BY <1>m, <2>1, WhichStep
  <2>4. /\ Past(<<4, 1, 0>>)' <=> Past(<<4, 1, 0>>)
        /\ Past(<<4, 2, 0>>)' <=> Past(<<4, 2, 0>>)
    BY <1>1, <2>3
  <2>5. \A r \in Range(RowFiles) : rows[d][r] \subseteq rows'[d][r]
    BY <2>1
  <2>6. CASE z.at = <<3, 1, 0>> /\ z.in = x /\ z.from = 0
    <3>1. Past(<<3, 2, 0>>)' <=> Past(<<3, 2, 0>>)
      BY <1>1, <2>6
    <3>2. \A r \in Range(RowFiles) : rows[x][r] \subseteq rows'[d][r]
      <4> SUFFICES ASSUME NEW r \in Range(RowFiles), NEW q \in rows[x][r]
                   PROVE  q \in rows'[d][r]
        OBVIOUS
      <4>1. q \in [index : Indices, episode : Episode]
        BY <1>t DEF TypeOK, Rows
      <4>2. Row(q.index + z.from, q.episode) = q
        BY <2>6, <4>1 DEF Row, Indices
      <4>3. Row(q.index + z.from, q.episode) \in rows'[d][r]
        BY <2>1, <2>6
      <4> QED
        BY <4>2, <4>3
    <3> QED
      BY <1>2, <1>3, <2>2, <2>4, <2>5, <3>1, <3>2, MergedAllNext
  <2>7. CASE z.at = <<3, 2, 0>> /\ z.in = y /\ z.from = Share(x)
    <3>1. Past(<<3, 1, 0>>)' <=> Past(<<3, 1, 0>>)
      BY <1>1, <2>7
    <3>2. \A r \in Range(RowFiles) : \A w \in rows[y][r] :
            Row(w.index + Share(x), w.episode) \in rows'[d][r]
      BY <2>1, <2>7
    <3>3. Past(<<3, 1, 0>>)' => \A r \in Range(RowFiles) : rows[x][r] \subseteq rows'[d][r]
      BY <1>3, <2>5, <3>1
    <3> QED
      BY <1>2, <1>3, <2>2, <2>4, <3>2, <3>3, MergedAllNext
  <2> QED
    BY <2>3, <2>6, <2>7
<1>8. CASE MergeVideos(z)
  <2>1. /\ z.op = "merge videos" /\ rows' = rows
        /\ \A s \in Range(Videos) :
             In(d, s)' = In(d, s) \cup {k + z.from : k \in {i \in In(z.in, s) : i < z.to}}
    <3>1. rows' = rows
      BY <1>8 DEF MergeVideos
    <3>2. /\ z.op = "merge videos"
          /\ \A s \in Range(Videos) :
             /\ In(d, s)' = In(d, s) \cup {k + z.from : k \in {i \in In(z.in, s) : i < z.to}}
             /\ \A i \in In(d, s) : files'[d][s][i] = files[d][s][i]
             /\ \A k \in In(z.in, s) : k < z.to /\ k + z.from \notin In(d, s) =>
                  files'[d][s][k + z.from] = files[z.in][s][k]
      BY <1>t, <1>8, MergeVideosDoes
    <3> QED
      BY <3>1, <3>2
  <2>2. \/ z.at = <<4, 1, 0>> /\ z.in = x /\ z.from = 0 /\ z.to = Share(x)
        \/ z.at = <<4, 2, 0>> /\ z.in = y /\ z.from = Share(x) /\ z.to = Share(y)
    BY <1>m, <2>1, WhichStep
  <2>3. /\ Past(<<3, 1, 0>>)' <=> Past(<<3, 1, 0>>)
        /\ Past(<<3, 2, 0>>)' <=> Past(<<3, 2, 0>>)
    BY <1>1, <2>2
  <2>4. \A e \in {x, y} : \A s \in Range(Videos) : \A k \in In(e, s) : k < Share(e) /\ k \in Int
    <3> SUFFICES ASSUME NEW e \in {x, y}, NEW s \in Range(Videos), NEW k \in In(e, s)
                 PROVE  k < Share(e) /\ k \in Int
      OBVIOUS
    <3>1. /\ \A i \in In(e, "data") : i < Share(e)
          /\ \A t \in Range(Stores) : In(e, t) \in SUBSET Indices
          /\ \A t \in Range(Media) : \A i \in In(e, t) : i \in In(e, "data")
      BY <1>t, SourceIs
    <3>2. k \in In(e, "data") /\ k \in Indices
      BY <1>4, <3>1
    <3> QED
      BY <3>1, <3>2 DEF Indices
  <2>5. \A s \in Range(Videos) : In(d, s) \subseteq In(d, s)'
    BY <2>1
  <2>6. CASE z.at = <<4, 1, 0>> /\ z.in = x /\ z.from = 0 /\ z.to = Share(x)
    <3>1. Past(<<4, 2, 0>>)' <=> Past(<<4, 2, 0>>)
      BY <1>1, <2>6
    <3>2. \A s \in Range(Videos) : In(x, s) \subseteq In(d, s)'
      <4> SUFFICES ASSUME NEW s \in Range(Videos), NEW k \in In(x, s)
                   PROVE  k \in In(d, s)'
        OBVIOUS
      <4>1. k + z.from = k /\ k < z.to
        BY <2>4, <2>6
      <4>2. k + z.from \in In(d, s)'
        BY <2>1, <2>6, <4>1
      <4> QED
        BY <4>1, <4>2
    <3>3. Past(<<4, 2, 0>>)' => \A s \in Range(Videos) : \A k \in In(y, s) :
                                  k + Share(x) \in In(d, s)'
      BY <1>3, <2>5, <3>1
    <3> QED
      BY <1>2, <1>3, <2>1, <2>3, <3>2, <3>3, MergedAllNext
  <2>7. CASE z.at = <<4, 2, 0>> /\ z.in = y /\ z.from = Share(x) /\ z.to = Share(y)
    <3>1. Past(<<4, 1, 0>>)' <=> Past(<<4, 1, 0>>)
      BY <1>1, <2>7
    <3>2. \A s \in Range(Videos) : \A k \in In(y, s) : k + Share(x) \in In(d, s)'
      BY <2>1, <2>4, <2>7
    <3>3. Past(<<4, 1, 0>>)' => \A s \in Range(Videos) : In(x, s) \subseteq In(d, s)'
      BY <1>3, <2>5, <3>1
    <3> QED
      BY <1>2, <1>3, <2>1, <2>3, <3>2, <3>3, MergedAllNext
  <2> QED
    BY <2>2, <2>6, <2>7
<1> QED
  BY <1>5, <1>6, <1>7, <1>8 DEF Merges

\* A sequence and another one behind it, by the indices of files.
LEMMA OneBehind ==
  ASSUME NEW a \in Seq(Episode), NEW b \in Seq(Episode)
  PROVE  /\ Len(a) \in Nat /\ Len(b) \in Nat /\ Len(a \o b) = Len(a) + Len(b)
         /\ \A j \in Int : j + 1 \in DOMAIN a =>
              j + 1 \in DOMAIN (a \o b) /\ (a \o b)[j + 1] = a[j + 1]
         /\ \A k \in Int : k + 1 \in DOMAIN b =>
              (k + Len(a)) + 1 \in DOMAIN (a \o b) /\ (a \o b)[(k + Len(a)) + 1] = b[k + 1]
         /\ \A n \in DOMAIN (a \o b) :
              /\ n \in Int
              /\ \/ n \in DOMAIN a /\ (a \o b)[n] = a[n]
                 \/ n - Len(a) \in DOMAIN b /\ (a \o b)[n] = b[n - Len(a)]
<1>1. /\ Len(a) \in Nat /\ Len(b) \in Nat /\ Len(a \o b) = Len(a) + Len(b)
      /\ DOMAIN a = 1 .. Len(a) /\ DOMAIN b = 1 .. Len(b)
      /\ DOMAIN (a \o b) = 1 .. Len(a) + Len(b)
  OBVIOUS
<1>2. \A n \in 1 .. Len(a) + Len(b) :
        (a \o b)[n] = IF n <= Len(a) THEN a[n] ELSE b[n - Len(a)]
  OBVIOUS
<1>3. ASSUME NEW j \in Int, j + 1 \in DOMAIN a
      PROVE  j + 1 \in DOMAIN (a \o b) /\ (a \o b)[j + 1] = a[j + 1]
  BY <1>1, <1>2, <1>3
<1>4. ASSUME NEW k \in Int, k + 1 \in DOMAIN b
      PROVE  (k + Len(a)) + 1 \in DOMAIN (a \o b) /\ (a \o b)[(k + Len(a)) + 1] = b[k + 1]
  <2>1. /\ (k + Len(a)) + 1 \in 1 .. Len(a) + Len(b) /\ ~((k + Len(a)) + 1 <= Len(a))
        /\ ((k + Len(a)) + 1) - Len(a) = k + 1
    BY <1>1, <1>4
  <2> QED
    BY <1>1, <1>2, <2>1
<1>5. ASSUME NEW n \in DOMAIN (a \o b)
      PROVE  /\ n \in Int
             /\ \/ n \in DOMAIN a /\ (a \o b)[n] = a[n]
                \/ n - Len(a) \in DOMAIN b /\ (a \o b)[n] = b[n - Len(a)]
  BY <1>1, <1>2
<1> QED
  BY <1>1, <1>3, <1>4, <1>5

\* What holds when nothing is left of a merge,
MergedLaw ==
  \A d \in Datasets : \A x, y \in Datasets \ {d} :
    /\ TypeOK /\ ListsOK /\ job.todo = {}
    /\ Source(x) /\ Source(y) /\ InPlace(x) /\ InPlace(y)
    /\ Merged(d, x, y) /\ MergedAll(d, x, y)
    => InPlace(d)

\* is that the output is exact: the first dataset, and the second one behind it.
LEMMA MergedIsExact == MergedLaw
<1> SUFFICES ASSUME NEW d \in Datasets, NEW x \in Datasets \ {d}, NEW y \in Datasets \ {d},
                    TypeOK, ListsOK, job.todo = {},
                    Source(x), Source(y), InPlace(x), InPlace(y),
                    Merged(d, x, y), MergedAll(d, x, y)
             PROVE  InPlace(d)
  BY DEF MergedLaw
<1>1. \A at : Past(at)
  BY DEF Past
<1>2. list[x] \in Seq(Episode) /\ list[y] \in Seq(Episode) /\ list[d] = list[x] \o list[y]
  BY DEF ListsOK, MergedAll
<1>3. PICK L : L = Len(list[x])
  OBVIOUS
<1>4. /\ L \in Nat /\ Len(list[y]) \in Nat /\ Len(list[d]) = L + Len(list[y])
      /\ \A j \in Int : j + 1 \in DOMAIN list[x] =>
           j + 1 \in DOMAIN list[d] /\ list[d][j + 1] = list[x][j + 1]
      /\ \A k \in Int : k + 1 \in DOMAIN list[y] =>
           (k + L) + 1 \in DOMAIN list[d] /\ list[d][(k + L) + 1] = list[y][k + 1]
      /\ \A n \in DOMAIN list[d] :
           /\ n \in Int
           /\ \/ n \in DOMAIN list[x] /\ list[d][n] = list[x][n]
              \/ n - L \in DOMAIN list[y] /\ list[d][n] = list[y][n - L]
  <2>1. PICK a \in Seq(Episode) : a = list[x]
    BY <1>2
  <2>2. PICK b \in Seq(Episode) : b = list[y]
    BY <1>2
  <2>3. list[d] = a \o b /\ Len(a) = L
    BY <1>2, <1>3, <2>1, <2>2
  <2>4. /\ Len(a) \in Nat /\ Len(b) \in Nat /\ Len(a \o b) = Len(a) + Len(b)
        /\ \A j \in Int : j + 1 \in DOMAIN a =>
             j + 1 \in DOMAIN (a \o b) /\ (a \o b)[j + 1] = a[j + 1]
        /\ \A k \in Int : k + 1 \in DOMAIN b =>
             (k + Len(a)) + 1 \in DOMAIN (a \o b) /\ (a \o b)[(k + Len(a)) + 1] = b[k + 1]
        /\ \A n \in DOMAIN (a \o b) :
             /\ n \in Int
             /\ \/ n \in DOMAIN a /\ (a \o b)[n] = a[n]
                \/ n - Len(a) \in DOMAIN b /\ (a \o b)[n] = b[n - Len(a)]
    BY OneBehind
  <2> QED
    BY <2>1, <2>2, <2>3, <2>4, Zenon
<1>5. count[x] = L /\ count[y] = Len(list[y]) /\ Share(x) = L
  <2>1. Share(x) = count[x]
    BY SourceIs
  <2> QED
    BY <1>3, <2>1 DEF InPlace
<1>6. \A s \in Complete : s \in Range(Stores) /\ (s = "data" \/ s \in Range(Media) \cap Range(Videos))
  BY DataIsStore DEF Complete
<1>7. \A e \in Datasets : \A s \in Complete : \A i \in In(e, s) : i \in Indices /\ i \in Int
  BY <1>6, MapsOK DEF Indices
<1>8. ASSUME NEW s \in Complete, NEW j \in In(d, s)
      PROVE  j + 1 \in DOMAIN list[d] /\ Ep(d, s, j) = list[d][j + 1]
  <2>1. Comes(d, x, y, s, j)
    BY <1>6, <1>8 DEF Merged
  <2>2. s \in Range(Stores) /\ j \in Indices /\ j \in Int
    BY <1>6, <1>7
  <2>3. CASE j < Share(x)
    <3>1. j \in In(x, s) /\ Ep(d, s, j) = Ep(x, s, j)
      BY <2>1, <2>2, <2>3, ComesOnce
    <3>2. j + 1 \in DOMAIN list[x] /\ Ep(x, s, j) = list[x][j + 1]
      BY <3>1 DEF InPlace
    <3> QED
      BY <1>4, <2>2, <3>1, <3>2
  <2>4. CASE ~(j < Share(x))
    <3>1. j - Share(x) \in In(y, s) /\ Ep(d, s, j) = Ep(y, s, j - Share(x))
      BY <2>1, <2>2, <2>4, ComesOnce
    <3>2. PICK k \in In(y, s) : k = j - L /\ Ep(d, s, j) = Ep(y, s, k)
      BY <1>5, <3>1
    <3>3. k + 1 \in DOMAIN list[y] /\ Ep(y, s, k) = list[y][k + 1]
      BY DEF InPlace
    <3>4. k \in Int /\ k + L = j
      BY <1>4, <2>2, <3>2
    <3>5. (k + L) + 1 \in DOMAIN list[d] /\ list[d][(k + L) + 1] = list[y][k + 1]
      BY <1>4, <3>3, <3>4
    <3> QED
      BY <3>2, <3>3, <3>4, <3>5
  <2> QED
    BY <2>3, <2>4
<1>9. ASSUME NEW s \in Complete, NEW n \in DOMAIN list[d], <<s, list[d][n]>> \notin Missing
      PROVE  n - 1 \in In(d, s)
  <2>1. /\ In(x, s) \subseteq In(d, s)
        /\ \A k \in In(y, s) : k + L \in In(d, s)
    BY <1>1, <1>5, <1>6 DEF Merged, MergedAll
  <2>2. CASE n \in DOMAIN list[x] /\ list[d][n] = list[x][n]
    BY <1>9, <2>1, <2>2 DEF InPlace
  <2>3. CASE n - L \in DOMAIN list[y] /\ list[d][n] = list[y][n - L]
    <3>1. (n - L) - 1 \in In(y, s)
      BY <1>9, <2>3 DEF InPlace
    <3>2. ((n - L) - 1) + L = n - 1
      BY <1>4
    <3> QED
      BY <2>1, <3>1, <3>2
  <2> QED
    BY <1>4, <2>2, <2>3
<1>10. ASSUME NEW r \in Range(RowFiles), NEW q \in rows[d][r]
       PROVE  q.index + 1 \in DOMAIN list[d] /\ q.episode = list[d][q.index + 1]
  <2>1. \A e \in Datasets : \A w \in rows[e][r] : w.index \in Int
    BY DEF TypeOK, Rows, Indices
  <2>2. CASE q \in rows[x][r]
    <3>1. q.index + 1 \in DOMAIN list[x] /\ q.episode = list[x][q.index + 1]
      BY <2>2 DEF InPlace
    <3> QED
      BY <1>4, <2>1, <3>1
  <2>3. CASE \E w \in rows[y][r] : q = Row(w.index + Share(x), w.episode)
    <3>1. PICK w \in rows[y][r] : q = Row(w.index + L, w.episode)
      BY <1>5, <2>3
    <3>2. w.index + 1 \in DOMAIN list[y] /\ w.episode = list[y][w.index + 1]
      BY DEF InPlace
    <3>3. q.index = w.index + L /\ q.episode = w.episode /\ w.index \in Int
      BY <2>1, <3>1 DEF Row
    <3> QED
      BY <1>4, <3>2, <3>3
  <2> QED
    BY <2>2, <2>3 DEF Merged
<1>11. ASSUME NEW r \in Range(RowFiles), NEW n \in DOMAIN list[d]
       PROVE  \E q \in rows[d][r] : q.index = n - 1
  <2>1. /\ rows[x][r] \subseteq rows[d][r]
        /\ \A w \in rows[y][r] : Row(w.index + L, w.episode) \in rows[d][r]
    BY <1>1, <1>5 DEF MergedAll
  <2>2. CASE n \in DOMAIN list[x]
    BY <2>1, <2>2 DEF InPlace
  <2>3. CASE n - L \in DOMAIN list[y]
    <3>1. PICK w \in rows[y][r] : w.index = (n - L) - 1
      BY <2>3 DEF InPlace
    <3>2. Row(w.index + L, w.episode).index = w.index + L
      BY DEF Row
    <3>3. w.index + L = n - 1
      BY <1>4, <3>1
    <3> QED
      BY <2>1, <3>2, <3>3
  <2> QED
    BY <1>4, <2>2, <2>3
<1>12. count[d] = Len(list[d])
  BY <1>1, <1>4, <1>5 DEF Merged
<1> QED
  BY <1>8, <1>9, <1>10, <1>11, <1>12 DEF InPlace

\* Also in the state after a step.
LEMMA MergedIsExactNext == MergedLaw'
BY MergedIsExact, PTL

\* So a merge of exact datasets ends with an exact one.
LEMMA MergesKeepExactly ==
  ASSUME NEW d \in Datasets, NEW z, Combining(d, z), Merges(z), UNCHANGED <<asked, state>>,
         IInv, TypeOK', EInv
  PROVE  \A e \in Datasets : Exactly(e)'
<1>1. /\ TypeOK /\ ListsOK /\ d = job.on /\ z \in job.todo /\ Done(z) /\ Merging(d)
      /\ \A e \in Datasets : Exactly(e)
  BY DEF Combining, EInv, Merging
<1>2. list' = list /\ state' = state
  BY DEF Merges, MergeData, ClearMeta, MergeMeta, MergeVideos, history
<1>3. ASSUME NEW e \in Datasets \ {d}
      PROVE  /\ Todo(e) = {} /\ Todo(e)' = {} /\ ~Merging(e) /\ ~Merging(e)'
             /\ files'[e] = files[e] /\ rows'[e] = rows[e] /\ count'[e] = count[e]
             /\ asked'[e] = asked[e] /\ Exactly(e)'
  <2>1. /\ Todo(e) = {} /\ Todo(e)' = {} /\ ~Merging(e) /\ ~Merging(e)'
        /\ files'[e] = files[e] /\ rows'[e] = rows[e] /\ count'[e] = count[e]
        /\ asked'[e] = asked[e]
    BY OthersStay
  <2>2. Exactly(e)'
    BY <1>1, <1>2, <2>1, ExactStays
  <2> QED
    BY <2>1, <2>2
<1>4. ASSUME state[d] = "exact"
      PROVE  IF Merging(d)' THEN \E x, y \in Datasets \ {d} : Merger(d, x, y)' ELSE AllExact(d)'
  <2>1. PICK x \in Datasets \ {d}, y \in Datasets \ {d} : Merger(d, x, y)
    BY <1>1, <1>4 DEF Exactly
  <2>2. /\ state[x] = "exact" /\ state[y] = "exact" /\ Merged(d, x, y) /\ MergedAll(d, x, y)
    BY <2>1 DEF Merger
  <2>3. Good(x) /\ Good(y) /\ Good(x)' /\ Good(y)'
    BY <1>2, <1>3, GoodStays DEF IInv
  <2>4. Source(x) /\ Source(y) /\ Source(x)' /\ Source(y)'
    BY <1>2, <1>3, <2>2, <2>3 DEF Source
  <2>5. Merged(d, x, y)' /\ MergedAll(d, x, y)'
    BY <2>2, <2>4, MergedGoesOn, MergesAllGoesOn
  <2>6. CASE Merging(d)'
    BY <1>2, <2>2, <2>5, <2>6 DEF Merger
  <2>7. CASE ~Merging(d)'
    <3>1. \/ job' = NoJob /\ job.todo \ {z} = {}
          \/ job'.kind = job.kind /\ job'.on = job.on
      BY <1>1, JobGoesOn
    <3>2. job'.todo = {} /\ Todo(d)' = {}
      BY <1>1, <2>7, <3>1, JobEnds DEF Merging
    <3>3. AllExact(x)' /\ AllExact(y)'
      BY <1>2, <1>3, <2>2 DEF Exactly
    <3>4. InPlace(x)' /\ InPlace(y)'
      BY <1>3, <3>3, ExactAtRestNext DEF RestLaw, AtRest
    <3>5. ListsOK'
      BY <1>1, <1>2 DEF ListsOK
    <3>6. InPlace(d)'
      BY <2>4, <2>5, <3>2, <3>4, <3>5, MergedIsExactNext DEF MergedLaw
    <3>7. AllExact(d)'
      BY <3>2, <3>6, ExactAtRestNext DEF RestLaw, AtRest
    <3> QED
      BY <2>7, <3>7
  <2> QED
    BY <2>6, <2>7
<1>5. Exactly(d)'
  BY <1>2, <1>4 DEF Exactly
<1> QED
  BY <1>3, <1>5

----------------------------------------------------------------------------
(* Contents: one step of a request.                                        *)

\* Each step of a deletion does,
LEMMA DeletesKeepEInv ==
  ASSUME IInv, TypeOK', EInv, NEW x \in job.todo, Deletes(x)
  PROVE  EInv'
<1>1. PICK d \in Datasets : d = job.on
  BY DEF IInv, TypeOK
<1>2. /\ NextIn(job.todo, x) /\ Done(x)
      /\ asked' = asked /\ state' = state /\ edits' = edits /\ faults' = faults
  BY StepFrame
<1>3. /\ TypeOK /\ KindsOfSteps /\ Ordered(job.todo) /\ Good(d) /\ Feasible(d)
      /\ ListsOK /\ ContentsFit /\ \A e \in Datasets : Exactly(e)
  BY DEF IInv, Good, EInv
<1>4. Working(d, x)
  BY <1>1, <1>2, <1>3 DEF Working
<1>5. x.op \notin MergeOps
  BY DEF Deletes, UnlinkFile, RenameFile, CopyParquet, PatchParquet, RewriteRows,
         WriteInfo, Doing, MergeOps
<1>6. ~Merging(d)
  BY <1>3, <1>5 DEF KindsOfSteps, Merging
<1>7. \/ job' = NoJob /\ NoJob.kind = "none"
      \/ job'.kind = job.kind /\ job'.on = job.on
  BY <1>2, <1>3, JobGoesOn, NoJobOK
<1>8. ~Merging(d)'
  BY <1>1, <1>6, <1>7 DEF Merging
<1>9. list' = list /\ Framed(d) /\ NothingNew
  BY <1>4, DeletionFlows, DeletesFramed, DeletionNothingNew
<1>10. Exactly(d)'
  <2> SUFFICES ASSUME state[d] = "exact"
               PROVE  AllExact(d)'
    BY <1>2, <1>8 DEF Exactly
  <2>1. AllExact(d) /\ Counted(d)
    BY <1>3, <1>6 DEF Exactly, Good
  <2> QED
    BY <1>4, <2>1, AllExactAfter
<1>11. ASSUME NEW e \in Datasets \ {d}
       PROVE  Exactly(e)'
  <2>1. Todo(e) = {} /\ Todo(e)' = {}
    BY <1>1, <1>2, <1>3, JobGoesOn DEF Todo
  <2>2. ~Merging(e) /\ ~Merging(e)'
    BY <1>1, <1>7 DEF Merging
  <2>3. files'[e] = files[e] /\ rows'[e] = rows[e] /\ count'[e] = count[e]
    BY <1>9 DEF Framed
  <2> QED
    BY <1>2, <1>3, <1>9, <2>1, <2>2, <2>3, ExactStays
<1>12. ListsOK' /\ ContentsFit'
  BY <1>3, <1>9, ContentsFitAfter DEF ListsOK
<1> QED
  BY <1>10, <1>11, <1>12 DEF EInv

\* and each step of a merge.
LEMMA MergesKeepEInv ==
  ASSUME IInv, TypeOK', EInv, NEW z \in job.todo, Merges(z)
  PROVE  EInv'
<1>1. PICK d \in Datasets : d = job.on
  BY DEF IInv, TypeOK
<1>2. /\ NextIn(job.todo, z) /\ Done(z)
      /\ asked' = asked /\ state' = state /\ edits' = edits /\ faults' = faults
  BY StepFrame
<1>3. /\ TypeOK /\ KindsOfSteps /\ MergesFit /\ Ordered(job.todo) /\ ListsOK /\ ContentsFit
  BY DEF IInv, EInv
<1>4. z.op \in MergeOps
  BY DEF Merges, MergeData, ClearMeta, MergeMeta, MergeVideos, Doing, MergeOps
<1>5. Combining(d, z)
  BY <1>1, <1>2, <1>3, <1>4 DEF Combining, KindsOfSteps
<1>6. \A e \in Datasets : Exactly(e)'
  BY <1>2, <1>5, MergesKeepExactly
<1>7. ContentsFit'
  BY <1>3, <1>5, MergeNothingNew, ContentsFitAfter
<1>8. list' = list
  BY DEF Merges, MergeData, ClearMeta, MergeMeta, MergeVideos, history
<1>9. ListsOK'
  BY <1>3, <1>8 DEF ListsOK
<1> QED
  BY <1>6, <1>7, <1>9 DEF EInv

\* A request that is broken off leaves a dataset of which nothing is expected.
LEMMA BreakKeepsEInv ==
  ASSUME IInv, TypeOK', EInv, job' = NoJob, state' = Worse(job.on, "broken"),
         UNCHANGED <<files, rows, count, list>>
  PROVE  EInv'
<1>1. PICK d \in Datasets : d = job.on
  BY DEF IInv, TypeOK
<1>2. TypeOK /\ ListsOK /\ ContentsFit /\ \A e \in Datasets : Exactly(e)
  BY DEF IInv, EInv
<1>3. job'.kind = "none" /\ \A e \in Datasets : Todo(e)' = {}
  BY <1>2, JobEnds
<1>4. /\ \A e \in Datasets \ {d} : state'[e] = state[e]
      /\ state'[d] = IF state[d] \in {"broken", "adrift"} THEN state[d] ELSE "broken"
  BY <1>1, <1>2, WorseIs
<1>5. Exactly(d)'
  BY <1>4 DEF Exactly
<1>6. ASSUME NEW e \in Datasets \ {d}
      PROVE  Exactly(e)'
  <2>1. Todo(e) = {} /\ ~Merging(e) /\ ~Merging(e)'
    BY <1>1, <1>3 DEF Todo, Merging
  <2> QED
    BY <1>2, <1>3, <1>4, <2>1, ExactStays
<1>7. ListsOK' /\ ContentsFit'
  BY <1>2 DEF ListsOK, ContentsFit, In, Ep
<1> QED
  BY <1>5, <1>6, <1>7 DEF EInv

\* An error is the last step of its request, or breaks it off,
LEMMA RaiseKeepsEInv ==
  ASSUME IInv, TypeOK', EInv, NEW x \in job.todo, Raise(x)
  PROVE  EInv'
<1>1. UNCHANGED <<files, rows, count, list>> /\ job' = NoJob
  BY DEF Raise
<1>2. CASE Doing("raise", x) /\ state' = state
  BY <1>2, RaiseIsLast, DeletesKeepEInv
<1>3. CASE state' = Worse(job.on, "broken")
  BY <1>1, <1>3, BreakKeepsEInv
<1> QED
  BY <1>2, <1>3 DEF Raise

\* a crash always does.
LEMMA CrashKeepsEInv ==
  ASSUME IInv, TypeOK', EInv, Crash
  PROVE  EInv'
BY BreakKeepsEInv DEF Crash

\* Nor is anything expected after a failure.
LEMMA FailKeepsEInv ==
  ASSUME IInv, TypeOK', EInv, NEW x \in job.todo, Fail(x)
  PROVE  EInv'
<1>1. PICK d \in Datasets : d = job.on
  BY DEF IInv, TypeOK
<1>2. PICK D : D = Dropped(x)
  OBVIOUS
<1>3. TypeOK /\ ListsOK /\ ContentsFit /\ \A e \in Datasets : Exactly(e)
  BY DEF IInv, EInv
<1>4. /\ job' = NoJob \/ (job'.kind = job.kind /\ job'.on = job.on)
      /\ \A e \in Datasets : Todo(e)' = Todo(e) \ D
      /\ ~Merging(d)
  BY <1>1, <1>2, FailDoes
<1>5. /\ files' = files /\ rows' = rows /\ count' = count /\ list' = list
      /\ state' = Worse(d, "broken")
  BY <1>1 DEF Fail
<1>6. /\ \A e \in Datasets \ {d} : state'[e] = state[e]
      /\ state'[d] = IF state[d] \in {"broken", "adrift"} THEN state[d] ELSE "broken"
  BY <1>3, <1>5, WorseIs
<1>7. Exactly(d)'
  BY <1>6 DEF Exactly
<1>8. NoJob.kind = "none"
  BY <1>3, NoJobOK
<1>9. ASSUME NEW e \in Datasets \ {d}
      PROVE  Exactly(e)'
  <2>1. Todo(e) = {} /\ Todo(e)' = {} /\ ~Merging(e)
    BY <1>1, <1>4 DEF Todo, Merging
  <2>2. ~Merging(e)'
    BY <1>1, <1>4, <1>8 DEF Merging
  <2> QED
    BY <1>3, <1>5, <1>6, <2>1, <2>2, ExactStays
<1>10. ListsOK' /\ ContentsFit'
  BY <1>3, <1>5 DEF ListsOK, ContentsFit, In, Ep
<1> QED
  BY <1>7, <1>9, <1>10 DEF EInv

----------------------------------------------------------------------------
(* Contents: the ranks of what a deletion keeps.                           *)

\* In a finite set of numbers, a member's rank is the number of those below it:
\* the ranks are one to one, and all there are up to the set's cardinality.
LEMMA RanksAre ==
  ASSUME NEW S \in SUBSET Nat, IsFiniteSet(S)
  PROVE  /\ Cardinality(S) \in Nat
         /\ \A i \in S : Cardinality(Under(S, i)) \in 0 .. Cardinality(S) - 1
         /\ \A i, j \in S : Cardinality(Under(S, i)) = Cardinality(Under(S, j)) => i = j
         /\ \A m \in 0 .. Cardinality(S) - 1 : \E i \in S : Cardinality(Under(S, i)) = m
<1>1. Cardinality(S) \in Nat
  BY FS_CardinalityType
<1>2. \A i \in S : /\ IsFiniteSet(Under(S, i)) /\ Cardinality(Under(S, i)) \in Nat
                   /\ Under(S, i) \subseteq S /\ i \notin Under(S, i)
  <2> SUFFICES ASSUME NEW i \in S
               PROVE  /\ IsFiniteSet(Under(S, i)) /\ Cardinality(Under(S, i)) \in Nat
                      /\ Under(S, i) \subseteq S /\ i \notin Under(S, i)
    OBVIOUS
  <2>1. Under(S, i) \in SUBSET S /\ i \notin Under(S, i)
    BY DEF Under
  <2>2. IsFiniteSet(Under(S, i))
    BY <2>1, FS_Subset
  <2> QED
    BY <2>1, <2>2, FS_CardinalityType
<1>3. \A i \in S : Cardinality(Under(S, i)) \in 0 .. Cardinality(S) - 1
  <2> SUFFICES ASSUME NEW i \in S
               PROVE  Cardinality(Under(S, i)) \in 0 .. Cardinality(S) - 1
    OBVIOUS
  <2>1. Under(S, i) \in SUBSET S /\ Under(S, i) # S
    BY <1>2
  <2>2. Cardinality(Under(S, i)) <= Cardinality(S) /\ Cardinality(Under(S, i)) # Cardinality(S)
    BY <2>1, FS_Subset
  <2> QED
    BY <1>1, <1>2, <2>2
<1>4. ASSUME NEW i \in S, NEW j \in S, i < j
      PROVE  Cardinality(Under(S, i)) # Cardinality(Under(S, j))
  <2>1. Under(S, i) \in SUBSET Under(S, j)
    <3> SUFFICES ASSUME NEW k \in S, k < i
                 PROVE  k \in S /\ k < j
      BY DEF Under
    <3>1. k \in Nat /\ i \in Nat /\ j \in Nat
      OBVIOUS
    <3> QED
      BY <1>4, <3>1
  <2>2. i \in Under(S, j) /\ i \notin Under(S, i)
    BY <1>4 DEF Under
  <2>3. Cardinality(Under(S, j)) = Cardinality(Under(S, i)) => Under(S, j) = Under(S, i)
    BY <1>2, <2>1, FS_Subset
  <2> QED
    BY <2>2, <2>3
<1>5. \A i, j \in S : Cardinality(Under(S, i)) = Cardinality(Under(S, j)) => i = j
  <2> SUFFICES ASSUME NEW i \in S, NEW j \in S, i # j
               PROVE  Cardinality(Under(S, i)) # Cardinality(Under(S, j))
    OBVIOUS
  <2>1. i < j \/ j < i
    OBVIOUS
  <2> QED
    BY <1>4, <2>1
<1>6. ASSUME NEW m \in 0 .. Cardinality(S) - 1
      PROVE  \E i \in S : Cardinality(Under(S, i)) = m
  <2> SUFFICES ASSUME \A i \in S : Cardinality(Under(S, i)) # m
               PROVE  FALSE
    OBVIOUS
  <2> DEFINE T == (0 .. Cardinality(S) - 1) \ {m}
             f == [i \in S |-> Cardinality(Under(S, i))]
  <2>1. /\ IsFiniteSet(0 .. Cardinality(S) - 1)
        /\ Cardinality(0 .. Cardinality(S) - 1) = Cardinality(S)
    <3>1. 0 \in Int /\ Cardinality(S) - 1 \in Int
      BY <1>1
    <3>2. /\ IsFiniteSet(0 .. Cardinality(S) - 1)
          /\ Cardinality(0 .. Cardinality(S) - 1) =
               IF 0 > Cardinality(S) - 1 THEN 0 ELSE (Cardinality(S) - 1) - 0 + 1
      BY <3>1, FS_Interval
    <3> QED
      BY <1>1, <3>2
  <2>2. IsFiniteSet(T) /\ Cardinality(T) = Cardinality(S) - 1
    BY <2>1, FS_RemoveElement
  <2>3. f \in [S -> T]
    BY <1>3
  <2>4. Cardinality(T) < Cardinality(S)
    BY <1>1, <2>2
  <2> HIDE DEF f, T
  <2>5. PICK i \in S, j \in S : i # j /\ f[i] = f[j]
    BY <2>2, <2>3, <2>4, FS_PigeonHole
  <2>6. Cardinality(Under(S, i)) = Cardinality(Under(S, j))
    BY <2>5 DEF f
  <2> QED
    BY <1>5, <2>5, <2>6
<1> QED
  BY <1>1, <1>3, <1>5, <1>6

\* The ranks of what is kept of the first L indices are what the renumbering says.
LEMMA RanksOfKept ==
  ASSUME NEW L \in Nat, NEW D \in SUBSET (0 .. L - 1)
  PROVE  LET K == (0 .. L - 1) \ D
         IN  /\ K \in SUBSET Nat /\ IsFiniteSet(K)
             /\ Cardinality(D) \in Nat /\ Cardinality(K) = L - Cardinality(D)
             /\ \A i \in K : Cardinality(Under(K, i)) = i - Cardinality(Under(D, i))
<1> DEFINE K == (0 .. L - 1) \ D
<1>1. ASSUME NEW n \in Nat
      PROVE  IsFiniteSet(0 .. n - 1) /\ Cardinality(0 .. n - 1) = n
  <2>1. 0 \in Int /\ n - 1 \in Int
    OBVIOUS
  <2>2. /\ IsFiniteSet(0 .. n - 1)
        /\ Cardinality(0 .. n - 1) = IF 0 > n - 1 THEN 0 ELSE (n - 1) - 0 + 1
    BY <2>1, FS_Interval
  <2> QED
    BY <2>2
<1>2. K \in SUBSET Nat /\ IsFiniteSet(K)
  <2>1. K \in SUBSET Nat /\ K \in SUBSET (0 .. L - 1)
    OBVIOUS
  <2> QED
    BY <1>1, <2>1, FS_Subset
<1>3. Cardinality(D) \in Nat /\ Cardinality(K) = L - Cardinality(D)
  <2>1. IsFiniteSet(D) /\ Cardinality(D) \in Nat
    BY <1>1, FS_Subset, FS_CardinalityType
  <2>2. Cardinality(K) = Cardinality(0 .. L - 1) - Cardinality((0 .. L - 1) \cap D)
    BY <1>1, <2>1, FS_Difference
  <2>3. (0 .. L - 1) \cap D = D
    OBVIOUS
  <2> QED
    BY <1>1, <2>1, <2>2, <2>3
<1>4. ASSUME NEW i \in K
      PROVE  Cardinality(Under(K, i)) = i - Cardinality(Under(D, i))
  <2>1. i \in Nat
    OBVIOUS
  <2>2. Under(K, i) = (0 .. i - 1) \ Under(D, i)
    BY DEF Under
  <2>a. Under(D, i) \in SUBSET (0 .. i - 1)
    <3> SUFFICES ASSUME NEW k \in D, k < i
                 PROVE  k \in 0 .. i - 1
      BY DEF Under
    <3>1. k \in Nat
      OBVIOUS
    <3> QED
      BY <2>1, <3>1
  <2>3. (0 .. i - 1) \cap Under(D, i) = Under(D, i)
    BY <2>a
  <2>4. IsFiniteSet(0 .. i - 1) /\ Cardinality(0 .. i - 1) = i
    BY <1>1, <2>1
  <2>5. Cardinality((0 .. i - 1) \ Under(D, i)) =
          Cardinality(0 .. i - 1) - Cardinality((0 .. i - 1) \cap Under(D, i))
    <3>1. IsFiniteSet(Under(D, i))
      BY <2>4, <2>a, FS_Subset
    <3> QED
      BY <2>4, <3>1, FS_Difference
  <2> QED
    BY <2>2, <2>3, <2>4, <2>5
<1> QED
  BY <1>2, <1>3, <1>4

\* The indices that a deletion of those of D keeps.
Left(d, D) == (0 .. Len(list[d]) - 1) \ D

\* What is left of a list: as the n-th the one of rank n - 1.
LEMMA LessIs ==
  ASSUME ListsOK, NEW d \in Datasets, NEW D
  PROVE  LET K == Left(d, D)
         IN  /\ Less(d, D) \in Seq(Episode) /\ Len(Less(d, D)) = Cardinality(K)
             /\ \A i \in K : /\ Cardinality(Under(K, i)) + 1 \in DOMAIN Less(d, D)
                             /\ Less(d, D)[Cardinality(Under(K, i)) + 1] = list[d][i + 1]
             /\ \A n \in DOMAIN Less(d, D) : \E i \in K :
                  n - 1 = Cardinality(Under(K, i)) /\ Less(d, D)[n] = list[d][i + 1]
<1>1. PICK K : K = Left(d, D)
  OBVIOUS
<1>2. list[d] \in Seq(Episode) /\ Len(list[d]) \in Nat
  BY DEF ListsOK
<1>3. PICK C : C = Cardinality(K)
  OBVIOUS
<1>4. K \in SUBSET Nat /\ IsFiniteSet(K)
  <2>1. K = (0 .. Len(list[d]) - 1) \ ((0 .. Len(list[d]) - 1) \cap D)
    BY <1>1 DEF Left
  <2>2. (0 .. Len(list[d]) - 1) \cap D \in SUBSET (0 .. Len(list[d]) - 1)
    OBVIOUS
  <2> QED
    BY <1>2, <2>1, <2>2, RanksOfKept
<1>5. /\ C \in Nat
      /\ \A i \in K : Cardinality(Under(K, i)) \in 0 .. C - 1
      /\ \A i, j \in K : Cardinality(Under(K, i)) = Cardinality(Under(K, j)) => i = j
      /\ \A m \in 0 .. C - 1 : \E i \in K : Cardinality(Under(K, i)) = m
  BY <1>3, <1>4, RanksAre
<1> DEFINE At(n) == CHOOSE i \in K : Cardinality(Under(K, i)) = n - 1
<1>6. Less(d, D) = [n \in 1 .. C |-> list[d][1 + At(n)]]
  BY <1>1, <1>3 DEF Less, Left, Under
<1>7. \A n \in 1 .. C : At(n) \in K /\ Cardinality(Under(K, At(n))) = n - 1
  <2> SUFFICES ASSUME NEW n \in 1 .. C
               PROVE  At(n) \in K /\ Cardinality(Under(K, At(n))) = n - 1
    OBVIOUS
  <2>1. n - 1 \in 0 .. C - 1
    BY <1>5
  <2>2. \E i \in K : Cardinality(Under(K, i)) = n - 1
    BY <1>5, <2>1
  <2> QED
    BY <2>2
<1> HIDE DEF At
<1>8. \A i \in K : i + 1 \in DOMAIN list[d] /\ 1 + i = i + 1 /\ list[d][i + 1] \in Episode
  BY <1>1, <1>2 DEF Left
<1>9. \A n \in 1 .. C : Less(d, D)[n] = list[d][At(n) + 1] /\ Less(d, D)[n] \in Episode
  BY <1>6, <1>7, <1>8
<1>10. Less(d, D) \in Seq(Episode) /\ Len(Less(d, D)) = C /\ DOMAIN Less(d, D) = 1 .. C
  <2>1. Less(d, D) \in [1 .. C -> Episode]
    BY <1>6, <1>9
  <2> QED
    BY <1>5, <2>1
<1>11. ASSUME NEW i \in K
       PROVE  /\ Cardinality(Under(K, i)) + 1 \in DOMAIN Less(d, D)
              /\ Less(d, D)[Cardinality(Under(K, i)) + 1] = list[d][i + 1]
  <2>1. PICK n \in 1 .. C : n = Cardinality(Under(K, i)) + 1
    BY <1>5
  <2>2. n - 1 = Cardinality(Under(K, i))
    <3>1. Cardinality(Under(K, i)) \in Int
      BY <1>5
    <3> QED
      BY <2>1, <3>1
  <2>3. At(n) = i
    BY <1>5, <1>7, <2>2
  <2> QED
    BY <1>9, <1>10, <2>1, <2>3
<1>12. ASSUME NEW n \in DOMAIN Less(d, D)
       PROVE  \E i \in K : n - 1 = Cardinality(Under(K, i)) /\ Less(d, D)[n] = list[d][i + 1]
  BY <1>7, <1>9, <1>10
<1> QED
  BY <1>1, <1>3, <1>10, <1>11, <1>12

\* By the renumbering of the indices D, what is kept takes the places of the list
\* that is left.
LEMMA LessByRenumbering ==
  ASSUME ListsOK, NEW d \in Datasets, NEW D \in SUBSET (0 .. Len(list[d]) - 1)
  PROVE  /\ Less(d, D) \in Seq(Episode) /\ Cardinality(D) \in Nat
         /\ Len(Less(d, D)) = Len(list[d]) - Cardinality(D)
         /\ \A i \in Left(d, D) :
              /\ (i - Cardinality(Under(D, i))) + 1 \in DOMAIN Less(d, D)
              /\ Less(d, D)[(i - Cardinality(Under(D, i))) + 1] = list[d][i + 1]
         /\ \A n \in DOMAIN Less(d, D) : \E i \in Left(d, D) :
              n - 1 = i - Cardinality(Under(D, i)) /\ Less(d, D)[n] = list[d][i + 1]
<1>1. PICK K : K = Left(d, D)
  OBVIOUS
<1>2. Len(list[d]) \in Nat
  BY DEF ListsOK
<1>3. /\ Cardinality(D) \in Nat /\ Cardinality(K) = Len(list[d]) - Cardinality(D)
      /\ \A i \in K : Cardinality(Under(K, i)) = i - Cardinality(Under(D, i))
  BY <1>1, <1>2, RanksOfKept DEF Left
<1>4. /\ Less(d, D) \in Seq(Episode) /\ Len(Less(d, D)) = Cardinality(K)
      /\ \A i \in K : /\ Cardinality(Under(K, i)) + 1 \in DOMAIN Less(d, D)
                      /\ Less(d, D)[Cardinality(Under(K, i)) + 1] = list[d][i + 1]
      /\ \A n \in DOMAIN Less(d, D) : \E i \in K :
           n - 1 = Cardinality(Under(K, i)) /\ Less(d, D)[n] = list[d][i + 1]
  BY <1>1, LessIs
<1>5. ASSUME NEW i \in K
      PROVE  /\ (i - Cardinality(Under(D, i))) + 1 \in DOMAIN Less(d, D)
             /\ Less(d, D)[(i - Cardinality(Under(D, i))) + 1] = list[d][i + 1]
  BY <1>3, <1>4
<1>6. ASSUME NEW n \in DOMAIN Less(d, D)
      PROVE  \E i \in K : n - 1 = i - Cardinality(Under(D, i)) /\ Less(d, D)[n] = list[d][i + 1]
  BY <1>3, <1>4
<1> QED
  BY <1>1, <1>3, <1>4, <1>5, <1>6

----------------------------------------------------------------------------
(* Contents: what a request establishes.                                   *)

\* The renumbering takes files and rows of what is kept to their places in what
\* is left of the list.
LEMMA ExactWhenRenumbered ==
  ASSUME NEW d \in Datasets, NEW D, NEW map, NEW T,
         Requested(d, map, T), Renumbers(d, D, map, T), ListsOK, InPlace(d),
         D \in SUBSET (0 .. Len(list[d]) - 1), list'[d] = Less(d, D),
         Left(d, D) \subseteq DOMAIN map,
         \A i \in Left(d, D) : map[i] = i - Cardinality(Under(D, i)),
         \A q \in T : q.op = "info" => q.from = Cardinality(D),
         \E q \in T : q.op = "info"
  PROVE  AllExact(d)'
<1>1. /\ TypeOK /\ rows' = rows /\ count' = count /\ Todo(d)' = T /\ job'.map = map
      /\ D \cap DOMAIN map = {}
  BY DEF Requested, Renumbers
<1>2. /\ list[d] \in Seq(Episode) /\ Len(list[d]) \in Nat
      /\ DOMAIN list[d] = 1 .. Len(list[d])
  BY DEF ListsOK
<1>3. PICK new : new = Less(d, D)
  OBVIOUS
<1>4. /\ Len(new) = Len(list[d]) - Cardinality(D)
      /\ \A i \in Left(d, D) : map[i] + 1 \in DOMAIN new /\ new[map[i] + 1] = list[d][i + 1]
      /\ \A n \in DOMAIN new : \E i \in Left(d, D) :
           n - 1 = map[i] /\ new[n] = list[d][i + 1]
  <2>1. /\ Len(new) = Len(list[d]) - Cardinality(D)
        /\ \A i \in Left(d, D) :
             /\ (i - Cardinality(Under(D, i))) + 1 \in DOMAIN new
             /\ new[(i - Cardinality(Under(D, i))) + 1] = list[d][i + 1]
        /\ \A n \in DOMAIN new : \E i \in Left(d, D) :
             n - 1 = i - Cardinality(Under(D, i)) /\ new[n] = list[d][i + 1]
    BY <1>3, LessByRenumbering
  <2> QED
    BY <2>1
<1>5. \A i \in Int : i + 1 \in DOMAIN list[d] /\ i \notin D => i \in Left(d, D)
  BY <1>2 DEF Left
<1>6. \A i \in Left(d, D) : i \in Int /\ i + 1 \in DOMAIN list[d] /\ i \in DOMAIN map
  BY <1>2 DEF Left
<1>7. \A s \in Complete : s \in Range(Stores) /\ In(d, s) \in SUBSET Indices
  <2>1. \A s \in Complete : s \in Range(Stores)
    BY DataIsStore DEF Complete
  <2> QED
    BY <1>1, <2>1, MapsOK
<1>8. \A s : In(d, s)' = In(d, s) /\ \A i : Ep(d, s, i)' = Ep(d, s, i)
  BY FilesAtRequest
<1>9. FilesExact(d)'
  <2> SUFFICES ASSUME NEW s \in Complete
               PROVE  /\ \A i, j \in Indices : Goes(d, s, i, j)' =>
                           j + 1 \in DOMAIN new /\ Ep(d, s, i) = new[j + 1]
                      /\ \A n \in DOMAIN new : <<s, new[n]>> \notin Missing =>
                           \E i \in Indices : Goes(d, s, i, n - 1)'
    BY <1>3, <1>8 DEF FilesExact
  <2>1. /\ \A i, j : Goes(d, s, i, j)' =>
             /\ i \in In(d, s) /\ i \notin D
             /\ i \in DOMAIN map => j = map[i]
             /\ i \notin DOMAIN map => j = i
        /\ \A i \in In(d, s) \cap DOMAIN map : Goes(d, s, i, map[i])'
    BY <1>7, GoesWhenRenumbered
  <2>2. ASSUME NEW i \in Indices, NEW j \in Indices, Goes(d, s, i, j)'
        PROVE  j + 1 \in DOMAIN new /\ Ep(d, s, i) = new[j + 1]
    <3>1. i \in In(d, s) /\ i \notin D
      BY <2>1, <2>2
    <3>2. i + 1 \in DOMAIN list[d] /\ Ep(d, s, i) = list[d][i + 1]
      BY <3>1 DEF InPlace
    <3>3. i \in Left(d, D)
      BY <1>5, <3>1, <3>2 DEF Indices
    <3>4. j = map[i]
      BY <1>6, <2>1, <2>2, <3>3
    <3> QED
      BY <1>4, <3>2, <3>3, <3>4
  <2>3. ASSUME NEW n \in DOMAIN new, <<s, new[n]>> \notin Missing
        PROVE  \E i \in Indices : Goes(d, s, i, n - 1)'
    <3>1. PICK i \in Left(d, D) : n - 1 = map[i] /\ new[n] = list[d][i + 1]
      BY <1>4
    <3>2. i \in Int /\ i + 1 \in DOMAIN list[d] /\ i \in DOMAIN map
      BY <1>6
    <3>3. PICK m \in DOMAIN list[d] : m = i + 1
      BY <3>2
    <3>4. m - 1 \in In(d, s) /\ m - 1 = i
      <4>1. <<s, list[d][m]>> \notin Missing
        BY <2>3, <3>1, <3>3
      <4>2. m - 1 \in In(d, s)
        BY <4>1 DEF InPlace
      <4>3. m - 1 = i
        BY <3>2, <3>3
      <4> QED
        BY <4>2, <4>3
    <3> QED
      BY <1>7, <2>1, <3>1, <3>2, <3>4
  <2> QED
    BY <2>2, <2>3
<1>10. \A r \in Range(RowFiles) : \A q, j :
         RowGoes(d, r, q, j)' <=>
           q \in rows[d][r] /\ q.index \in DOMAIN map /\ j = map[q.index]
  BY <1>1 DEF RowGoes, Renumbers
<1>11. RowsExact(d)'
  <2> SUFFICES ASSUME NEW r \in Range(RowFiles)
               PROVE  /\ \A q \in rows[d][r] : \A j \in Indices : RowGoes(d, r, q, j)' =>
                           j + 1 \in DOMAIN new /\ q.episode = new[j + 1]
                      /\ \A n \in DOMAIN new : \E q \in rows[d][r] : RowGoes(d, r, q, n - 1)'
    BY <1>1, <1>3 DEF RowsExact
  <2>1. ASSUME NEW q \in rows[d][r], NEW j \in Indices, RowGoes(d, r, q, j)'
        PROVE  j + 1 \in DOMAIN new /\ q.episode = new[j + 1]
    <3>1. q.index \in DOMAIN map /\ j = map[q.index] /\ q.index \notin D
      BY <1>1, <1>10, <2>1
    <3>2. q.index + 1 \in DOMAIN list[d] /\ q.episode = list[d][q.index + 1]
      BY DEF InPlace
    <3>3. q.index \in Int
      BY <1>1 DEF TypeOK, Rows, Indices
    <3>4. q.index \in Left(d, D)
      BY <1>5, <3>1, <3>2, <3>3
    <3> QED
      BY <1>4, <3>1, <3>2, <3>4
  <2>2. ASSUME NEW n \in DOMAIN new
        PROVE  \E q \in rows[d][r] : RowGoes(d, r, q, n - 1)'
    <3>1. PICK i \in Left(d, D) : n - 1 = map[i] /\ new[n] = list[d][i + 1]
      BY <1>4
    <3>2. i \in Int /\ i + 1 \in DOMAIN list[d] /\ i \in DOMAIN map
      BY <1>6
    <3>3. PICK m \in DOMAIN list[d] : m = i + 1
      BY <3>2
    <3>4. PICK q \in rows[d][r] : q.index = m - 1
      BY DEF InPlace
    <3>5. q.index = i
      BY <3>2, <3>3, <3>4
    <3> QED
      BY <1>10, <3>1, <3>2, <3>5
  <2> QED
    BY <2>1, <2>2
<1>12. CountExact(d)'
  <2>1. count[d] - Cardinality(D) = Len(new)
    BY <1>4 DEF InPlace
  <2> QED
    BY <1>1, <1>3, <2>1 DEF CountExact
<1> QED
  BY <1>9, <1>11, <1>12 DEF AllExact

\* The parquet files of an exact dataset have the indices from 0 on.
LEMMA DataInPlace ==
  ASSUME TypeOK, ListsOK, NEW d \in Datasets, InPlace(d)
  PROVE  In(d, "data") = 0 .. Len(list[d]) - 1
<1>1. list[d] \in Seq(Episode) /\ Len(list[d]) \in Nat /\ DOMAIN list[d] = 1 .. Len(list[d])
  BY DEF ListsOK
<1>2. "data" \in Complete /\ "data" \in Range(Stores) /\ "data" \notin Range(Media)
  BY DataIsStore DEF Complete
<1>3. In(d, "data") \in SUBSET Nat
  <2>1. In(d, "data") \in SUBSET Indices
    BY <1>2, MapsOK
  <2> QED
    BY <2>1, EditAssumption DEF Indices
<1>4. ASSUME NEW i \in In(d, "data")
      PROVE  i \in 0 .. Len(list[d]) - 1
  <2>1. i + 1 \in DOMAIN list[d]
    BY <1>2 DEF InPlace
  <2> QED
    BY <1>1, <1>3, <2>1
<1>5. ASSUME NEW i \in 0 .. Len(list[d]) - 1
      PROVE  i \in In(d, "data")
  <2>1. i + 1 \in DOMAIN list[d] /\ (i + 1) - 1 = i
    BY <1>1
  <2>2. <<"data", list[d][i + 1]>> \notin Missing
    BY <1>2, EditAssumption
  <2> QED
    BY <1>2, <2>1, <2>2 DEF InPlace
<1> QED
  BY <1>4, <1>5

\* A request leaves the other datasets as they are.
LEMMA OthersStayExact ==
  ASSUME NEW d \in Datasets, Arrives(d), TypeOK', NEW e \in Datasets \ {d}, Exactly(e),
         list'[e] = list[e]
  PROVE  Exactly(e)'
<1>1. Todo(e) = {} /\ ~Merging(e) /\ Todo(e)' = {} /\ ~Merging(e)'
  BY BeforeRequest
<1>2. /\ TypeOK /\ files'[e] = files[e] /\ rows'[e] = rows[e] /\ count'[e] = count[e]
      /\ state'[e] = state[e]
  BY DEF Arrives
<1> QED
  BY <1>1, <1>2, ExactStays

\* A request for an exact dataset finds everything in its place.
LEMMA RequestFinds ==
  ASSUME NEW d \in Datasets, Arrives(d), Exactly(d), state[d] = "exact"
  PROVE  AllExact(d) /\ InPlace(d)
<1>1. Todo(d) = {} /\ ~Merging(d) /\ TypeOK
  BY BeforeRequest DEF Arrives
<1>2. AllExact(d)
  BY <1>1 DEF Exactly
<1> QED
  BY <1>1, <1>2, ExactAtRest DEF RestLaw, AtRest

\* A request changes the list of its dataset only.
LEMMA ArrivesWithEInv ==
  ASSUME EInv, NEW d \in Datasets, Arrives(d), TypeOK', NEW new \in Seq(Episode),
         list' = [list EXCEPT ![d] = new], Exactly(d)'
  PROVE  EInv'
<1>1. ListsOK /\ ContentsFit /\ \A e \in Datasets : Exactly(e)
  BY DEF EInv
<1>2. list' \in [Datasets -> Seq(Episode)] /\ \A e \in Datasets \ {d} : list'[e] = list[e]
  BY <1>1 DEF ListsOK
<1>3. ContentsFit'
  BY <1>1 DEF ContentsFit, In, Ep, Arrives
<1>4. \A e \in Datasets \ {d} : Exactly(e)'
  BY <1>1, <1>2, OthersStayExact
<1> QED
  BY <1>2, <1>3, <1>4 DEF EInv, ListsOK

\* The request to delete several episodes keeps the contents exact: of the indices
\* that are all there the renumbering is that of the list.
LEMMA BatchKeepsEInv ==
  ASSUME IInv, TypeOK', EInv, NEW d \in Datasets, NEW D \in SUBSET Indices, DeleteBatch(d, D)
  PROVE  EInv'
<1>1. PICK T : T = BatchSteps(d, D)
  OBVIOUS
<1>2. PICK m : m = Renumbered(d, D)
  OBVIOUS
<1>3. /\ TypeOK /\ TypeOK' /\ Arrives(d) /\ Requested(d, m, T) /\ Renumbers(d, D, m, T)
      /\ Ordered(T) /\ job'.kind = "batch" /\ job'.todo = T
      /\ \A q \in T : q.op \notin MergeOps
      /\ asked'[d] = asked[d] \cup Named(d, D)
      /\ state'[d] = IF state[d] = "broken" THEN "adrift"
                     ELSE IF D \subseteq In(d, "data") \/ state[d] = "adrift" THEN state[d]
                     ELSE "aligned"
  BY <1>1, <1>2, BatchRequests
<1>4. ListsOK /\ list \in [Datasets -> Seq(Episode)] /\ Exactly(d)
  BY DEF EInv, ListsOK
<1>5. list' = [list EXCEPT ![d] = Less(d, D)] /\ Less(d, D) \in Seq(Episode)
  BY <1>4, LessIs DEF DeleteBatch
<1>6. list'[d] = Less(d, D)
  BY <1>4, <1>5
<1>7. ~Merging(d)'
  BY <1>3 DEF Merging
<1>8. ASSUME state'[d] = "exact"
      PROVE  AllExact(d)'
  <2>1. state[d] = "exact" /\ D \subseteq In(d, "data")
    BY <1>3, <1>8
  <2>2. InPlace(d)
    BY <1>3, <1>4, <2>1, RequestFinds
  <2>3. In(d, "data") = 0 .. Len(list[d]) - 1
    BY <1>3, <1>4, <2>2, DataInPlace
  <2>4. D \in SUBSET (0 .. Len(list[d]) - 1) /\ In(d, "data") \cap D = D
    BY <2>1, <2>3
  <2>5. /\ DOMAIN m = In(d, "data") \ D
        /\ \A i \in DOMAIN m : m[i] = i - Cardinality(Under(In(d, "data") \cap D, i))
    BY <1>2, <1>3, RenumberedIs
  <2>6. DOMAIN m = Left(d, D)
    BY <2>3, <2>5 DEF Left
  <2>7. /\ Left(d, D) \subseteq DOMAIN m
        /\ \A i \in Left(d, D) : m[i] = i - Cardinality(Under(D, i))
    BY <2>4, <2>5, <2>6
  <2>8. \A q \in T : q.op = "info" => q.from = Cardinality(D)
    <3>1. \A q \in T : BatchStep(q, d, D, m)
      BY <1>1, <1>2, <1>3, BatchStepIs
    <3> QED
      BY <3>1 DEF BatchStep
  <2>9. \E q \in T : q.op = "info"
    BY <1>1, <1>2, <1>3, BatchHas
  <2> QED
    BY <1>3, <1>4, <1>6, <2>2, <2>4, <2>7, <2>8, <2>9, ExactWhenRenumbered
<1>9. Exactly(d)'
  BY <1>7, <1>8 DEF Exactly
<1> QED
  BY <1>3, <1>5, <1>9, ArrivesWithEInv

\* The request to delete one episode does so too; when no parquet file is there, it
\* is left with its error.
LEMMA SingleKeepsEInv ==
  ASSUME IInv, TypeOK', EInv, NEW d \in Datasets, NEW k \in Indices, DeleteSingle(d, k)
  PROVE  EInv'
<1>1. PICK T : T = SingleSteps(d, k)
  OBVIOUS
<1>2. PICK m : m = Shifted(k)
  OBVIOUS
<1>3. PICK n : n = FirstLack(d, k)
  OBVIOUS
<1>4. /\ TypeOK /\ TypeOK' /\ Arrives(d) /\ Requested(d, m, T) /\ Ordered(T)
      /\ n = 0 \/ (n \in Nat /\ n # 0)
      /\ n = 0 => Renumbers(d, {k}, m, T) /\ Indices \subseteq {k} \cup DOMAIN m
      /\ job'.kind = "single" /\ job'.todo = T
      /\ \A q \in T : q.op \notin MergeOps
      /\ asked'[d] = asked[d] \cup Named(d, {k})
      /\ n <= 1 => state'[d] = state[d]
      /\ ~(n <= 1) =>
           state'[d] = IF state[d] \in {"broken", "adrift"} THEN state[d] ELSE "aligned"
  BY <1>1, <1>2, <1>3, SingleRequests
<1>5. ListsOK /\ list \in [Datasets -> Seq(Episode)] /\ Exactly(d)
  BY DEF EInv, ListsOK
<1>6. PICK new \in Seq(Episode) : /\ list' = [list EXCEPT ![d] = new]
                                  /\ new = IF n = 1 THEN list[d] ELSE Less(d, {k})
  <2>1. Less(d, {k}) \in Seq(Episode)
    BY <1>5, LessIs
  <2>2. CASE n = 1
    BY <1>3, <1>5, <2>2 DEF DeleteSingle
  <2>3. CASE n # 1
    BY <1>3, <1>5, <2>1, <2>3 DEF DeleteSingle
  <2> QED
    BY <2>2, <2>3
<1>7. list'[d] = new
  BY <1>5, <1>6
<1>8. ~Merging(d)'
  BY <1>4 DEF Merging
<1>9. ASSUME state'[d] = "exact"
      PROVE  AllExact(d)'
  <2>1. n \in {0, 1}
    BY <1>4, <1>9
  <2>2. state[d] = "exact"
    BY <1>4, <1>9 DEF Requested
  <2>3. InPlace(d)
    BY <1>4, <1>5, <2>2, RequestFinds
  <2>4. CASE n = 1
    <3>1. \A q \in T : q.op = "raise"
      <4>1. n # 0 /\ TypeOK
        BY <1>4, <2>4
      <4>2. /\ \A q \in T : q.op \in {"unlink", "raise"}
            /\ \A q \in T : q.op = "unlink" => n # 1
        BY <1>1, <1>3, <4>1, LackStepsAre
      <4> QED
        BY <2>4, <4>2
    <3>2. AtRest(d)'
      BY <1>4, <3>1 DEF AtRest, Requested
    <3>3. InPlace(d)'
      <4>1. list'[d] = list[d] /\ rows' = rows /\ count' = count
        BY <1>4, <1>6, <1>7, <2>4 DEF Requested
      <4>2. \A s : In(d, s)' = In(d, s) /\ \A i : Ep(d, s, i)' = Ep(d, s, i)
        BY <1>4, FilesAtRequest
      <4> QED
        BY <2>3, <4>1, <4>2 DEF InPlace
    <3> QED
      BY <1>4, <3>2, <3>3, ExactAtRestNext DEF RestLaw
  <2>5. CASE n = 0
    <3>1. In(d, "data") = 0 .. Len(list[d]) - 1
      BY <1>4, <1>5, <2>3, DataInPlace
    <3>2. k \in In(d, "data")
      BY <1>3, <2>5, FirstLackIs, DataIsStore
    <3>3. {k} \in SUBSET (0 .. Len(list[d]) - 1) /\ k \in Int
      BY <3>1, <3>2
    <3>4. In(d, "data") \in SUBSET Indices
      BY <1>4, DataIsStore, MapsOK
    <3>5. /\ DOMAIN m = Indices \ {k}
          /\ \A i \in DOMAIN m : m[i] = IF i > k THEN i - 1 ELSE i
      BY <1>2, ShiftedIs
    <3>6. Cardinality({k}) = 1
      BY FS_Singleton
    <3>7. Left(d, {k}) \subseteq DOMAIN m
      BY <3>1, <3>4, <3>5 DEF Left
    <3>8. ASSUME NEW i \in Left(d, {k})
          PROVE  m[i] = i - Cardinality(Under({k}, i))
      <4>1. i \in Int /\ m[i] = IF i > k THEN i - 1 ELSE i
        BY <3>5, <3>7 DEF Left
      <4>2. CASE i > k
        <5>1. k < i
          BY <3>3, <4>1, <4>2
        <5>2. Under({k}, i) = {k}
          BY <5>1 DEF Under
        <5> QED
          BY <3>6, <4>1, <4>2, <5>2
      <4>3. CASE ~(i > k)
        <5>1. ~(k < i)
          BY <3>3, <4>1, <4>3
        <5>2. Under({k}, i) = {}
          BY <5>1 DEF Under
        <5>3. Cardinality(Under({k}, i)) = 0
          BY <5>2, FS_EmptySet
        <5> QED
          BY <4>1, <4>3, <5>3
      <4> QED
        BY <4>2, <4>3
    <3>9. \A q \in T : q.op = "info" => q.from = Cardinality({k})
      <4>1. \A q \in T : SingleStep(q, d, k, m)
        BY <1>1, <1>2, <1>3, <1>4, <2>5, SingleStepIs
      <4> QED
        BY <3>6, <4>1 DEF SingleStep
    <3>10. \E q \in T : q.op = "info"
      <4>1. FirstLack(d, k) = 0 /\ TypeOK
        BY <1>3, <1>4, <2>5
      <4>2. \E q \in SingleSteps(d, k) : q.op = "info"
        BY <1>2, <4>1, SingleHas
      <4> QED
        BY <1>1, <4>2
    <3>11. list'[d] = Less(d, {k}) /\ Renumbers(d, {k}, m, T)
      BY <1>4, <1>6, <1>7, <2>5
    <3> QED
      BY <1>4, <1>5, <2>3, <3>3, <3>7, <3>8, <3>9, <3>10, <3>11, ExactWhenRenumbered
  <2> QED
    BY <2>1, <2>4, <2>5
<1>10. Exactly(d)'
  BY <1>8, <1>9 DEF Exactly
<1> QED
  BY <1>4, <1>6, <1>10, ArrivesWithEInv

\* The request to merge: the output's list is that of both, and nothing of it is
\* there yet.
LEMMA MergeKeepsEInv ==
  ASSUME IInv, TypeOK', EInv, NEW x \in Datasets, NEW y \in Datasets, NEW d \in Datasets,
         MergeDatasets(x, y, d)
  PROVE  EInv'
<1>1. PICK T : T = MergeSteps(x, y)
  OBVIOUS
<1>2. /\ TypeOK /\ TypeOK' /\ Arrives(d) /\ x # d /\ y # d /\ Fits(x, y)
      /\ files' = files /\ rows' = rows /\ count' = count
      /\ job'.kind = "merge" /\ job'.on = d /\ job'.todo = T
      /\ T \in SUBSET Steps /\ Ordered(T) /\ \A q \in T : MergeStep(q, x, y)
      /\ \A at \in MergePlaces : \E q \in T : q.at = at
      /\ asked'[d] = asked[d] \cup Named(d, Indices)
      /\ \A e \in Datasets \ {d} : state'[e] = state[e]
      /\ IntoNew(d, x, y) => state'[d] = state[d]
      /\ ~IntoNew(d, x, y) =>
           state'[d] = IF state[d] \in {"broken", "adrift"} THEN state[d] ELSE "broken"
      /\ Todo(d) = {} /\ Todo(d)' = T /\ Merging(d)' /\ ~Merging(d) /\ Good(d)
  BY <1>1, MergeRequests
<1>3. list \in [Datasets -> Seq(Episode)]
  BY DEF EInv, ListsOK
<1>4. PICK new \in Seq(Episode) : new = list[x] \o list[y]
  <2>1. list[x] \in Seq(Episode) /\ list[y] \in Seq(Episode)
    BY <1>3
  <2>2. list[x] \o list[y] \in Seq(Episode)
    BY <2>1
  <2> QED
    BY <2>2
<1>5. list' = [list EXCEPT ![d] = new]
  BY <1>4 DEF MergeDatasets
<1>6. ASSUME state'[d] = "exact"
      PROVE  Merger(d, x, y)'
  <2>1. IntoNew(d, x, y)
    BY <1>2, <1>6
  <2>2. /\ Merged(d, x, y)' /\ \A at \in MergePlaces : ~Past(at)'
        /\ state'[x] = "exact" /\ state'[y] = "exact"
    BY <2>1, MergeBegins
  <2>3. list'[d] = list'[x] \o list'[y]
    BY <1>2, <1>3, <1>4, <1>5
  <2>4. /\ ~Past(<<3, 1, 0>>)' /\ ~Past(<<3, 2, 0>>)'
        /\ ~Past(<<4, 1, 0>>)' /\ ~Past(<<4, 2, 0>>)'
    BY <2>2 DEF MergePlaces
  <2>5. MergedAll(d, x, y)'
    BY <2>3, <2>4 DEF MergedAll
  <2> QED
    BY <2>2, <2>5 DEF Merger
<1>7. Exactly(d)'
  BY <1>2, <1>6 DEF Exactly
<1> QED
  BY <1>2, <1>5, <1>7, ArrivesWithEInv

----------------------------------------------------------------------------
(* Contents: any step, and the initial state.                              *)

\* A step that changes nothing keeps the contents exact.
LEMMA StutterKeepsEInv ==
  ASSUME EInv, UNCHANGED vars
  PROVE  EInv'
<1>1. /\ files' = files /\ rows' = rows /\ count' = count /\ job' = job
      /\ asked' = asked /\ state' = state /\ list' = list
  BY DEF vars
<1>2. /\ \A e, s : In(e, s)' = In(e, s)
      /\ \A e, s, i : Ep(e, s, i)' = Ep(e, s, i)
      /\ \A e : Todo(e)' = Todo(e) /\ Merging(e)' = Merging(e)
  BY <1>1 DEF In, Ep, Todo, Merging
<1>3. ListsOK' /\ ContentsFit'
  BY <1>1, <1>2 DEF EInv, ListsOK, ContentsFit
<1> SUFFICES ASSUME NEW d \in Datasets
             PROVE  Exactly(d)'
  BY <1>3 DEF EInv
<1>4. Exactly(d)
  BY DEF EInv
<1>5. AllExact(d)' = AllExact(d)
  <2>1. /\ \A s, i, j : Goes(d, s, i, j)' = Goes(d, s, i, j)
        /\ \A r, q, j : RowGoes(d, r, q, j)' = RowGoes(d, r, q, j)
    BY <1>1, <1>2 DEF Goes, RowGoes, Takes, Moves
  <2>2. FilesExact(d)' = FilesExact(d)
    BY <1>1, <1>2, <2>1 DEF FilesExact
  <2>3. RowsExact(d)' = RowsExact(d)
    BY <1>1, <2>1 DEF RowsExact
  <2>4. CountExact(d)' = CountExact(d)
    BY <1>1, <1>2 DEF CountExact
  <2> QED
    BY <2>2, <2>3, <2>4 DEF AllExact
<1>6. ASSUME NEW x \in Datasets \ {d}, NEW y \in Datasets \ {d}, Merger(d, x, y)
      PROVE  Merger(d, x, y)'
  <2>1. MergeSteps(x, y)' = MergeSteps(x, y) /\ Share(x)' = Share(x)
    BY <1>1, SourcesStay
  <2>2. \A at : Past(at)' = Past(at)
    BY <1>1 DEF Past
  <2>3. \A s, j : Comes(d, x, y, s, j)' = Comes(d, x, y, s, j)
    BY <1>2, <2>1 DEF Comes
  <2>4. Merged(d, x, y)'
    BY <1>1, <1>2, <1>6, <2>1, <2>2, <2>3 DEF Merger, Merged
  <2>5. MergedAll(d, x, y)'
    BY <1>1, <1>2, <1>6, <2>1, <2>2 DEF Merger, MergedAll
  <2> QED
    BY <1>1, <1>6, <2>4, <2>5 DEF Merger
<1> QED
  BY <1>1, <1>2, <1>4, <1>5, <1>6 DEF Exactly

\* So the invariant of contents is inductive, relative to the other.
LEMMA NextKeepsEInv ==
  ASSUME IInv, TypeOK', EInv, [Next]_vars
  PROVE  EInv'
<1>1. CASE UNCHANGED vars
  BY <1>1, StutterKeepsEInv
<1>2. CASE \E d \in Datasets :
             \/ \E D \in SUBSET Indices : D # {} /\ DeleteBatch(d, D)
             \/ \E k \in Indices : DeleteSingle(d, k)
             \/ \E x, y \in Datasets : MergeDatasets(x, y, d)
  BY <1>2, BatchKeepsEInv, SingleKeepsEInv, MergeKeepsEInv
<1>3. CASE \E x \in job.todo : Deletes(x)
  BY <1>3, DeletesKeepEInv
<1>4. CASE \E x \in job.todo : Raise(x)
  BY <1>4, RaiseKeepsEInv
<1>5. CASE \E x \in job.todo : Merges(x)
  BY <1>5, MergesKeepEInv
<1>6. CASE Crash
  BY <1>6, CrashKeepsEInv
<1>7. CASE \E x \in job.todo : Fail(x)
  BY <1>7, FailKeepsEInv
<1> QED
  BY <1>1, <1>2, <1>3, <1>4, <1>5, <1>6, <1>7 DEF Next, Deletes, Merges

\* At the beginning every dataset holds the episodes of its list.
LEMMA InitKeepsEInv ==
  ASSUME Init
  PROVE  EInv
<1>1. TypeOK /\ \A d \in Datasets : Todo(d) = {} /\ ~Merging(d)
  <2>1. TypeOK /\ job = NoJob
    BY InitKeepsIInv DEF IInv, Init
  <2>2. NoJob.kind = "none" /\ NoJob.todo = {}
    BY <2>1, NoJobOK
  <2> QED
    BY <2>1, <2>2 DEF Todo, Merging
<1>2. ASSUME NEW d \in Datasets
      PROVE  /\ list[d] \in Seq(Episode) /\ Len(list[d]) = Episodes[d]
             /\ DOMAIN list[d] = 1 .. Episodes[d] /\ Episodes[d] \in Nat
             /\ \A n \in DOMAIN list[d] : list[d][n] = <<d, n>>
  <2>1. list[d] = [n \in 1 .. Episodes[d] |-> <<d, n>>] /\ Episodes[d] \in Nat
    BY EditAssumption DEF Init
  <2>2. \A n \in 1 .. Episodes[d] : <<d, n>> \in Episode
    BY DEF Episode
  <2> QED
    BY <2>1, <2>2
<1>3. ListsOK
  <2>1. list = [d \in Datasets |-> list[d]]
    BY DEF Init
  <2> QED
    BY <1>2, <2>1 DEF ListsOK
<1>4. ASSUME NEW d \in Datasets, NEW s \in Range(Stores)
      PROVE  /\ \A i \in In(d, s) :
                  /\ i + 1 \in DOMAIN list[d] /\ Ep(d, s, i) = list[d][i + 1]
                  /\ <<s, Ep(d, s, i)>> \notin Missing
                  /\ s # "data" => files[d][s][i].column = 0
             /\ \A n \in DOMAIN list[d] : <<s, list[d][n]>> \notin Missing => n - 1 \in In(d, s)
  <2>1. ASSUME NEW i \in In(d, s)
        PROVE  /\ i + 1 \in DOMAIN list[d] /\ Ep(d, s, i) = list[d][i + 1]
               /\ <<s, Ep(d, s, i)>> \notin Missing
               /\ s # "data" => files[d][s][i].column = 0
    <3>1. i \in Nat
      BY <1>1, MapsOK, EditAssumption DEF Indices
    <3>2. /\ i \in 0 .. Episodes[d] - 1 /\ <<s, <<d, i + 1>>>> \notin Missing
          /\ files[d][s][i] = File(<<d, i + 1>>, IF s = "data" THEN i ELSE 0)
      BY <3>1, InitFiles
    <3>3. i + 1 \in DOMAIN list[d] /\ list[d][i + 1] = <<d, i + 1>>
      BY <1>2, <3>1, <3>2
    <3>4. Ep(d, s, i) = <<d, i + 1>> /\ (s # "data" => files[d][s][i].column = 0)
      BY <3>2 DEF Ep, File
    <3> QED
      BY <3>2, <3>3, <3>4
  <2>2. ASSUME NEW n \in DOMAIN list[d], <<s, list[d][n]>> \notin Missing
        PROVE  n - 1 \in In(d, s)
    <3>1. n - 1 \in Nat /\ n - 1 \in 0 .. Episodes[d] - 1 /\ (n - 1) + 1 = n
      BY <1>2
    <3>2. <<s, <<d, n>>>> \notin Missing
      BY <1>2, <2>2
    <3> QED
      BY <3>1, <3>2, InitFiles
  <2> QED
    BY <2>1, <2>2
<1>5. ContentsFit
  BY <1>4 DEF ContentsFit
<1>6. ASSUME NEW d \in Datasets
      PROVE  Exactly(d)
  <2>1. \A s \in Complete : s \in Range(Stores)
    BY DataIsStore DEF Complete
  <2>2. \A r \in Range(RowFiles) :
          rows[d][r] = {Row(i, list[d][i + 1]) : i \in 0 .. Episodes[d] - 1}
    BY DEF Init
  <2>3. ASSUME NEW r \in Range(RowFiles)
        PROVE  /\ \A q \in rows[d][r] :
                    q.index + 1 \in DOMAIN list[d] /\ q.episode = list[d][q.index + 1]
               /\ \A n \in DOMAIN list[d] : \E q \in rows[d][r] : q.index = n - 1
    <3>1. \A i \in 0 .. Episodes[d] - 1 :
            /\ i + 1 \in DOMAIN list[d]
            /\ Row(i, list[d][i + 1]).index = i
            /\ Row(i, list[d][i + 1]).episode = list[d][i + 1]
      BY <1>2 DEF Row
    <3>2. \A n \in DOMAIN list[d] : n - 1 \in 0 .. Episodes[d] - 1
      BY <1>2
    <3> QED
      BY <2>2, <3>1, <3>2
  <2>4. count[d] = Len(list[d])
    BY <1>2 DEF Init
  <2>5. InPlace(d)
    BY <1>4, <2>1, <2>3, <2>4 DEF InPlace
  <2> QED
    BY <1>1, <2>5, ExactAtRest DEF RestLaw, AtRest, Exactly
<1> QED
  BY <1>3, <1>5, <1>6 DEF EInv

----------------------------------------------------------------------------
(* What is proved.                                                         *)

\* The invariant always holds.
LEMMA Invariant == Spec => []IInv
<1>1. IInv /\ [Next]_vars => IInv'
  BY NextKeepsIInv
<1> QED
  BY <1>1, InitKeepsIInv, PTL DEF Spec

\* The invariants always hold, both of them.
LEMMA ExactInvariant == Spec => [](IInv /\ EInv)
<1>1. Init => IInv /\ EInv
  BY InitKeepsIInv, InitKeepsEInv
<1>2. IInv /\ EInv /\ [Next]_vars => (IInv /\ EInv)'
  <2> SUFFICES ASSUME IInv, EInv, [Next]_vars
               PROVE  IInv' /\ EInv'
    OBVIOUS
  <2>1. IInv'
    BY NextKeepsIInv
  <2>2. TypeOK'
    BY <2>1 DEF IInv
  <2> QED
    BY <2>1, <2>2, NextKeepsEInv
<1> QED
  BY <1>1, <1>2, PTL DEF Spec

\* The variables keep their types: every index that a rename, a copy or a merge
\* gives to a file is one of the dataset's, and no count becomes negative.
THEOREM TypeCorrect == Spec => [](TypeOK /\ ListsOK)
<1>1. IInv /\ EInv => TypeOK /\ ListsOK
  BY DEF IInv, EInv
<1> QED
  BY <1>1, ExactInvariant, PTL

\* Whatever fails and at whatever point the server crashes, an episode that was not
\* to be deleted, and of which no parquet file and no video failed to be renamed,
\* keeps its files, in datasets of up to a chunk, with any number of cameras and
\* whatever was missing at the beginning.
THEOREM NothingElseLostAlways == Spec => []NothingElseLost
<1>1. IInv => NothingElseLost
  BY DEF IInv, Good, Kept, NothingElseLost, Ep
<1> QED
  BY <1>1, Invariant, PTL

\* Files and rows of one index are of one episode, whatever deletions and merges
\* there were, of any number of episodes, also those that ended at a missing file.
THEOREM NamesAgreeAlways == Spec => []NamesAgree
<1>1. IInv => NamesAgree
  <2> SUFFICES ASSUME IInv, NEW d \in Datasets, Quiet(d), Sound(d), NEW i \in In(d, "data")
               PROVE  /\ files[d]["data"][i].column = i
                      /\ \A s \in Range(Media) : i \in In(d, s) =>
                           \/ files[d][s][i].episode = files[d]["data"][i].episode
                           \/ state[d] = "aligned" /\ files[d][s][i].episode \in asked[d]
                      /\ \A r \in Range(RowFiles) : \A q \in rows[d][r] :
                           q.index = i => q.episode = files[d]["data"][i].episode
    BY DEF NamesAgree, Sound
  <2>1. TypeOK /\ Good(d)
    BY DEF IInv
  <2>2. Todo(d) = {}
    BY <2>1, NoJobOK DEF Quiet, Todo
  <2>3. MediaAgree(d) /\ RowsAgree(d) /\ ColumnsAgree(d)
    BY <2>1 DEF Good
  <2>4. files[d]["data"][i].column = i
    BY <2>1, <2>2, <2>3, AgreeAtRest
  <2>5. \A s \in Range(Media) : i \in In(d, s) =>
          \/ files[d][s][i].episode = files[d]["data"][i].episode
          \/ state[d] = "aligned" /\ files[d][s][i].episode \in asked[d]
    BY <2>1, <2>2, <2>3, AgreeAtRest DEF Sound, Ep
  <2>6. \A r \in Range(RowFiles) : \A q \in rows[d][r] :
          q.index = i => q.episode = files[d]["data"][i].episode
    BY <2>1, <2>2, <2>3, AgreeAtRest DEF Ep
  <2> QED
    BY <2>4, <2>5, <2>6
<1> QED
  BY <1>1, Invariant, PTL

\* After any deletions of episodes that exist and any merges into new directories,
\* of datasets of up to a chunk, files, column, metadata and count of a dataset are those
\* of the episodes that were left, in their order, without gaps.
THEOREM EditsAreExactAlways == Spec => []EditsAreExact
<1>1. IInv /\ EInv => EditsAreExact
  <2> SUFFICES ASSUME IInv, EInv, NEW d \in Datasets, Quiet(d), state[d] = "exact"
               PROVE  /\ files[d]["data"] =
                           [i \in 0 .. Len(list[d]) - 1 |-> File(list[d][i + 1], i)]
                      /\ \A s \in Range(Videos) : files[d][s] =
                           [i \in {n - 1 : n \in Holds(d, s)} |-> File(list[d][i + 1], 0)]
                      /\ \A r \in Range(RowFiles) :
                           rows[d][r] = {Row(n - 1, list[d][n]) : n \in DOMAIN list[d]}
                      /\ count[d] = Len(list[d])
    BY DEF EditsAreExact
  <2>1. TypeOK /\ Good(d) /\ ListsOK /\ ContentsFit /\ Exactly(d)
    BY DEF IInv, EInv
  <2>2. Todo(d) = {} /\ ~Merging(d)
    <3>1. NoJob.kind = "none" /\ NoJob.todo = {}
      BY <2>1, NoJobOK
    <3> QED
      BY <3>1 DEF Quiet, Todo, Merging
  <2>3. InPlace(d)
    BY <2>1, <2>2, ExactAtRest DEF RestLaw, AtRest, Exactly
  <2>4. /\ "data" \in Complete /\ "data" \in Range(Stores)
        /\ \A s \in Range(Videos) : s \in Complete /\ s \in Range(Stores) /\ s # "data"
    BY DataIsStore DEF Complete
  <2>5. ASSUME NEW s \in Range(Stores), NEW i \in In(d, s)
        PROVE  files[d][s][i] = File(Ep(d, s, i), files[d][s][i].column)
    <3>1. files[d][s][i] \in Contents
      BY <2>1, MapsOK
    <3> QED
      BY <3>1 DEF Contents, File, Ep
  <2>6. /\ DOMAIN list[d] = 1 .. Len(list[d])
        /\ \A i \in Indices : i \in Int
    BY <2>1 DEF ListsOK, Indices
  <2>7. files[d]["data"] = [i \in 0 .. Len(list[d]) - 1 |-> File(list[d][i + 1], i)]
    <3>1. In(d, "data") = 0 .. Len(list[d]) - 1
      BY <2>1, <2>3, DataInPlace
    <3>2. \A i \in In(d, "data") : files[d]["data"][i].column = i
      BY <2>1, <2>2, AgreeAtRest DEF Good, Sound
    <3>3. \A i \in In(d, "data") : files[d]["data"][i] = File(list[d][i + 1], i)
      BY <2>3, <2>4, <2>5, <3>2 DEF InPlace
    <3>4. files[d]["data"] \in [In(d, "data") -> Contents]
      BY <2>1, <2>4, MapsOK
    <3> QED
      BY <3>1, <3>3, <3>4
  <2>8. ASSUME NEW s \in Range(Videos)
        PROVE  files[d][s] = [i \in {n - 1 : n \in Holds(d, s)} |-> File(list[d][i + 1], 0)]
    <3>1. In(d, s) \in SUBSET Indices /\ files[d][s] \in [In(d, s) -> Contents]
      BY <2>1, <2>4, MapsOK
    <3>2. ASSUME NEW i \in In(d, s)
          PROVE  /\ files[d][s][i] = File(list[d][i + 1], 0)
                 /\ i + 1 \in Holds(d, s) /\ (i + 1) - 1 = i
      <4>1. i \in Int
        BY <2>6, <3>1
      <4>2. i + 1 \in DOMAIN list[d] /\ Ep(d, s, i) = list[d][i + 1]
        BY <2>3, <2>4 DEF InPlace
      <4>3. <<s, Ep(d, s, i)>> \notin Missing /\ files[d][s][i].column = 0
        BY <2>1, <2>4 DEF ContentsFit
      <4>4. files[d][s][i] = File(list[d][i + 1], 0)
        BY <2>4, <2>5, <4>2, <4>3
      <4>5. i + 1 \in Holds(d, s)
        BY <4>2, <4>3 DEF Holds
      <4> QED
        BY <4>1, <4>4, <4>5
    <3>3. \A n \in Holds(d, s) : n - 1 \in In(d, s)
      BY <2>3, <2>4 DEF Holds, InPlace
    <3>4. In(d, s) = {n - 1 : n \in Holds(d, s)}
      BY <3>2, <3>3
    <3> QED
      BY <3>1, <3>2, <3>4
  <2>9. ASSUME NEW r \in Range(RowFiles)
        PROVE  rows[d][r] = {Row(n - 1, list[d][n]) : n \in DOMAIN list[d]}
    <3>1. ASSUME NEW q \in rows[d][r]
          PROVE  \E n \in DOMAIN list[d] : q = Row(n - 1, list[d][n])
      <4>1. q \in [index : Indices, episode : Episode]
        BY <2>1 DEF TypeOK, Rows
      <4>2. q.index + 1 \in DOMAIN list[d] /\ q.episode = list[d][q.index + 1]
        BY <2>3 DEF InPlace
      <4>3. PICK n \in DOMAIN list[d] : n = q.index + 1 /\ n - 1 = q.index
        BY <2>6, <4>1, <4>2
      <4>4. q = Row(n - 1, list[d][n])
        BY <4>1, <4>2, <4>3 DEF Row
      <4> QED
        BY <4>4
    <3>2. ASSUME NEW n \in DOMAIN list[d]
          PROVE  Row(n - 1, list[d][n]) \in rows[d][r]
      <4>1. PICK q \in rows[d][r] : q.index = n - 1
        BY <2>3 DEF InPlace
      <4>2. PICK k \in DOMAIN list[d] : q = Row(k - 1, list[d][k])
        BY <3>1
      <4>3. k - 1 = n - 1
        BY <4>1, <4>2 DEF Row
      <4>4. k = n
        BY <2>6, <4>3
      <4> QED
        BY <4>2, <4>4
    <3> QED
      BY <3>1, <3>2
  <2>10. count[d] = Len(list[d])
    BY <2>3 DEF InPlace
  <2> QED
    BY <2>7, <2>8, <2>9, <2>10
<1> QED
  BY <1>1, ExactInvariant, PTL

===============================================================================
