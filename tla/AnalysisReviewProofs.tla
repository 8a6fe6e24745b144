------------------------ MODULE AnalysisReviewProofs ------------------------
(***************************************************************************)
(* The history of an annotation, for any number of reviewers, annotations  *)
(* and revisions, over whatever the sessions of the workspace do.          *)
(***************************************************************************)
EXTENDS AnalysisReview, FiniteSetTheorems, TLAPS

(***************************************************************************)
(* The inductive invariant.  An edit works on what it has read: the        *)
(* revision it answers is still there and still has the time it was        *)
(* compared with, because rows are never removed or written over.  So the  *)
(* insert it makes, if it is not refused, extends the history at its end.  *)
(***************************************************************************)
Linear(rows) ==
    \E n \in Nat \ {0} :
        /\ DOMAIN rows = 1..n
        /\ \A r \in 1..n : /\ rows[r].answers = r - 1
                           /\ r > 1 => rows[r].time >= rows[r - 1].time

Edits(u) == request[u].op = "edit"

HasRead(u) ==
    LET read == request[u] IN
    /\ read.annotation \in DOMAIN annotations
    /\ read.expected \in DOMAIN annotations[read.annotation].rows
    /\ read.time >= annotations[read.annotation].rows[read.expected].time

HistoryInv ==
    /\ \E S : annotations \in Seq(S)
    /\ DOMAIN request = Reviewers
    /\ \A a \in DOMAIN annotations : Linear(annotations[a].rows)
    /\ \A u \in Reviewers : Edits(u) => HasRead(u)

\* No step takes back a revision or what it says (revise_annotation inserts).
AppendOnly ==
    \A a \in DOMAIN annotations :
        /\ a \in DOMAIN annotations'
        /\ \A r \in DOMAIN annotations[a].rows :
              /\ r \in DOMAIN annotations'[a].rows
              /\ annotations'[a].rows[r] = annotations[a].rows[r]

-------------------------------------------------------------------------------
(* The operators of validation_annotations.                                *)

\* A new annotation has a history of one revision.
LEMMA NewIsLinear ==
    ASSUME NEW target, NEW seen, NEW says, NEW time
    PROVE  Linear(NewAnnotation(target, seen, says, time).rows)
<1> DEFINE rows == NewAnnotation(target, seen, says, time).rows
<1>1. DOMAIN rows = 1..1 /\ rows[1].answers = 0
  BY DEF NewAnnotation, Row
<1> QED BY <1>1 DEF Linear

\* An insert that is not refused answers the last revision of the history.
LEMMA RevisedIsLinear ==
    ASSUME NEW annotation, NEW expected, NEW says, NEW time,
           Linear(annotation.rows), expected \in DOMAIN annotation.rows,
           time >= annotation.rows[expected].time, Inserts(annotation, expected)
    PROVE  Linear(Revised(annotation, expected, says, time).rows)
<1> DEFINE old == annotation.rows
           new == Revised(annotation, expected, says, time).rows
<1>1. PICK n \in Nat \ {0} :
          /\ DOMAIN old = 1..n
          /\ \A r \in 1..n : /\ old[r].answers = r - 1
                             /\ r > 1 => old[r].time >= old[r - 1].time
  BY DEF Linear
<1>2. expected = n
  BY <1>1 DEF Inserts
<1>3. /\ DOMAIN new = 1..(n + 1)
      /\ new[n + 1] = Row(says, time, n)
      /\ \A r \in 1..n : new[r] = old[r]
  BY <1>1, <1>2 DEF Revised
<1>4. new[n + 1].answers = n /\ new[n + 1].time >= new[n].time
  BY <1>1, <1>2, <1>3 DEF Row
<1>5. ASSUME NEW r \in 1..(n + 1)
      PROVE  new[r].answers = r - 1 /\ (r > 1 => new[r].time >= new[r - 1].time)
  <2>1. CASE r = n + 1
    BY <1>4, <2>1
  <2>2. CASE r \in 1..n
    <3>1. new[r] = old[r] /\ (r > 1 => new[r - 1] = old[r - 1])
      BY <1>3, <2>2
    <3>2. old[r].answers = r - 1 /\ (r > 1 => old[r].time >= old[r - 1].time)
      BY <1>1, <2>2
    <3> HIDE DEF new, old
    <3> QED BY <3>1, <3>2
  <2> QED BY <2>1, <2>2
<1> QED BY <1>3, <1>5 DEF Linear

\* An insert that is not refused keeps every row.
LEMMA RevisedKeepsRows ==
    ASSUME NEW annotation, NEW expected, NEW says, NEW time, Inserts(annotation, expected),
           NEW r \in DOMAIN annotation.rows
    PROVE  /\ r \in DOMAIN Revised(annotation, expected, says, time).rows
           /\ Revised(annotation, expected, says, time).rows[r] = annotation.rows[r]
BY DEF Revised, Inserts

\* What load_annotation demands follows from a linear history.
LEMMA LinearIsComplete ==
    ASSUME NEW annotation, Linear(annotation.rows)
    PROVE  Complete(annotation)
<1>1. PICK n \in Nat \ {0} : DOMAIN annotation.rows = 1..n
  BY DEF Linear
<1>2. Cardinality(1..n) = n
  BY FS_Interval
<1>3. annotation.rows # << >>
  BY <1>1
<1> QED BY <1>1, <1>2, <1>3 DEF Complete

-------------------------------------------------------------------------------
(* The steps.                                                              *)

LEMMA InitHistory == ReviewInit => HistoryInv
<1> SUFFICES ASSUME ReviewInit PROVE HistoryInv
  OBVIOUS
<1>1. annotations = << >> /\ request = [u \in Reviewers |-> NoRequest]
  BY DEF ReviewInit
<1>2. annotations \in Seq({})
  BY <1>1
<1>3. \A u \in Reviewers : ~Edits(u)
  BY <1>1 DEF Edits, NoRequest
<1> QED BY <1>1, <1>2, <1>3 DEF HistoryInv

\* A step that leaves the annotations alone and lets nobody begin an edit.
LEMMA QuietStep ==
    ASSUME HistoryInv, UNCHANGED annotations, DOMAIN request' = Reviewers,
           \A u \in Reviewers : Edits(u)' => request'[u] = request[u]
    PROVE  HistoryInv' /\ AppendOnly
<1>1. \A u \in Reviewers : Edits(u)' => HasRead(u)'
  BY DEF HistoryInv, Edits, HasRead
<1> QED BY <1>1 DEF HistoryInv, AppendOnly

\* A step that changes one annotation, or adds one, keeping every old row.
LEMMA GrowingStep ==
    ASSUME HistoryInv, AppendOnly, \E S : annotations' \in Seq(S),
           \A a \in DOMAIN annotations' : Linear(annotations'[a].rows),
           NEW v \in Reviewers, request' = [request EXCEPT ![v] = NoRequest]
    PROVE  HistoryInv'
<1>1. ASSUME NEW u \in Reviewers, Edits(u)' PROVE HasRead(u)'
  <2>1. u # v /\ request'[u] = request[u]
    BY <1>1 DEF HistoryInv, Edits, NoRequest
  <2>2. HasRead(u)
    BY <1>1, <2>1 DEF HistoryInv, Edits
  <2> QED BY <2>1, <2>2 DEF HasRead, AppendOnly
<1> QED BY <1>1 DEF HistoryInv

LEMMA BeginEditStep ==
    ASSUME HistoryInv, NEW u \in Reviewers, BeginEdit(u) PROVE HistoryInv' /\ AppendOnly
<1>0. PICK a \in DOMAIN annotations, time \in Times :
          \E expected \in DOMAIN annotations[a].rows :
              /\ Revisable(annotations[a], expected, time)
              /\ Asks(u, [op |-> "edit", annotation |-> a, expected |-> expected, time |-> time])
  BY DEF BeginEdit
<1>1. PICK expected \in DOMAIN annotations[a].rows :
          /\ Revisable(annotations[a], expected, time)
          /\ request' = [request EXCEPT ![u] =
                [op |-> "edit", annotation |-> a, expected |-> expected, time |-> time]]
          /\ UNCHANGED annotations
  BY <1>0 DEF Asks
<1>2. HasRead(u)'
  BY <1>1 DEF HasRead, Revisable, HistoryInv
<1>3. ASSUME NEW v \in Reviewers, v # u, Edits(v)' PROVE HasRead(v)'
  BY <1>1, <1>3 DEF HistoryInv, Edits, HasRead
<1> QED BY <1>1, <1>2, <1>3 DEF HistoryInv, AppendOnly

LEMMA CreateStep ==
    ASSUME HistoryInv, NEW u \in Reviewers, Create(u) PROVE HistoryInv' /\ AppendOnly
<1>1. request' = [request EXCEPT ![u] = NoRequest]
  BY DEF Create, Ends
<1>2. CASE UNCHANGED annotations
  BY <1>1, <1>2, QuietStep DEF HistoryInv, Edits, NoRequest
<1>3. CASE ~UNCHANGED annotations
  <2> DEFINE new == NewAnnotation(request[u].target, request[u].seen, u, request[u].time)
  <2>1. annotations' = Append(annotations, new)
    BY <1>3 DEF Create
  <2>2. Linear(new.rows)
    BY NewIsLinear
  <2> HIDE DEF new
  <2>3. PICK S : annotations \in Seq(S)
    BY DEF HistoryInv
  <2>4. annotations \in Seq(S \cup {new})
    BY <2>3
  <2>5. annotations' \in Seq(S \cup {new})
    BY <2>1, <2>4
  <2>6. /\ DOMAIN annotations' = DOMAIN annotations \cup {Len(annotations) + 1}
        /\ \A a \in DOMAIN annotations : annotations'[a] = annotations[a]
        /\ annotations'[Len(annotations) + 1] = new
    BY <2>1, <2>3
  <2>7. AppendOnly
    BY <2>6 DEF AppendOnly
  <2>8. \A a \in DOMAIN annotations' : Linear(annotations'[a].rows)
    BY <2>2, <2>6 DEF HistoryInv
  <2> QED BY <1>1, <2>5, <2>7, <2>8, GrowingStep
<1> QED BY <1>2, <1>3

LEMMA EditStep ==
    ASSUME HistoryInv, NEW u \in Reviewers, Edit(u) PROVE HistoryInv' /\ AppendOnly
<1>1. request' = [request EXCEPT ![u] = NoRequest] /\ Edits(u)
  BY DEF Edit, Ends, Edits
<1>2. CASE UNCHANGED annotations
  BY <1>1, <1>2, QuietStep DEF HistoryInv, Edits, NoRequest
<1>3. CASE ~UNCHANGED annotations
  <2> DEFINE a == request[u].annotation
             expected == request[u].expected
             new == Revised(annotations[a], expected, u, request[u].time)
  <2>1. annotations' = [annotations EXCEPT ![a] = new] /\ Inserts(annotations[a], expected)
    BY <1>3 DEF Edit
  <2>2. a \in DOMAIN annotations /\ expected \in DOMAIN annotations[a].rows
        /\ request[u].time >= annotations[a].rows[expected].time
    BY <1>1 DEF HistoryInv, HasRead
  <2>3. Linear(new.rows)
    BY <2>1, <2>2, RevisedIsLinear DEF HistoryInv
  <2>4. \A r \in DOMAIN annotations[a].rows :
            r \in DOMAIN new.rows /\ new.rows[r] = annotations[a].rows[r]
    BY <2>1, RevisedKeepsRows
  <2> HIDE DEF a, expected, new
  <2>5. PICK S : annotations \in Seq(S)
    BY DEF HistoryInv
  <2>6. annotations' \in Seq(S \cup {new})
    BY <2>1, <2>2, <2>5
  <2>7. /\ DOMAIN annotations' = DOMAIN annotations
        /\ annotations'[a] = new
        /\ \A b \in DOMAIN annotations : b # a => annotations'[b] = annotations[b]
    BY <2>1, <2>2
  <2>8. AppendOnly
    BY <2>4, <2>7 DEF AppendOnly
  <2>9. \A b \in DOMAIN annotations' : Linear(annotations'[b].rows)
    BY <2>3, <2>7 DEF HistoryInv
  <2> QED BY <1>1, <2>6, <2>8, <2>9, GrowingStep
<1> QED BY <1>2, <1>3

LEMMA HistoryStep ==
    ASSUME HistoryInv, [ReviewNext]_reviewVars PROVE HistoryInv' /\ AppendOnly
<1>1. CASE Sessions \/ UNCHANGED reviewVars
  BY <1>1, QuietStep DEF Sessions, reviewVars, HistoryInv
<1>2. ASSUME NEW u \in Reviewers, BeginCreate(u) PROVE HistoryInv' /\ AppendOnly
  <2>1. PICK r : r.op = "create" /\ request' = [request EXCEPT ![u] = r] /\ UNCHANGED annotations
    BY <1>2 DEF BeginCreate, Asks
  <2> QED BY <2>1, QuietStep DEF HistoryInv, Edits
<1>3. ASSUME NEW u \in Reviewers, Abandon(u) PROVE HistoryInv' /\ AppendOnly
  BY <1>3, QuietStep DEF Abandon, Ends, HistoryInv, Edits, NoRequest
<1> QED BY <1>1, <1>2, <1>3, BeginEditStep, CreateStep, EditStep DEF ReviewNext

LEMMA HistoryAlways == ReviewSpec => []HistoryInv
BY InitHistory, HistoryStep, PTL DEF ReviewSpec

-------------------------------------------------------------------------------
\* The history of every annotation is complete, without a branch, and ordered
\* in time, whatever the transactions of its reviewers interleave.
THEOREM AnnotationHistories == ReviewSpec => []HistoriesAreLinear
<1>1. HistoryInv => HistoriesAreLinear
  BY LinearIsComplete DEF HistoryInv, HistoriesAreLinear, Linear
<1> QED BY <1>1, HistoryAlways, PTL

\* Nothing a reviewer said is ever removed or written over.
THEOREM NothingSaidIsLost == ReviewSpec => [][AppendOnly]_reviewVars
<1>1. HistoryInv /\ [ReviewNext]_reviewVars => [AppendOnly]_reviewVars
  BY HistoryStep
<1> QED BY <1>1, HistoryAlways, PTL DEF ReviewSpec

=============================================================================
