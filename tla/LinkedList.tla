----------------------------- MODULE LinkedList -----------------------------
(***************************************************************************)
(* The LIST macros of include/queue.h, pointer by pointer: page_free_list, *)
(* env_free_list and the lists a scheduler would keep are built from them. *)
(*                                                                         *)
(* A pointer field is named by the structure it is in: next[h] is lh_first *)
(* of head h and next[e] is le_next of element e.  So le_prev, the address *)
(* of the pointer that points at an element, is a head or an element, and  *)
(* `*(elm)->le_prev' is next[prev[elm]].                                   *)
(*                                                                         *)
(* `list' is not in memory: it is the order a user of the macros believes  *)
(* each list to have.  A user inserts an element that is on no list, and   *)
(* names elements that are on one.                                         *)
(***************************************************************************)
EXTENDS Integers, SequencesExt

CONSTANTS
  Elem,    \* the elements, struct Page or struct Env
  ListHead,    \* the list heads
  NULL

ASSUME LinkedListAssumption == Elem \cap ListHead = {} /\ NULL \notin Elem \cup ListHead

VARIABLES
  next,    \* lh_first and le_next
  prev,    \* le_prev
  tail,    \* where LIST_INSERT_TAIL is: its head and element, or NULL
  saved,   \* heads copied to a local variable: `fl = page_free_list'
  list,    \* what the user believes each list to hold ...
  stolen   \* ... and each list that was copied away

vars == <<next, prev, tail, saved, list, stolen>>

OnList == UNION {ToSet(list[h]) \cup ToSet(stolen[h]) : h \in ListHead}

\* `alloc' clears the structures; LIST_INIT clears the heads.
Init ==
  /\ next = [x \in Elem \cup ListHead |-> NULL] /\ prev = [e \in Elem |-> NULL]
  /\ tail = NULL
  /\ saved = [h \in ListHead |-> NULL]
  /\ list = [h \in ListHead |-> << >>] /\ stolen = [h \in ListHead |-> << >>]

Idle == tail = NULL

\* `p->field.le_prev = v', where p may be NULL only if the code tests it.
SetPrev(f, p, v) == IF p = NULL THEN f ELSE [f EXCEPT ![p] = v]

-----------------------------------------------------------------------------
(***************************************************************************)
(* The pointers after each macro.                                          *)
(***************************************************************************)

head_next(h, elm) == [next EXCEPT ![elm] = next[h], ![h] = elm]
head_prev(h, elm) == [SetPrev(prev, next[h], elm) EXCEPT ![elm] = h]

LIST_INSERT_HEAD(h, elm) ==
  /\ next' = head_next(h, elm)
  /\ prev' = head_prev(h, elm)

slip_LIST_INSERT_AFTER(listelm, elm) ==            \* the successor's le_prev is forgotten
  /\ next' = [next EXCEPT ![elm] = next[listelm], ![listelm] = elm]
  /\ prev' = [prev EXCEPT ![elm] = listelm]

LIST_INSERT_AFTER(listelm, elm) ==
  /\ next' = [next EXCEPT ![elm] = next[listelm], ![listelm] = elm]
  /\ prev' = [SetPrev(prev, next[listelm], elm) EXCEPT ![elm] = listelm]

LIST_INSERT_BEFORE(listelm, elm) ==
  /\ next' = [next EXCEPT ![elm] = listelm, ![prev[listelm]] = elm]
  /\ prev' = [prev EXCEPT ![elm] = prev[listelm], ![listelm] = elm]

slip_LIST_REMOVE(elm) ==                           \* the last element stays linked
  /\ prev' = SetPrev(prev, next[elm], prev[elm])
  /\ next' = IF next[elm] = NULL THEN next ELSE [next EXCEPT ![prev[elm]] = next[elm]]

\* The removed element keeps its links.
LIST_REMOVE(elm) ==
  /\ prev' = SetPrev(prev, next[elm], prev[elm])
  /\ next' = [next EXCEPT ![prev[elm]] = next[elm]]

-----------------------------------------------------------------------------
(***************************************************************************)
(* The user's operations.                                                  *)
(***************************************************************************)

InsertHead == \E h \in ListHead, elm \in Elem \ OnList :
  /\ Idle
  /\ LIST_INSERT_HEAD(h, elm)
  /\ list' = [list EXCEPT ![h] = InsertAt(@, 1, elm)]
  /\ UNCHANGED <<tail, saved, stolen>>

InsertAfter == \E h \in ListHead, elm \in Elem \ OnList : \E k \in 1 .. Len(list[h]) :
  /\ Idle
  /\ LIST_INSERT_AFTER(list[h][k], elm)
  /\ list' = [list EXCEPT ![h] = InsertAt(@, k + 1, elm)]
  /\ UNCHANGED <<tail, saved, stolen>>

InsertBefore == \E h \in ListHead, elm \in Elem \ OnList : \E k \in 1 .. Len(list[h]) :
  /\ Idle
  /\ LIST_INSERT_BEFORE(list[h][k], elm)
  /\ list' = [list EXCEPT ![h] = InsertAt(@, k, elm)]
  /\ UNCHANGED <<tail, saved, stolen>>

RemoveElem == \E h \in ListHead : \E k \in 1 .. Len(list[h]) :
  /\ Idle
  /\ LIST_REMOVE(list[h][k])
  /\ list' = [list EXCEPT ![h] = RemoveAt(@, k)]
  /\ UNCHANGED <<tail, saved, stolen>>

\* LIST_INSERT_TAIL is LIST_INSERT_HEAD on an empty list ...
InsertTailEmpty == \E h \in ListHead, elm \in Elem \ OnList :
  /\ Idle /\ next[h] = NULL
  /\ LIST_INSERT_HEAD(h, elm)
  /\ list' = [list EXCEPT ![h] = InsertAt(@, Len(@) + 1, elm)]
  /\ UNCHANGED <<tail, saved, stolen>>

\* ... and else a LIST_FOREACH whose variable is the element's own le_next.
InsertTailBegin == \E h \in ListHead, elm \in Elem \ OnList :
  /\ Idle /\ next[h] # NULL
  /\ next' = [next EXCEPT ![elm] = next[h]]
  /\ tail' = [head |-> h, elm |-> elm]
  /\ UNCHANGED <<prev, saved, list, stolen>>

\* One turn: the body, then the step to the next element.
InsertTailTurn ==
  /\ ~Idle /\ next[tail.elm] # NULL
  /\ prev' = [prev EXCEPT ![tail.elm] = prev[next[tail.elm]]]
  /\ next' = [next EXCEPT ![tail.elm] = next[next[tail.elm]]]
  /\ UNCHANGED <<tail, saved, list, stolen>>

\* le_prev is now the address of the pointer to the last element.
InsertTailEnd ==
  /\ ~Idle /\ next[tail.elm] = NULL
  /\ LET last == next[prev[tail.elm]]
     IN  /\ prev' = [prev EXCEPT ![tail.elm] = last]
         /\ next' = [next EXCEPT ![last] = tail.elm]
  /\ list' = [list EXCEPT ![tail.head] = InsertAt(@, Len(@) + 1, tail.elm)]
  /\ tail' = NULL
  /\ UNCHANGED <<saved, stolen>>

slip_Steal == \E h \in ListHead :                     \* the address of the head is copied
  /\ Idle /\ stolen[h] = << >>
  /\ saved' = [saved EXCEPT ![h] = h]
  /\ next' = [next EXCEPT ![h] = NULL]
  /\ list' = [list EXCEPT ![h] = << >>] /\ stolen' = [stolen EXCEPT ![h] = list[h]]
  /\ UNCHANGED <<prev, tail>>

\* The self tests copy a head, empty the list and later put the copy back; what
\* was inserted meanwhile is then on no list.
Steal == \E h \in ListHead :
  /\ Idle /\ stolen[h] = << >>
  /\ saved' = [saved EXCEPT ![h] = next[h]]
  /\ next' = [next EXCEPT ![h] = NULL]
  /\ list' = [list EXCEPT ![h] = << >>] /\ stolen' = [stolen EXCEPT ![h] = list[h]]
  /\ UNCHANGED <<prev, tail>>

GiveBack == \E h \in ListHead :
  /\ Idle /\ stolen[h] # << >>
  /\ next' = [next EXCEPT ![h] = saved[h]]
  /\ saved' = [saved EXCEPT ![h] = NULL]
  /\ list' = [list EXCEPT ![h] = stolen[h]] /\ stolen' = [stolen EXCEPT ![h] = << >>]
  /\ UNCHANGED <<prev, tail>>

TailLoop == InsertTailTurn \/ InsertTailEnd

Next ==
  \/ InsertHead \/ InsertAfter \/ InsertBefore \/ RemoveElem
  \/ InsertTailEmpty \/ InsertTailBegin \/ InsertTailTurn \/ InsertTailEnd
  \/ Steal \/ GiveBack

Spec == Init /\ [][Next]_vars

\* A macro's code runs on: nothing else runs until the loop is over.
FairSpec == Spec /\ WF_vars(TailLoop)
-----------------------------------------------------------------------------
(***************************************************************************)
(* Properties.                                                             *)
(***************************************************************************)

\* Types of the link fields (struct LIST_ENTRY) and of the believed lists.
TypeOK ==
  /\ next \in [Elem \cup ListHead -> Elem \cup {NULL}]
  /\ prev \in [Elem -> Elem \cup ListHead \cup {NULL}]
  /\ tail \in [head : ListHead, elm : Elem] \cup {NULL}
  /\ saved \in [ListHead -> Elem \cup {NULL}]
  /\ list \in [ListHead -> Seq(Elem)] /\ stolen \in [ListHead -> Seq(Elem)]

\* With the links nx and pv: the pointer to the first element is `first', each
\* element points at the next and the last at nothing, and le_prev is where the
\* pointer to the element is.
Chain(nx, pv, h, first, s) ==
  /\ first = IF s = << >> THEN NULL ELSE s[1]
  /\ \A k \in 1 .. Len(s) :
       /\ nx[s[k]] = IF k = Len(s) THEN NULL ELSE s[k + 1]
       /\ pv[s[k]] = IF k = 1 THEN h ELSE s[k - 1]

\* The pointers of every list are the order its user believes in, in both
\* directions, also of a list whose head was copied away.
Linked ==
  \A h \in ListHead : /\ Chain(next, prev, h, next[h], list[h])
                      /\ Chain(next, prev, h, saved[h], stolen[h])

\* LIST_INSERT_TAIL's loop over a list that is being extended comes to its end.
TailEnds == tail # NULL ~> tail = NULL
=============================================================================
