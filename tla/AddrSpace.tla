----------------------------- MODULE AddrSpace ------------------------------
(***************************************************************************)
(* What the memory manager promises its clients, with no free list, no     *)
(* reference counts, no page tables and no TLB: every address space is a   *)
(* map from addresses to pages, a call changes the map at the one address  *)
(* it names, a page handed out is nobody else's and all zero, and a        *)
(* program's store reaches the page its own map names and no other.        *)
(***************************************************************************)
CONSTANTS
  Page,      \* the pages that may be handed out
  Root,      \* the address space that exists from the start
  Va,        \* virtual addresses
  Idx,       \* positions in a page
  Perm,      \* permissions of a mapping
  Writable(_),  \* whether a permission lets a program store
  Word,      \* what a position holds
  Clear,     \* what a position of a fresh page holds
  FaultPerm, \* the permission of a page made on demand
  Unmapped   \* the value of a map where no page is

VARIABLES
  spaces,    \* the address spaces, each a map from Va to mappings
  current,   \* the one the processor uses
  owned,     \* pages handed out and not mapped yet
  content,   \* the contents of the pages owned or mapped
  stopped    \* the kernel has panicked

avars == <<spaces, current, owned, content, stopped>>

Mapping == [pg : Page, perm : Perm]

\* The pages mapped somewhere when the maps are `sp'.
Mapped(sp) == {sp[x[1]][x[2]].pg : x \in
                 {x \in (DOMAIN sp) \X Va : sp[x[1]][x[2]] # Unmapped}}
InUse == owned \cup Mapped(spaces) \cup DOMAIN spaces

\* The contents when the maps are `sp', the pages `ow' are owned, and pages not
\* in use before are clear.
Contents(sp, ow) ==
  [p \in ow \cup Mapped(sp) |->
     IF p \in DOMAIN content THEN content[p] ELSE [i \in Idx |-> Clear]]

\* The maps become `sp' and the owned pages `ow'; a page no longer in use loses
\* its contents.
Become(sp, ow) == owned' = ow /\ spaces' = sp /\ content' = Contents(sp, ow)

AInit ==
  /\ spaces = [s \in {Root} |-> [va \in Va |-> Unmapped]]
  /\ current = Root /\ owned = {} /\ stopped = FALSE
  /\ content = [p \in {} |-> Clear]

Alloc == \E p \in Page \ InUse :
  Become(spaces, owned \cup {p}) /\ UNCHANGED <<current, stopped>>

Free == \E p \in owned :
  Become(spaces, owned \ {p}) /\ UNCHANGED <<current, stopped>>

Map == \E s \in DOMAIN spaces, va \in Va :
  /\ UNCHANGED <<current, stopped>>
  /\ \E perm \in Perm, p \in owned \cup Mapped(spaces) :
       /\ spaces'[s][va] = [pg |-> p, perm |-> perm]
       /\ Become([spaces EXCEPT ![s][va] = [pg |-> p, perm |-> perm]], owned \ {p})

Unmap == \E s \in DOMAIN spaces, va \in Va :
  /\ Become([spaces EXCEPT ![s][va] = Unmapped], owned)
  /\ UNCHANGED <<current, stopped>>

NewSpace == \E s \in Page \ InUse :
  /\ Become([t \in DOMAIN spaces \cup {s} |->
               IF t = s THEN [va \in Va |-> Unmapped] ELSE spaces[t]], owned)
  /\ UNCHANGED <<current, stopped>>

Switch == \E s \in DOMAIN spaces :
  current' = s /\ UNCHANGED <<spaces, owned, content, stopped>>

\* A page made on demand, where the running program has none.
Demand == \E va \in Va, p \in Page \ InUse :
  /\ spaces[current][va] = Unmapped
  /\ Become([spaces EXCEPT ![current][va] = [pg |-> p, perm |-> FaultPerm]], owned)
  /\ UNCHANGED <<current, stopped>>

Store == \E va \in Va, i \in Idx, w \in Word :
  LET e == spaces[current][va]
  IN  /\ e # Unmapped /\ Writable(e.perm)
      /\ content' = [content EXCEPT ![e.pg][i] = w]
      /\ UNCHANGED <<spaces, current, owned, stopped>>

Stop == stopped' = TRUE /\ UNCHANGED <<spaces, current, owned, content>>

ANext == ~stopped /\ (Alloc \/ Free \/ Map \/ Unmap \/ NewSpace \/ Switch
                      \/ Demand \/ Store \/ Stop)

ASpec == AInit /\ [][ANext]_avars
=============================================================================
