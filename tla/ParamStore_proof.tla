-------------------------- MODULE ParamStore_proof --------------------------
(* Theorems of ParamStore, for every set of values and every modulus of the *)
(* sequence numbers.                                                        *)
EXTENDS ParamStore, TLAPS

USE StoreAssumption

Labels == Operation \cup {"idle", "target", "verify", "activate", "finish", "apply"}

-----------------------------------------------------------------------------
(* Sequence numbers, pages and flash operations                            *)

\* The next number is a sequence number, and it is newer, and not older.
LEMMA NextSeq ==
  ASSUME NEW s \in Sequence
  PROVE  /\ (s + 1) % SeqMod \in Sequence
         /\ Newer((s + 1) % SeqMod, s)
         /\ ~Newer(s, (s + 1) % SeqMod)
<1>1. (s + 1) % SeqMod = IF s = SeqMod - 1 THEN 0 ELSE s + 1 BY DEF Sequence
<1> QED BY <1>1 DEF Newer, Sequence

\* The other page.
LEMMA Others ==
  /\ \A s \in Page : Other(s) \in Page /\ Other(s) # s /\ Other(Other(s)) = s
  /\ \A r, s \in Page : r # s => r = Other(s)
  /\ Other(Nothing) = "A"
BY DEF Other, Page, Nothing

\* The contents of a page that has nothing to load.
LEMMA Contents ==
  /\ NoSnapshot \in Snapshot /\ NoSnapshot.data = Absent
  /\ Blank \in Content /\ ~Valid(Blank) /\ Torn \in Content /\ ~Valid(Torn)
BY DEF NoSnapshot, Snapshot, Sequence, Data, Blank, Torn, Content, Valid

\* What the four flash operations do.
LEMMA Flashes ==
  ASSUME NEW c, NEW s
  PROVE  /\ Flash(c, s, "erase") = Blank
         /\ Flash(c, s, "header") =
              IF c.state = "blank" THEN [state |-> "header", of |-> s]
              ELSE IF c.of = s THEN c ELSE Torn
         /\ Flash(c, s, "payload") =
              IF c.state = "header" /\ c.of = s THEN [state |-> "full", of |-> s]
              ELSE IF c.state \in {"full", "committed"} /\ c.of = s THEN c ELSE Torn
         /\ Flash(c, s, "commit") =
              IF c.state \in {"full", "committed"}
                THEN [c EXCEPT !.state = "committed"] ELSE Torn
BY DEF Flash

\* A flash operation leaves a page of a kind that validate() tells apart.
LEMMA FlashType ==
  ASSUME NEW c \in Content, NEW s \in Snapshot, NEW op \in Operation
  PROVE  Flash(c, s, op) \in Content
<1>1. CASE op = "erase" BY <1>1, Flashes, Contents
<1>2. CASE op = "header"
  <2>1. [state |-> "header", of |-> s] \in Content BY DEF Content
  <2> QED BY <1>2, <2>1, Flashes, Contents
<1>3. CASE op = "payload"
  <2>1. [state |-> "full", of |-> s] \in Content BY DEF Content
  <2> QED BY <1>3, <2>1, Flashes, Contents
<1>4. CASE op = "commit"
  <2>1. [c EXCEPT !.state = "committed"] \in Content BY DEF Content
  <2> QED BY <1>4, <2>1, Flashes, Contents
<1> QED BY <1>1, <1>2, <1>3, <1>4 DEF Operation

LEMMA PartialType ==
  ASSUME TypeOK, NEW t \in Task, pc[t] \in Operation
  PROVE  Partial(t) \subseteq Content
<1>1. page[target[t]] \in Content /\ snap[t] \in Snapshot BY DEF TypeOK
<1>2. Flash(page[target[t]], snap[t], pc[t]) \in Content BY <1>1, FlashType
<1> QED BY <1>1, <1>2, Contents DEF Partial

\* What a power loss leaves of the pages.
LEMMA CutType ==
  ASSUME TypeOK, NEW p \in Cut({t \in Task : pc[t] \in Operation})
  PROVE  /\ p \in [Page -> Content]
         /\ \A s \in Page : \/ p[s] = page[s]
                            \/ \E t \in Task : /\ pc[t] \in Operation
                                               /\ target[t] = s /\ p[s] \in Partial(t)
<1>1. \A s \in Page : \/ p[s] = page[s]
                      \/ \E t \in Task : /\ pc[t] \in Operation
                                         /\ target[t] = s /\ p[s] \in Partial(t)
  BY DEF Cut
<1>2. \A s \in Page : p[s] \in Content BY <1>1, PartialType DEF TypeOK
<1>3. DOMAIN p = Page /\ p = [s \in Page |-> p[s]] BY DEF Cut
<1> QED BY <1>1, <1>2, <1>3

\* Newest, case by case.
LEMMA NewestCases ==
  ASSUME NEW p
  PROVE  /\ ~Valid(p["A"]) /\ ~Valid(p["B"]) => Newest(p) = Nothing
         /\ Valid(p["A"]) /\ ~Valid(p["B"]) => Newest(p) = "A"
         /\ ~Valid(p["A"]) /\ Valid(p["B"]) => Newest(p) = "B"
         /\ Valid(p["A"]) /\ Valid(p["B"]) /\ Newer(p["A"].of.seq, p["B"].of.seq)
              => Newest(p) = "A"
         /\ Valid(p["A"]) /\ Valid(p["B"]) /\ ~Newer(p["A"].of.seq, p["B"].of.seq)
              => Newest(p) = "B"
BY DEF Newest

\* Newest is a valid page, or none is.
LEMMA NewestType ==
  ASSUME NEW p
  PROVE  \/ Newest(p) = Nothing /\ ~Valid(p["A"]) /\ ~Valid(p["B"])
         \/ Newest(p) \in Page /\ Valid(p[Newest(p)])
BY NewestCases DEF Page

-----------------------------------------------------------------------------
(* Types                                                                   *)

LEMMA TypeInit == Init => TypeOK
<1> SUFFICES ASSUME Init PROVE TypeOK OBVIOUS
<1>1. 0 \in Sequence BY DEF Sequence
<1>2. page \in [Page -> Content] /\ snap \in [Task -> Snapshot]
  BY Contents DEF Init
<1>3. pc \in [Task -> Labels] /\ target \in [Task -> Page]
      /\ changed \in [Task -> BOOLEAN]
  BY DEF Init, Page, Labels
<1> QED BY <1>1, <1>2, <1>3 DEF Init, TypeOK, Labels

\* What makeSnapshot and applySnapshot produce.
LEMMA RecordType ==
  ASSUME TypeOK
  PROVE  /\ Record \in Data /\ NextSequence \in Sequence
         /\ \A d \in Data : Applied(d, default) \in Value
                            /\ Applied(d, Firmware) \in Value
BY NextSeq DEF TypeOK, Record, NextSequence, Applied, Data

\* No step takes a variable out of its type.
LEMMA TypeStep == TypeOK /\ [Next]_vars => TypeOK'
<1> SUFFICES ASSUME TypeOK, [Next]_vars PROVE TypeOK' OBVIOUS
<1> USE DEF managerVars, taskVars, historyVars, At, Go, NewGeneration
<1>1. ASSUME NEW v \in Settable, Set(v) PROVE TypeOK'
  BY <1>1 DEF TypeOK, Set
<1>2. CASE Script BY <1>2 DEF TypeOK, Script
<1>3. ASSUME NEW t \in Task, SaveBegin(t) PROVE TypeOK'
  <2>1. [seq |-> NextSequence, data |-> Record] \in Snapshot
    BY RecordType DEF Snapshot
  <2>2. snap' \in [Task -> Snapshot] /\ pc' \in [Task -> Labels]
        /\ changed' \in [Task -> BOOLEAN] /\ pending' \subseteq Data
    BY <1>3, <2>1, RecordType DEF TypeOK, SaveBegin, Labels
  <2> QED BY <1>3, <2>2 DEF TypeOK, SaveBegin, Labels
<1>4. ASSUME NEW t \in Task, Target(t) PROVE TypeOK'
  <2>1. Other(active) \in Page BY Others DEF TypeOK, Page
  <2>2. target' \in [Task -> Page] /\ pc' \in [Task -> Labels]
    BY <1>4, <2>1 DEF TypeOK, Target, Labels, Operation
  <2> QED BY <1>4, <2>2 DEF TypeOK, Target, Labels
<1>5. ASSUME NEW t \in Task, Program(t) PROVE TypeOK'
  <2>1. Flash(page[target[t]], snap[t], pc[t]) \in Content
    BY <1>5, FlashType DEF TypeOK, Program
  <2>2. After[pc[t]] \in Labels BY <1>5 DEF Program, After, Operation, Labels
  <2>3. page' \in [Page -> Content] BY <1>5, <2>1 DEF TypeOK, Program
  <2>4. pc' \in [Task -> Labels] BY <1>5, <2>2 DEF TypeOK, Program, Labels
  <2> QED BY <1>5, <2>3, <2>4 DEF TypeOK, Program, Labels
<1>6. ASSUME NEW t \in Task, Fail(t) PROVE TypeOK'
  <2>1. PICK c \in Partial(t) : page' = [page EXCEPT ![target[t]] = c]
    BY <1>6 DEF Fail
  <2>2. c \in Content BY <1>6, <2>1, PartialType DEF Fail
  <2> QED BY <1>6, <2>1, <2>2 DEF TypeOK, Fail
<1>7. ASSUME NEW t \in Task, Verify(t) PROVE TypeOK'
  BY <1>7 DEF TypeOK, Verify
<1>8. ASSUME NEW t \in Task, Activate(t) PROVE TypeOK'
  BY <1>8 DEF TypeOK, Activate
<1>9. ASSUME NEW t \in Task, Finish(t) PROVE TypeOK'
  <2>1. snap[t] \in Snapshot BY DEF TypeOK
  <2>2. sequence' \in Sequence /\ kept' \in Data \cup {Nothing}
    BY <1>9, <2>1 DEF Finish, Snapshot
  <2>3. dirty' \in BOOLEAN BY <1>9 DEF Finish, TypeOK
  <2> QED BY <1>9, <2>2, <2>3 DEF TypeOK, Finish
<1>10. ASSUME LoadBegin("nsh") PROVE TypeOK'
  <2>1. active' \in Page \cup {Nothing} BY <1>10, NewestType DEF LoadBegin
  <2>2. snap' \in [Task -> Snapshot]
    <3>1. CASE active' = Nothing BY <1>10, <3>1 DEF LoadBegin, TypeOK
    <3>2. CASE active' # Nothing
      <4>1. page[active'].of \in Snapshot BY <2>1, <3>2 DEF TypeOK, Content
      <4> QED BY <1>10, <3>2, <4>1 DEF LoadBegin, TypeOK
    <3> QED BY <3>1, <3>2
  <2>3. pc' \in [Task -> Labels] BY <1>10 DEF LoadBegin, TypeOK, Labels
  <2> QED BY <1>10, <2>1, <2>2, <2>3 DEF TypeOK, LoadBegin, Labels
<1>11. ASSUME LoadEnd("nsh") PROVE TypeOK'
  <2>1. snap["nsh"] \in Snapshot BY DEF TypeOK, Task
  <2>2. sequence' \in Sequence /\ kept' \in Data \cup {Nothing} /\ value' \in Value
    BY <1>11, <2>1, RecordType DEF LoadEnd, Snapshot
  <2> QED BY <1>11, <2>2 DEF TypeOK, LoadEnd
<1>12. CASE Crash
  <2>1. PICK p \in Cut({t \in Task : pc[t] \in Operation}) : Reboot(p)
    BY <1>12 DEF Crash
  <2>2. p \in [Page -> Content] BY <2>1, CutType
  <2>3. active' \in Page \cup {Nothing} BY <2>1, NewestType DEF Reboot
  <2>4. sequence' \in Sequence /\ kept' \in Data \cup {Nothing} /\ value' \in Value
    <3>1. CASE active' = Nothing BY <2>1, <3>1 DEF Reboot, Sequence
    <3>2. CASE active' # Nothing
      <4>1. p[active'].of \in Snapshot BY <2>2, <2>3, <3>2 DEF Content
      <4> QED BY <2>1, <3>2, <4>1, RecordType DEF Reboot, Snapshot
    <3> QED BY <3>1, <3>2
  <2>5. /\ pc' \in [Task -> Labels] /\ snap' \in [Task -> Snapshot]
        /\ target' \in [Task -> Page] /\ changed' \in [Task -> BOOLEAN]
    BY <2>1, Contents DEF Reboot, Labels, Page
  <2> QED BY <2>1, <2>2, <2>3, <2>4, <2>5 DEF TypeOK, Reboot, Labels
<1>13. CASE UNCHANGED vars BY <1>13 DEF TypeOK, vars
<1> QED BY <1>1, <1>2, <1>3, <1>4, <1>5, <1>6, <1>7, <1>8, <1>9, <1>10, <1>11,
           <1>12, <1>13 DEF Next, ParamSet, Save, GoOn

\* Every variable stays in its type, also when saves and loads overlap.
THEOREM TypeCorrect == Spec => []TypeOK
BY TypeInit, TypeStep, PTL DEF Spec

-----------------------------------------------------------------------------
(* The pages, for saves and loads that do not overlap                      *)

\* Newest finds what was kept or a save begun since, and the other page, if it
\* is valid, is the one before it.
LEMMA NewestFinds ==
  ASSUME TypeOK, NEW p \in [Page -> Content], Pages(p)
  PROVE  \/ /\ Newest(p) = Nothing /\ kept = Nothing
            /\ ~Valid(p["A"]) /\ ~Valid(p["B"])
         \/ /\ Newest(p) \in Page /\ Valid(p[Newest(p)])
            /\ \/ kept # Nothing /\ Current(p[Newest(p)])
               \/ Begun(p[Newest(p)])
            /\ kept = Nothing => Newest(p) = "A" /\ ~Valid(p["B"])
            /\ Valid(p[Other(Newest(p))]) =>
                 p[Newest(p)].of.seq = (p[Other(Newest(p))].of.seq + 1) % SeqMod
<1>1. CASE kept = Nothing
  <2>1. ~Valid(p["B"]) /\ (Valid(p["A"]) => Begun(p["A"])) BY <1>1 DEF Pages
  <2>2. CASE Valid(p["A"])
    <3>1. Newest(p) = "A" BY <2>1, <2>2, NewestCases
    <3> QED BY <2>1, <2>2, <3>1 DEF Page, Other
  <2>3. CASE ~Valid(p["A"]) BY <1>1, <2>1, <2>3, NewestCases
  <2> QED BY <2>2, <2>3
<1>2. CASE kept # Nothing
  <2>1. PICK s \in Page : Current(p[s]) /\ (Begun(p[Other(s)]) \/ Outdated(p[Other(s)]))
    BY <1>2 DEF Pages
  <2>2. Other(s) \in Page /\ Other(Other(s)) = s BY Others
  <2>3. p[s].of.seq = sequence /\ Valid(p[s]) BY <2>1 DEF Current
  <2>4. p[Other(s)].of.seq \in Sequence /\ sequence \in Sequence
    BY <2>2 DEF TypeOK, Content, Snapshot
  <2>5. CASE ~Valid(p[Other(s)])
    <3>1. Newest(p) = s BY <2>3, <2>5, NewestCases DEF Page, Other
    <3> QED BY <1>2, <2>1, <2>3, <2>5, <3>1
  <2>6. CASE Valid(p[Other(s)]) /\ Begun(p[Other(s)])
    <3>1. p[Other(s)].of.seq = (sequence + 1) % SeqMod BY <2>6 DEF Begun, NextSequence
    <3>2. Newer(p[Other(s)].of.seq, p[s].of.seq) /\ ~Newer(p[s].of.seq, p[Other(s)].of.seq)
      BY <2>3, <2>4, <3>1, NextSeq
    <3>3. Newest(p) = Other(s) BY <2>3, <2>6, <3>2, NewestCases DEF Page, Other
    <3> QED BY <1>2, <2>2, <2>3, <2>6, <3>1, <3>3
  <2>7. CASE Valid(p[Other(s)]) /\ Outdated(p[Other(s)])
    <3>1. sequence = (p[Other(s)].of.seq + 1) % SeqMod BY <2>7 DEF Outdated
    <3>2. Newer(p[s].of.seq, p[Other(s)].of.seq) /\ ~Newer(p[Other(s)].of.seq, p[s].of.seq)
      BY <2>3, <2>4, <3>1, NextSeq
    <3>3. Newest(p) = s BY <2>3, <2>7, <3>2, NewestCases DEF Page, Other
    <3> QED BY <1>2, <2>1, <2>3, <3>1, <3>3
  <2> QED BY <2>1, <2>5, <2>6, <2>7
<1> QED BY <1>1, <1>2

\* A flash operation, whole, failed or cut short, leaves the page as it was, one
\* that does not load, or one with the new snapshot.
LEMMA PartialPage ==
  ASSUME StoreInv, NEW t \in Task, pc[t] \in Operation, NEW c \in Partial(t)
  PROVE  c = page[target[t]] \/ ~Valid(c) \/ Begun(c)
<1> DEFINE q == page[target[t]]
           f == Flash(q, snap[t], pc[t])
<1>1. Saving(t) BY DEF Saving, Operation
<1>2. snap[t].seq = NextSequence /\ snap[t].data \in pending
  BY <1>1 DEF StoreInv, SaveLife
<1>3. f = q \/ ~Valid(f) \/ Begun(f)
  <2>1. CASE pc[t] = "erase" BY <2>1, Flashes, Contents
  <2>2. CASE pc[t] = "header"
    <3>1. f = [state |-> "header", of |-> snap[t]] \/ f = q \/ f = Torn
      BY <2>2, Flashes
    <3> QED BY <3>1, Contents DEF Valid
  <2>3. CASE pc[t] = "payload"
    <3>1. f = [state |-> "full", of |-> snap[t]] \/ f = q \/ f = Torn
      BY <2>3, Flashes
    <3> QED BY <3>1, Contents DEF Valid
  <2>4. CASE pc[t] = "commit"
    <3>1. q = [state |-> "full", of |-> snap[t]]
      BY <1>1, <2>4 DEF StoreInv, SaveLife
    <3>2. f = [state |-> "committed", of |-> snap[t]] BY <2>4, <3>1, Flashes
    <3> QED BY <1>2, <3>2 DEF Begun, Valid
  <2> QED BY <2>1, <2>2, <2>3, <2>4 DEF Operation
<1>4. c = q \/ c = Torn \/ c = f BY DEF Partial
<1> QED BY <1>3, <1>4, Contents

\* Writing the page of a save does not touch what was kept.
LEMMA WrittenPages ==
  ASSUME StoreInv, NEW t \in Task, pc[t] \in Operation,
         NEW c \in Content, c = page[target[t]] \/ ~Valid(c) \/ Begun(c),
         NEW p \in [Page -> Content], p[target[t]] = c,
         \A s \in Page : s # target[t] => p[s] = page[s]
  PROVE  Pages(p)
<1>1. Saving(t) /\ target[t] = Other(active) BY DEF StoreInv, SaveLife, Saving, Operation
<1>2. \A u \in Task : pc[u] \notin {"finish", "apply"}
  BY DEF StoreInv, Alone, Operation
<1>3. CASE kept = Nothing
  <2>1. target[t] = "A" /\ p["B"] = page["B"]
    BY <1>1, <1>2, <1>3, Others DEF StoreInv, ActivePage, Page
  <2> QED BY <1>3, <2>1 DEF StoreInv, Pages
<1>4. CASE kept # Nothing
  <2>1. active \in Page /\ Current(page[active])
    BY <1>2, <1>4 DEF StoreInv, ActivePage
  <2>2. p[active] = page[active] /\ target[t] \in Page BY <1>1, <2>1, Others
  <2>3. Begun(page[Other(active)]) \/ Outdated(page[Other(active)])
    <3>1. PICK s \in Page : Current(page[s])
                            /\ (Begun(page[Other(s)]) \/ Outdated(page[Other(s)]))
      BY <1>4 DEF StoreInv, Pages
    <3>2. CASE s = active BY <3>1, <3>2
    <3>3. CASE s # active
      <4>1. Other(s) = active BY <2>1, <3>3, Others
      <4>2. Current(page[active]) /\ sequence \in Sequence
        BY <2>1 DEF StoreInv, TypeOK
      <4>3. (sequence + 1) % SeqMod # sequence BY <4>2, NextSeq
      <4> QED BY <3>1, <4>1, <4>2, <4>3 DEF Current, Begun, Outdated, NextSequence
    <3> QED BY <3>2, <3>3
  <2>4. Begun(c) \/ Outdated(c) BY <1>1, <2>3 DEF Outdated
  <2> QED BY <1>1, <1>4, <2>1, <2>2, <2>4 DEF Pages
<1> QED BY <1>3, <1>4

\* So does a power loss.
LEMMA CutPages ==
  ASSUME StoreInv, NEW p \in Cut({t \in Task : pc[t] \in Operation})
  PROVE  Pages(p)
<1>1. p \in [Page -> Content]
      /\ \A s \in Page : \/ p[s] = page[s]
                         \/ \E t \in Task : /\ pc[t] \in Operation
                                            /\ target[t] = s /\ p[s] \in Partial(t)
  BY CutType DEF StoreInv
<1>2. CASE \A s \in Page : p[s] = page[s]
  <2>1. p = page BY <1>1, <1>2 DEF StoreInv, TypeOK
  <2> QED BY <2>1 DEF StoreInv
<1>3. CASE \E s \in Page : p[s] # page[s]
  <2>1. PICK r \in Page, t \in Task :
          pc[t] \in Operation /\ target[t] = r /\ p[r] \in Partial(t)
    BY <1>1, <1>3
  <2>2. \A u \in Task : pc[u] \in Operation => u = t
    BY <2>1 DEF StoreInv, Alone, Operation
  <2>3. \A s \in Page : s # target[t] => p[s] = page[s] BY <1>1, <2>1, <2>2
  <2>4. p[r] = page[r] \/ ~Valid(p[r]) \/ Begun(p[r]) BY <2>1, PartialPage
  <2> QED BY <1>1, <2>1, <2>3, <2>4, WrittenPages
<1> QED BY <1>2, <1>3

-----------------------------------------------------------------------------
(* The steps                                                               *)

\* A task that is not idle is alone.
LEMMA OnlyOne ==
  ASSUME StoreInv, NEW t \in Task, pc[t] # "idle"
  PROVE  \A u \in Task : u # t => pc[u] = "idle"
BY DEF StoreInv, Alone

\* Moving one task on: it stays alone, and the others stay idle.
LEMMA MovesOn ==
  ASSUME StoreInv, NEW t \in Task, NEW l,
         pc[t] # "idle" \/ (\A u \in Task : pc[u] = "idle"), Go(t, l)
  PROVE  /\ pc'[t] = l /\ \A u \in Task : u # t => pc'[u] = "idle"
         /\ Alone'
<1>1. pc'[t] = l /\ \A u \in Task : u # t => pc'[u] = pc[u]
  BY DEF Go, StoreInv, TypeOK
<1>2. \A u \in Task : u # t => pc[u] = "idle" BY OnlyOne
<1> QED BY <1>1, <1>2 DEF Alone

\* Both invariants but for types, of the pages and of the tasks.
StoreRest == Alone /\ Pages(page) /\ ActivePage /\ SaveLife /\ LoadLife

\* The steps that touch neither pages nor tasks.
LEMMA ValuesStep ==
  ASSUME StoreInv, ParamSet \/ Script \/ UNCHANGED vars PROVE StoreRest'
<1>1. /\ UNCHANGED <<sequence, page, active, pc, snap, target, kept, pending>>
      /\ dirty => dirty'
  BY DEF ParamSet, Set, Script, vars, managerVars, taskVars, historyVars
<1>2. Alone' BY <1>1 DEF StoreInv, Alone
<1>3. Pages(page)'
  BY <1>1 DEF StoreInv, Pages, Current, Begun, Outdated, NextSequence
<1>4. ActivePage' BY <1>1 DEF StoreInv, ActivePage, Current
<1>5. SaveLife' BY <1>1 DEF StoreInv, SaveLife, Saving, Current, NextSequence
<1>6. LoadLife' BY <1>1 DEF StoreInv, LoadLife
<1> QED BY <1>2, <1>3, <1>4, <1>5, <1>6 DEF StoreRest

\* A save begins when both tasks are idle.
LEMMA SaveBeginStep ==
  ASSUME StoreInv, ~Overlap, NEW t \in Task, SaveBegin(t) PROVE StoreRest'
<1> USE DEF managerVars
<1>1. /\ pc[t] = "idle" /\ \A u \in Task : pc[u] = "idle"
      /\ pc'[t] = "target" /\ \A u \in Task : u # t => pc'[u] = "idle"
      /\ Alone'
  BY MovesOn DEF SaveBegin, Free, At
<1>2. /\ UNCHANGED <<sequence, page, active, kept>> /\ pending \subseteq pending'
      /\ Record \in pending' /\ dirty' /\ NextSequence' = NextSequence
      /\ snap'[t] = [seq |-> NextSequence, data |-> Record]
  BY DEF SaveBegin, NextSequence, StoreInv, TypeOK
<1>3. Pages(page)'
  BY <1>2 DEF StoreInv, Pages, Current, Begun, Outdated
<1>4. ActivePage' BY <1>1, <1>2 DEF StoreInv, ActivePage, Current
<1>5. SaveLife' BY <1>1, <1>2 DEF SaveLife, Saving
<1>6. LoadLife' BY <1>1 DEF LoadLife
<1> QED BY <1>1, <1>3, <1>4, <1>5, <1>6 DEF StoreRest

\* The steps of a save that leave the pages alone, but for its end.
LEMMA SaveStep ==
  ASSUME StoreInv, NEW t \in Task, Target(t) \/ Verify(t) \/ Activate(t)
  PROVE  StoreRest'
<1> USE DEF managerVars, historyVars
<1>0. /\ pc[t] \in {"target", "verify", "activate"} /\ Saving(t)
      /\ \A u \in Task : u # t => pc[u] = "idle"
  BY OnlyOne DEF Target, Verify, Activate, At, Saving
<1>1. /\ UNCHANGED <<sequence, page, kept, pending, dirty, snap>>
      /\ NextSequence' = NextSequence
  BY DEF Target, Verify, Activate, NextSequence
<1>2. /\ dirty /\ snap[t].seq = NextSequence /\ snap[t].data \in pending
      /\ pc[t] # "target" => target[t] = Other(active)
                             /\ page[target[t]] = [state |-> "committed", of |-> snap[t]]
  BY <1>0 DEF StoreInv, SaveLife
<1>3. IF kept = Nothing THEN active = Nothing ELSE active \in Page /\ Current(page[active])
  BY <1>0 DEF StoreInv, ActivePage
<1>4. Pages(page)'
  BY <1>1 DEF StoreInv, Pages, Current, Begun, Outdated, NextSequence
<1>5. CASE Target(t)
  <2>1. /\ pc'[t] = "erase" /\ \A u \in Task : u # t => pc'[u] = "idle"
        /\ Alone' /\ active' = active /\ target'[t] = Other(active')
    BY <1>0, <1>5, MovesOn DEF Target, StoreInv, TypeOK
  <2>2. ActivePage' BY <1>1, <1>3, <2>1 DEF ActivePage, Current
  <2>3. SaveLife' BY <1>1, <1>2, <2>1 DEF SaveLife, Saving
  <2>4. LoadLife' BY <2>1 DEF LoadLife
  <2> QED BY <1>4, <2>1, <2>2, <2>3, <2>4 DEF StoreRest
<1>6. CASE Verify(t)
  <2>1. Valid(page[target[t]]) /\ page[target[t]].of.seq = snap[t].seq
    BY <1>0, <1>2, <1>6 DEF Verify, At, Valid
  <2>2. Go(t, "activate") BY <1>6, <2>1 DEF Verify
  <2>3. /\ pc'[t] = "activate" /\ \A u \in Task : u # t => pc'[u] = "idle"
        /\ Alone' /\ active' = active /\ target' = target
    BY <1>0, <1>6, <2>2, MovesOn DEF Verify
  <2>4. ActivePage' BY <1>1, <1>3, <2>3 DEF ActivePage, Current
  <2>5. SaveLife' BY <1>0, <1>1, <1>2, <1>6, <2>3 DEF SaveLife, Saving, Verify, At
  <2>6. LoadLife' BY <2>3 DEF LoadLife
  <2> QED BY <1>4, <2>3, <2>4, <2>5, <2>6 DEF StoreRest
<1>7. CASE Activate(t)
  <2>1. /\ pc'[t] = "finish" /\ \A u \in Task : u # t => pc'[u] = "idle"
        /\ Alone' /\ active' = target[t] /\ target' = target
    BY <1>0, <1>7, MovesOn DEF Activate
  <2>2. target[t] = Other(active) /\ page[target[t]] = [state |-> "committed", of |-> snap[t]]
    BY <1>0, <1>2, <1>7 DEF Activate, At
  <2>3. IF kept = Nothing THEN target[t] = "A" ELSE Current(page[Other(target[t])])
    BY <1>3, <2>2, Others
  <2>4. ActivePage' BY <2>1 DEF ActivePage
  <2>5. SaveLife' BY <1>1, <1>2, <2>1, <2>2, <2>3 DEF SaveLife, Saving, Current
  <2>6. LoadLife' BY <2>1 DEF LoadLife
  <2> QED BY <1>4, <2>1, <2>4, <2>5, <2>6 DEF StoreRest
<1> QED BY <1>5, <1>6, <1>7

\* A flash operation that succeeds leaves the page that the next one expects.
LEMMA ProgramStep == ASSUME StoreInv, NEW t \in Task, Program(t) PROVE StoreRest'
<1> USE DEF managerVars, historyVars
<1> DEFINE f == Flash(page[target[t]], snap[t], pc[t])
<1>0. /\ pc[t] \in Operation /\ Saving(t) /\ f \in Partial(t)
      /\ \A u \in Task : u # t => pc[u] = "idle"
  BY OnlyOne DEF Program, Operation, Saving, Partial
<1>1. /\ UNCHANGED <<sequence, active, kept, pending, dirty, snap, target>>
      /\ NextSequence' = NextSequence
      /\ page' = [page EXCEPT ![target[t]] = f]
  BY DEF Program, NextSequence
<1>2. /\ dirty /\ snap[t].seq = NextSequence /\ snap[t].data \in pending
      /\ target[t] = Other(active) /\ target[t] \in Page
  BY <1>0 DEF StoreInv, SaveLife, Operation, TypeOK
<1>3. /\ page' \in [Page -> Content] /\ page'[target[t]] = f /\ f \in Content
      /\ \A s \in Page : s # target[t] => page'[s] = page[s]
  BY <1>0, <1>1, <1>2, PartialType DEF StoreInv, TypeOK
<1>4. IF kept = Nothing THEN active = Nothing ELSE active \in Page /\ Current(page[active])
  BY <1>0 DEF StoreInv, ActivePage, Alone, Operation
<1>5. Pages(page)'
  <2>1. f = page[target[t]] \/ ~Valid(f) \/ Begun(f) BY <1>0, PartialPage
  <2>2. Pages(page') BY <1>0, <1>3, <2>1, WrittenPages
  <2> QED BY <1>1, <2>2 DEF Pages, Current, Begun, Outdated
<1>6. /\ pc'[t] = After[pc[t]] /\ \A u \in Task : u # t => pc'[u] = "idle"
      /\ Alone'
  BY <1>0, MovesOn DEF Program, Operation
<1>7. ActivePage'
  <2>1. kept # Nothing => page'[active] = page[active] BY <1>2, <1>3, <1>4, Others
  <2> QED BY <1>1, <1>4, <2>1 DEF ActivePage, Current
<1>8. SaveLife'
  <2> USE DEF SaveLife, Saving
  <2>1. CASE pc[t] = "erase"
    <3>1. pc'[t] = "header" BY <1>6, <2>1 DEF After
    <3>2. f = Blank BY <2>1, Flashes
    <3> QED BY <1>1, <1>2, <1>3, <1>6, <3>1, <3>2
  <2>2. CASE pc[t] = "header"
    <3>1. pc'[t] = "payload" BY <1>6, <2>2 DEF After
    <3>2. page[target[t]] = Blank BY <1>0, <2>2 DEF StoreInv
    <3>3. f = [state |-> "header", of |-> snap[t]] BY <2>2, <3>2, Flashes DEF Blank
    <3> QED BY <1>1, <1>2, <1>3, <1>6, <3>1, <3>3
  <2>3. CASE pc[t] = "payload"
    <3>1. pc'[t] = "commit" BY <1>6, <2>3 DEF After
    <3>2. page[target[t]] = [state |-> "header", of |-> snap[t]]
      BY <1>0, <2>3 DEF StoreInv
    <3>3. f = [state |-> "full", of |-> snap[t]] BY <2>3, <3>2, Flashes
    <3> QED BY <1>1, <1>2, <1>3, <1>6, <3>1, <3>3
  <2>4. CASE pc[t] = "commit"
    <3>1. pc'[t] = "verify" BY <1>6, <2>4 DEF After
    <3>2. page[target[t]] = [state |-> "full", of |-> snap[t]]
      BY <1>0, <2>4 DEF StoreInv
    <3>3. f = [state |-> "committed", of |-> snap[t]] BY <2>4, <3>2, Flashes
    <3> QED BY <1>1, <1>2, <1>3, <1>6, <3>1, <3>3
  <2> QED BY <1>0, <2>1, <2>2, <2>3, <2>4 DEF Operation
<1>9. LoadLife'
  <2>1. pc'[t] # "apply" BY <1>0, <1>6 DEF After, Operation
  <2> QED BY <1>6, <2>1 DEF LoadLife
<1> QED BY <1>5, <1>6, <1>7, <1>8, <1>9 DEF StoreRest

\* One that fails ends the save, and leaves what was kept.
LEMMA FailStep == ASSUME StoreInv, NEW t \in Task, Fail(t) PROVE StoreRest'
<1> USE DEF managerVars, historyVars
<1>0. pc[t] \in Operation /\ \A u \in Task : u # t => pc[u] = "idle"
  BY OnlyOne DEF Fail, Operation
<1>1. PICK c \in Partial(t) : page' = [page EXCEPT ![target[t]] = c] BY DEF Fail
<1>2. UNCHANGED <<sequence, active, kept, pending>> BY DEF Fail
<1>3. target[t] = Other(active) /\ target[t] \in Page
  BY <1>0 DEF StoreInv, SaveLife, Saving, Operation, TypeOK
<1>4. /\ page' \in [Page -> Content] /\ page'[target[t]] = c /\ c \in Content
      /\ \A s \in Page : s # target[t] => page'[s] = page[s]
  BY <1>0, <1>1, <1>3, PartialType DEF StoreInv, TypeOK
<1>5. IF kept = Nothing THEN active = Nothing ELSE active \in Page /\ Current(page[active])
  BY <1>0 DEF StoreInv, ActivePage, Alone, Operation
<1>6. Pages(page)'
  <2>1. c = page[target[t]] \/ ~Valid(c) \/ Begun(c) BY <1>0, PartialPage
  <2>2. Pages(page') BY <1>0, <1>4, <2>1, WrittenPages
  <2> QED BY <1>2, <2>2 DEF Pages, Current, Begun, Outdated, NextSequence
<1>7. (\A u \in Task : pc'[u] = "idle") /\ Alone'
  BY <1>0, MovesOn DEF Fail, Operation
<1>8. ActivePage'
  <2>1. kept # Nothing => page'[active] = page[active] BY <1>3, <1>4, <1>5, Others
  <2> QED BY <1>2, <1>5, <2>1 DEF ActivePage, Current
<1>9. SaveLife' /\ LoadLife' BY <1>7 DEF SaveLife, Saving, LoadLife
<1> QED BY <1>6, <1>7, <1>8, <1>9 DEF StoreRest

\* What a finished save or load, or a boot, takes over from page s.
TakenOver(p, s) ==
  /\ s \in Page /\ Valid(p[s]) /\ page' = p /\ active' = s
  /\ sequence' = p[s].of.seq /\ kept' = p[s].of.data
  /\ Valid(p[Other(s)]) => p[s].of.seq = (p[Other(s)].of.seq + 1) % SeqMod
  /\ \A t \in Task : pc'[t] = "idle"

\* That is kept from then on.
LEMMA TakeOver ==
  ASSUME NEW p \in [Page -> Content], NEW s, TakenOver(p, s) PROVE StoreRest'
<1>1. p[s].of \in Snapshot /\ p[s].of = [seq |-> sequence', data |-> kept']
  BY DEF TakenOver, Content, Snapshot
<1>2. kept' # Nothing BY <1>1 DEF Snapshot, Data
<1>3. Current(page[s])' BY <1>1 DEF TakenOver, Current, Valid
<1>4. Outdated(page[Other(s)])' BY DEF TakenOver, Outdated, Valid
<1>5. Pages(page)' BY <1>2, <1>3, <1>4 DEF Pages, TakenOver
<1>6. ActivePage' BY <1>2, <1>3 DEF ActivePage, TakenOver
<1>7. Alone' /\ SaveLife' /\ LoadLife'
  BY DEF TakenOver, Alone, SaveLife, Saving, LoadLife
<1> QED BY <1>5, <1>6, <1>7 DEF StoreRest

\* A finished save: the other page holds what was kept before.
LEMMA FinishStep == ASSUME StoreInv, NEW t \in Task, Finish(t) PROVE StoreRest'
<1>1. /\ pc[t] = "finish" /\ Saving(t) /\ \A u \in Task : u # t => pc[u] = "idle"
      /\ \A u \in Task : pc'[u] = "idle"
  BY OnlyOne, MovesOn DEF Finish, At, Saving
<1>2. /\ target[t] \in Page /\ page[target[t]] = [state |-> "committed", of |-> snap[t]]
      /\ active = target[t] /\ snap[t].seq = NextSequence
      /\ IF kept = Nothing THEN target[t] = "A" ELSE Current(page[Other(target[t])])
  BY <1>1 DEF StoreInv, SaveLife, TypeOK
<1>3. Valid(page[Other(target[t])]) =>
        snap[t].seq = (page[Other(target[t])].of.seq + 1) % SeqMod
  <2>1. CASE kept = Nothing
    BY <1>2, <2>1 DEF StoreInv, Pages, Other
  <2>2. CASE kept # Nothing
    BY <1>2, <2>2 DEF Current, NextSequence
  <2> QED BY <2>1, <2>2
<1>4. TakenOver(page, target[t])
  BY <1>1, <1>2, <1>3 DEF TakenOver, Finish, Valid
<1> QED BY <1>4, TakeOver DEF StoreInv, TypeOK

\* A load reads the newest page, and takes it over.
LEMMA LoadStep ==
  ASSUME StoreInv, ~Overlap, LoadBegin("nsh") \/ LoadEnd("nsh") PROVE StoreRest'
<1> USE DEF managerVars, historyVars
<1>0. "nsh" \in Task BY DEF Task
<1>1. CASE LoadBegin("nsh")
  <2>1. /\ \A u \in Task : pc[u] = "idle"
        /\ UNCHANGED <<page, sequence, kept, pending>> /\ active' = Newest(page)
    BY <1>0, <1>1 DEF LoadBegin, Free, At
  <2>2. Pages(page)'
    BY <2>1 DEF StoreInv, Pages, Current, Begun, Outdated, NextSequence
  <2>3. CASE active' = Nothing
    <3>1. pc' = pc /\ kept = Nothing
      BY <1>1, <2>1, <2>3, NewestFinds DEF LoadBegin, StoreInv, TypeOK, Page, Nothing
    <3>2. ActivePage' /\ Alone' /\ SaveLife' /\ LoadLife'
      BY <2>1, <2>3, <3>1 DEF ActivePage, Alone, SaveLife, Saving, LoadLife
    <3> QED BY <2>2, <3>2 DEF StoreRest
  <2>4. CASE active' # Nothing
    <3>1. /\ pc'["nsh"] = "apply" /\ \A u \in Task : u # "nsh" => pc'[u] = "idle"
          /\ Alone'
      BY <1>0, <1>1, <2>1, <2>4, MovesOn DEF LoadBegin
    <3>2. active' \in Page /\ snap'["nsh"] = page[active'].of
      BY <1>0, <1>1, <2>1, <2>4, NewestType DEF LoadBegin, StoreInv, TypeOK
    <3>3. ActivePage' /\ SaveLife' BY <1>0, <3>1 DEF ActivePage, SaveLife, Saving
    <3>4. LoadLife' BY <2>1, <3>1, <3>2 DEF LoadLife, Newest, Valid, Newer
    <3> QED BY <2>2, <3>1, <3>3, <3>4 DEF StoreRest
  <2> QED BY <2>3, <2>4
<1>2. CASE LoadEnd("nsh")
  <2>1. /\ pc["nsh"] = "apply" /\ \A u \in Task : pc'[u] = "idle"
    BY <1>0, <1>2, MovesOn DEF LoadEnd, At
  <2>2. active \in Page /\ active = Newest(page) /\ snap["nsh"] = page[active].of
    BY <1>0, <2>1 DEF StoreInv, LoadLife
  <2>3. TakenOver(page, active)
    <3>1. /\ Valid(page[active])
          /\ Valid(page[Other(active)]) =>
               page[active].of.seq = (page[Other(active)].of.seq + 1) % SeqMod
      BY <2>2, NewestFinds DEF StoreInv, TypeOK, Page, Nothing
    <3> QED BY <1>2, <2>1, <2>2, <3>1 DEF TakenOver, LoadEnd
  <2> QED BY <2>3, TakeOver DEF StoreInv, TypeOK
<1> QED BY <1>1, <1>2

\* A boot takes over what the power loss left.
LEMMA CrashStep == ASSUME StoreInv, Crash PROVE StoreRest'
<1>1. PICK p \in Cut({t \in Task : pc[t] \in Operation}) : Reboot(p) BY DEF Crash
<1>2. p \in [Page -> Content] /\ Pages(p) BY CutType, CutPages DEF StoreInv
<1>3. \A t \in Task : pc'[t] = "idle" BY <1>1 DEF Reboot
<1>4. CASE Newest(p) = Nothing
  <2>1. /\ page' = p /\ active' = Nothing /\ kept' = Nothing
        /\ ~Valid(p["A"]) /\ ~Valid(p["B"])
    BY <1>1, <1>4, NewestType DEF Reboot, Page, Nothing
  <2>2. Pages(page)' BY <2>1 DEF Pages, Valid
  <2>3. ActivePage' BY <2>1 DEF ActivePage
  <2>4. Alone' /\ SaveLife' /\ LoadLife' BY <1>3 DEF Alone, SaveLife, Saving, LoadLife
  <2> QED BY <2>2, <2>3, <2>4 DEF StoreRest
<1>5. CASE Newest(p) # Nothing
  <2>1. /\ Newest(p) \in Page /\ Valid(p[Newest(p)])
        /\ Valid(p[Other(Newest(p))]) =>
             p[Newest(p)].of.seq = (p[Other(Newest(p))].of.seq + 1) % SeqMod
    BY <1>2, <1>5, NewestFinds DEF StoreInv
  <2>2. TakenOver(p, Newest(p)) BY <1>1, <1>3, <1>5, <2>1 DEF TakenOver, Reboot
  <2> QED BY <1>2, <2>2, TakeOver
<1> QED BY <1>4, <1>5

-----------------------------------------------------------------------------
(* What a boot finds                                                       *)

LEMMA StoreInit == Init => StoreInv
<1> SUFFICES ASSUME Init PROVE StoreInv OBVIOUS
<1>1. ~Valid(page["A"]) /\ ~Valid(page["B"]) BY Contents DEF Init, Page
<1>2. Pages(page) /\ ActivePage BY <1>1 DEF Init, Pages, ActivePage
<1>3. Alone /\ SaveLife /\ LoadLife
  BY DEF Init, Alone, SaveLife, Saving, LoadLife
<1> QED BY <1>2, <1>3, TypeInit DEF StoreInv

LEMMA StoreNext == ASSUME ~Overlap PROVE StoreInv /\ [Next]_vars => StoreInv'
<1> SUFFICES ASSUME StoreInv, [Next]_vars PROVE StoreInv' OBVIOUS
<1>1. TypeOK' BY TypeStep DEF StoreInv
<1>2. StoreRest'
  BY ValuesStep, SaveBeginStep, SaveStep, ProgramStep, FailStep, FinishStep,
     LoadStep, CrashStep DEF Next, Save, GoOn
<1> QED BY <1>1, <1>2 DEF StoreInv, StoreRest

\* If saves and loads do not overlap, the inductive invariant of the store holds.
THEOREM StoreInvariance == ASSUME ~Overlap PROVE Spec => []StoreInv
BY StoreInit, StoreNext, PTL DEF Spec

LEMMA StoreDurable == StoreInv => Durable
<1> SUFFICES ASSUME StoreInv, kept # Nothing
             PROVE  /\ Newest(page) # Nothing
                    /\ page[Newest(page)].of.data \in {kept} \cup pending
  BY DEF Durable
<1>1. /\ Newest(page) \in Page
      /\ Current(page[Newest(page)]) \/ Begun(page[Newest(page)])
  BY NewestFinds DEF StoreInv, TypeOK
<1> QED BY <1>1 DEF Current, Begun, Page, Nothing

\* If saves and loads do not overlap, the next boot finds what was last kept, or
\* a save begun since, whatever failed meanwhile.
THEOREM DurableSafe == ASSUME ~Overlap PROVE Spec => []Durable
BY StoreInvariance, StoreDurable, PTL

\* And it does, wherever in an erase or a write the power was lost.
THEOREM CrashSafe == ASSUME ~Overlap PROVE Spec => CrashKeeps
<1>1. ASSUME StoreInv, Crash, kept # Nothing PROVE kept' \in {kept} \cup pending
  <2>1. PICK p \in Cut({t \in Task : pc[t] \in Operation}) : Reboot(p)
    BY <1>1 DEF Crash
  <2>2. p \in [Page -> Content] /\ Pages(p) BY <1>1, <2>1, CutType, CutPages DEF StoreInv
  <2>3. /\ Newest(p) \in Page
        /\ Current(p[Newest(p)]) \/ Begun(p[Newest(p)])
    BY <1>1, <2>2, NewestFinds DEF StoreInv
  <2>4. kept' = p[Newest(p)].of.data
    BY <2>1, <2>3 DEF Reboot, Page, Nothing
  <2> QED BY <2>3, <2>4 DEF Current, Begun
<1>2. StoreInv /\ [Next]_vars =>
        [Crash /\ kept # Nothing => kept' \in {kept} \cup pending]_vars
  BY <1>1
<1> QED BY <1>2, StoreInvariance, PTL DEF Spec, CrashKeeps

-----------------------------------------------------------------------------
(* What clean means                                                        *)

\* A flash operation stores no other data.
LEMMA PartialData ==
  ASSUME TypeOK, NEW t \in Task, pc[t] \in Operation, NEW c \in Partial(t)
  PROVE  c.of \in {NoSnapshot, snap[t], page[target[t]].of}
<1> DEFINE q == page[target[t]]
           f == Flash(q, snap[t], pc[t])
<1>1. Blank.of = NoSnapshot /\ Torn.of = NoSnapshot BY DEF Blank, Torn
<1>2. f.of \in {NoSnapshot, snap[t], q.of}
  <2>1. CASE pc[t] = "erase" BY <1>1, <2>1, Flashes
  <2>2. CASE pc[t] = "header" BY <1>1, <2>2, Flashes
  <2>3. CASE pc[t] = "payload" BY <1>1, <2>3, Flashes
  <2>4. CASE pc[t] = "commit"
    <3>1. f = [q EXCEPT !.state = "committed"] \/ f = Torn BY <2>4, Flashes
    <3>2. q \in Content BY DEF TypeOK
    <3>3. [q EXCEPT !.state = "committed"].of = q.of BY <3>2 DEF Content
    <3> QED BY <1>1, <3>1, <3>3
  <2> QED BY <2>1, <2>2, <2>3, <2>4 DEF Operation
<1>3. c = q \/ c = Torn \/ c = f BY DEF Partial
<1> QED BY <1>1, <1>2, <1>3

\* The firmware default is not among the data, if the operator never sets it.
LEMMA DefaultsStep ==
  ASSUME Firmware \notin Settable, StoreInv, Defaults, [Next]_vars PROVE Defaults'
<1> USE DEF Defaults, managerVars, taskVars, historyVars, StoreInv, TypeOK
<1>0. Absent # Firmware /\ Nothing # Firmware OBVIOUS
<1>1. ASSUME NEW v \in Settable, Set(v) PROVE Defaults'
  BY <1>1 DEF Set
<1>2. CASE Script BY <1>2 DEF Script
<1>3. ASSUME NEW t \in Task, SaveBegin(t) PROVE Defaults'
  <2>1. Record # Firmware BY <1>0 DEF Record
  <2> QED BY <1>3, <2>1 DEF SaveBegin
<1>4. ASSUME NEW t \in Task, Target(t) \/ Verify(t) \/ Activate(t) PROVE Defaults'
  BY <1>4 DEF Target, Verify, Activate
<1>5. ASSUME NEW t \in Task, Program(t) \/ Fail(t) PROVE Defaults'
  <2>1. PICK c \in Partial(t) : page' = [page EXCEPT ![target[t]] = c]
    BY <1>5 DEF Program, Fail, Partial
  <2>2. pc[t] \in Operation /\ target[t] \in Page BY <1>5 DEF Program, Fail
  <2>3. c.of.data # Firmware BY <1>0, <2>2, PartialData, Contents
  <2>4. UNCHANGED <<value, default, scripted, kept, snap>>
    BY <1>5 DEF Program, Fail
  <2> QED BY <2>1, <2>2, <2>3, <2>4
<1>6. ASSUME NEW t \in Task, Finish(t) PROVE Defaults'
  BY <1>6 DEF Finish
<1>7. CASE LoadBegin("nsh")
  <2>1. active' # Nothing => active' \in Page
    BY <1>7, NewestType DEF LoadBegin
  <2> QED BY <1>7, <2>1 DEF LoadBegin
<1>8. CASE LoadEnd("nsh")
  <2>1. "nsh" \in Task BY DEF Task
  <2> QED BY <1>8, <2>1 DEF LoadEnd, Applied
<1>9. CASE Crash
  <2>1. PICK p \in Cut({t \in Task : pc[t] \in Operation}) : Reboot(p)
    BY <1>9 DEF Crash
  <2>2. \A s \in Page : p[s].of.data # Firmware
    <3>1. \A s \in Page : \/ p[s] = page[s]
                          \/ \E t \in Task : /\ pc[t] \in Operation
                                             /\ target[t] = s /\ p[s] \in Partial(t)
      BY <2>1, CutType
    <3>2. ASSUME NEW s \in Page, NEW t \in Task, pc[t] \in Operation,
                 target[t] = s, p[s] \in Partial(t)
          PROVE  p[s].of.data # Firmware
      <4>1. p[s].of \in {NoSnapshot, snap[t], page[target[t]].of} BY <3>2, PartialData
      <4> QED BY <1>0, <3>2, <4>1, Contents
    <3> QED BY <3>1, <3>2
  <2>3. active' # Nothing => active' \in Page BY <2>1, NewestType DEF Reboot
  <2>4. kept' # Firmware BY <1>0, <2>1, <2>2, <2>3 DEF Reboot
  <2>5. \A t \in Task : snap'[t].data # Firmware BY <1>0, <2>1, Contents DEF Reboot
  <2> QED BY <2>1, <2>2, <2>4, <2>5 DEF Reboot
<1>10. CASE UNCHANGED vars BY <1>10 DEF vars
<1> QED BY <1>1, <1>2, <1>3, <1>4, <1>5, <1>6, <1>7, <1>8, <1>9, <1>10
        DEF Next, ParamSet, Save, GoOn

\* Nothing is pending when the parameters become clean.
LEMMA IdleStep ==
  ASSUME StoreInv, CleanIdle, [Next]_vars PROVE CleanIdle'
<1> USE DEF CleanIdle, managerVars, historyVars
<1>1. ASSUME NEW t \in Task, GoOn(t) PROVE CleanIdle'
  BY <1>1 DEF GoOn, Target, Program, Verify, Activate, Finish
<1>2. ASSUME NEW t \in Task, SaveBegin(t) \/ Fail(t) PROVE CleanIdle'
  BY <1>2 DEF SaveBegin, Fail
<1>3. CASE ParamSet \/ Script BY <1>3 DEF ParamSet, Set, Script
<1>4. CASE LoadBegin("nsh") \/ LoadEnd("nsh") BY <1>4 DEF LoadBegin, LoadEnd
<1>5. CASE Crash BY <1>5 DEF Crash, Reboot
<1>6. CASE UNCHANGED vars BY <1>6 DEF vars
<1> QED BY <1>1, <1>2, <1>3, <1>4, <1>5, <1>6 DEF Next, Save

\* Clean values are those kept.
LEMMA ValueStep ==
  ASSUME StoreInv, CleanInv, [Next]_vars PROVE CleanValue' /\ SnapValue'
<1> USE DEF CleanInv, CleanValue, SnapValue, KeptData, managerVars, taskVars,
            historyVars, Saving, StoreInv, TypeOK, At, Go
<1>0. Absent # Nothing /\ Nothing \notin Data BY DEF Data
<1>1. ASSUME NEW v \in Settable, Set(v) PROVE CleanValue' /\ SnapValue'
  BY <1>1 DEF Set, NewGeneration
<1>2. CASE Script
  <2>1. CleanValue' BY <1>2 DEF Script, Applied, Defaults
  <2>2. SnapValue'
    <3>1. CASE default = Airframe BY <1>2, <3>1 DEF Script, Applied
    <3>2. CASE default # Airframe BY <1>2, <3>2 DEF Script, NewGeneration
    <3> QED BY <3>1, <3>2
  <2> QED BY <2>1, <2>2
<1>3. ASSUME NEW t \in Task, SaveBegin(t) PROVE CleanValue' /\ SnapValue'
  <2>1. value = Applied(Record, default) BY DEF Applied, Record
  <2>2. snap'[t].data = Record BY <1>3 DEF SaveBegin
  <2>3. \A u \in Task : u # t => snap'[u] = snap[u] /\ pc'[u] = pc[u]
                                  /\ changed'[u] = changed[u]
    BY <1>3 DEF SaveBegin
  <2>4. SnapValue' BY <1>3, <2>1, <2>2, <2>3 DEF SaveBegin, Applied
  <2> QED BY <1>3, <2>4 DEF SaveBegin
<1>4. ASSUME NEW t \in Task, Target(t) \/ Program(t) \/ Verify(t) \/ Activate(t) \/ Fail(t)
      PROVE  CleanValue' /\ SnapValue'
  <2>1. Saving(t) /\ UNCHANGED <<managerVars, kept, snap, changed>>
    BY <1>4 DEF Target, Program, Verify, Activate, Fail, Operation
  <2>2. \A u \in Task : u # t => pc'[u] = pc[u]
    BY <1>4 DEF Target, Program, Verify, Activate, Fail
  <2> QED BY <2>1, <2>2 DEF Applied
<1>5. ASSUME NEW t \in Task, Finish(t) PROVE CleanValue' /\ SnapValue'
  <2>1. Saving(t) /\ dirty BY <1>5 DEF Finish, SaveLife
  <2>2. kept' = snap[t].data /\ snap[t].data \in Data
    BY <1>5 DEF Finish, Snapshot
  <2>3. CleanValue' BY <1>0, <1>5, <2>1, <2>2 DEF Finish, Applied
  <2>4. \A u \in Task : pc'[u] = "idle" \/ pc'[u] = pc[u] BY <1>5 DEF Finish
  <2> QED BY <1>5, <2>3, <2>4 DEF Finish, Applied
<1>6. CASE LoadBegin("nsh")
  <2>1. \A u \in Task : pc'[u] \in {"idle", "apply"}
                        \/ (pc'[u] = pc[u] /\ snap'[u] = snap[u])
    BY <1>6 DEF LoadBegin
  <2> QED BY <1>6, <2>1 DEF LoadBegin, Applied
<1>7. CASE LoadEnd("nsh")
  <2>1. "nsh" \in Task BY DEF Task
  <2>2. kept' = snap["nsh"].data /\ snap["nsh"].data \in Data
    BY <1>7, <2>1 DEF LoadEnd, Snapshot
  <2> QED BY <1>0, <1>7, <2>2 DEF LoadEnd, NewGeneration, Applied
<1>8. CASE Crash
  <2>1. PICK p \in Cut({t \in Task : pc[t] \in Operation}) : Reboot(p)
    BY <1>8 DEF Crash
  <2>2. p \in [Page -> Content] BY <2>1, CutType
  <2>3. CASE active' = Nothing BY <2>1, <2>3 DEF Reboot, Applied
  <2>4. CASE active' # Nothing
    <3>1. active' \in Page BY <2>1, <2>4, NewestType DEF Reboot
    <3>2. p[active'].of.data \in Data BY <2>2, <3>1 DEF Content, Snapshot
    <3> QED BY <1>0, <2>1, <2>4, <3>2 DEF Reboot, Applied
  <2> QED BY <2>3, <2>4
<1>9. CASE UNCHANGED vars BY <1>9 DEF vars, Applied
<1> QED BY <1>1, <1>2, <1>3, <1>4, <1>5, <1>6, <1>7, <1>8, <1>9
        DEF Next, ParamSet, Save, GoOn

LEMMA CleanInit == Init => CleanInv
<1> SUFFICES ASSUME Init PROVE CleanInv OBVIOUS
<1>1. Absent # Firmware /\ Nothing # Firmware OBVIOUS
<1>2. Defaults
  BY <1>1, Contents DEF Init, Defaults, Blank
<1>3. CleanIdle /\ CleanValue /\ SnapValue
  BY DEF Init, CleanIdle, CleanValue, SnapValue, Saving, KeptData, Applied
<1> QED BY <1>2, <1>3 DEF CleanInv

LEMMA CleanNext ==
  ASSUME Firmware \notin Settable
  PROVE  StoreInv /\ CleanInv /\ [Next]_vars => CleanInv'
BY DefaultsStep, IdleStep, ValueStep DEF CleanInv

\* What a boot loads, and the boot script makes of it, is the clean value.
LEMMA CleanRestored == StoreInv /\ CleanInv => CleanMeansStored
<1> SUFFICES ASSUME StoreInv, CleanInv, scripted, ~dirty PROVE value = AfterBoot
  BY DEF CleanMeansStored
<1>1. pending = {} /\ default = Airframe /\ value = Applied(KeptData, Airframe)
  BY DEF CleanInv, CleanIdle, Defaults, CleanValue
<1>2. CASE kept = Nothing
  <2>1. Newest(page) = Nothing
    BY <1>1, <1>2, NewestFinds DEF StoreInv, TypeOK, Begun
  <2> QED BY <1>1, <1>2, <2>1 DEF AfterBoot, KeptData, Applied
<1>3. CASE kept # Nothing
  <2>1. Newest(page) \in Page /\ Current(page[Newest(page)])
    BY <1>1, <1>3, NewestFinds DEF StoreInv, TypeOK, Begun
  <2>2. Newest(page) # Nothing /\ page[Newest(page)].of.data = kept
    BY <2>1 DEF Page, Nothing, Current
  <2>3. kept # Firmware BY DEF CleanInv, Defaults
  <2> QED BY <1>1, <1>3, <2>2, <2>3 DEF AfterBoot, KeptData, Applied
<1> QED BY <1>2, <1>3

\* If the operator never sets the firmware default, the second invariant holds.
THEOREM CleanInvariance ==
  ASSUME ~Overlap, Firmware \notin Settable PROVE Spec => []CleanInv
BY StoreInvariance, CleanInit, CleanNext, PTL DEF Spec

\* Clean parameters are then the ones the next boot restores.
THEOREM CleanSafe ==
  ASSUME ~Overlap, Firmware \notin Settable PROVE Spec => []CleanMeansStored
BY StoreInvariance, CleanInvariance, CleanRestored, PTL
=============================================================================
