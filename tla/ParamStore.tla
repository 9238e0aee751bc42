----------------------------- MODULE ParamStore -----------------------------
(***************************************************************************)
(* The parameters and their two flash pages: ParamManager (values, dirty,  *)
(* autosave) on FlashParamStorage (A/B pages, commit mark written last).   *)
(*                                                                         *)
(* Two tasks save and load: robot_core, which autosaves, and the NSH task, *)
(* whose commands are param set | reset | save | load.  Every flash        *)
(* operation is one step, may fail, and may be cut short by a power loss;  *)
(* ParamManager holds its mutex only at the two ends of a save or a load,  *)
(* FlashParamStorage has none.                                             *)
(*                                                                         *)
(* The table of parameters is one value.  A snapshot stores it only if it  *)
(* differs from its default, which the boot script changes by set-default. *)
(***************************************************************************)
EXTENDS Integers

CONSTANTS Value,
          Settable,   \* the values the operator sets
          Firmware,   \* the default of ParamDefinitions.cpp
          Airframe,   \* the default set by the robot's boot script
          SeqMod,     \* the sequence numbers wrap here (2^32 in the code)
          Overlap,    \* whether saves and loads of the two tasks may overlap
          Absent      \* no record in a snapshot

Nothing == "nothing"   \* no active page, nothing kept

ASSUME StoreAssumption ==
  /\ Settable \subseteq Value /\ Firmware \in Value /\ Airframe \in Value
  /\ Absent \notin Value /\ Nothing \notin Value \cup {Absent}
  /\ SeqMod \in Nat /\ SeqMod > 3 /\ Overlap \in BOOLEAN

VARIABLES
  value, default,
  dirty, sequence,  \* _dirty, _storageSequence
  scripted,         \* the boot script has run
  page,             \* the two flash pages
  active,           \* _activeSlot
  pc,               \* where each task is
  snap, target,     \* its snapshot and the page it writes
  changed,          \* _generation moved since the task took its snapshot
  kept, pending     \* what a reboot must find: the data last saved or loaded,
                    \* and the data of saves begun since

managerVars == <<value, default, dirty, sequence, scripted>>
taskVars == <<pc, snap, target, changed>>
historyVars == <<kept, pending>>
vars == <<managerVars, page, active, taskVars, historyVars>>

Task == {"core", "nsh"}
Page == {"A", "B"}

Data == Value \cup {Absent}
Sequence == 0..SeqMod - 1
Snapshot == [seq : Sequence, data : Data]
NoSnapshot == [seq |-> 0, data |-> Absent]

\* A page: blank, with a header, complete but not committed, committed, or
\* anything else (torn), which the checks of validate() refuse.
Content == [state : {"blank", "header", "full", "committed", "torn"}, of : Snapshot]
Blank == [state |-> "blank", of |-> NoSnapshot]
Torn == [state |-> "torn", of |-> NoSnapshot]

Valid(c) == c.state = "committed"

\* sequenceNewer: the signed difference is positive.
Newer(a, b) == (a - b) % SeqMod \in 1..((SeqMod - 1) \div 2)

\* load(): the page with the newer valid snapshot.
Newest_Unsigned(p) ==
  CASE Valid(p["A"]) /\ (~Valid(p["B"]) \/ p["A"].of.seq > p["B"].of.seq) -> "A"
    [] ~Valid(p["A"]) /\ ~Valid(p["B"]) -> Nothing
    [] OTHER -> "B"
Newest(p) ==
  CASE Valid(p["A"]) /\ (~Valid(p["B"]) \/ Newer(p["A"].of.seq, p["B"].of.seq)) -> "A"
    [] ~Valid(p["A"]) /\ ~Valid(p["B"]) -> Nothing
    [] OTHER -> "B"

Other_First(a) == "A"
Other(a) == IF a = "A" THEN "B" ELSE "A"

\* applySnapshot over the defaults; makeSnapshot of the values.
Applied(data, d) == IF data = Absent THEN d ELSE data
Record == IF value = default THEN Absent ELSE value

Init ==
  /\ value = Firmware /\ default = Firmware /\ dirty = FALSE /\ sequence = 0
  /\ scripted = FALSE
  /\ page = [s \in Page |-> Blank] /\ active = Nothing
  /\ pc = [t \in Task |-> "idle"] /\ snap = [t \in Task |-> NoSnapshot]
  /\ target = [t \in Task |-> "A"] /\ changed = [t \in Task |-> FALSE]
  /\ kept = Nothing /\ pending = {}

-----------------------------------------------------------------------------
(* The values                                                              *)

NewGeneration == changed' = [t \in Task |-> TRUE]

\* param set, param reset: a new value is dirty.
Set(v) ==
  /\ v # value /\ value' = v /\ dirty' = TRUE /\ NewGeneration
  /\ UNCHANGED <<default, sequence, scripted, page, active, pc, snap, target,
                 historyVars>>

ParamSet == \E v \in Settable : Set(v)

\* The boot script: set-default.  A value equal to the old default follows it.
Script ==
  /\ ~scripted /\ scripted' = TRUE
  /\ default' = Airframe
  /\ value' = (IF value = default THEN Airframe ELSE value)
  /\ (IF default = Airframe THEN UNCHANGED changed ELSE NewGeneration)
  /\ UNCHANGED <<dirty, sequence, page, active, pc, snap, target, historyVars>>

-----------------------------------------------------------------------------
(* Saving: ParamManager::save and FlashParamStorage::save                  *)

NextSequence == (sequence + 1) % SeqMod

At(t, label) == pc[t] = label
Go(t, label) == pc' = [pc EXCEPT ![t] = label]
Free(t) == At(t, "idle") /\ (Overlap \/ \A u \in Task : At(u, "idle"))

\* pollAutoSave of robot_core, param save of NSH: nothing to do if clean.
SaveBegin(t) ==
  /\ Free(t) /\ dirty /\ Go(t, "target")
  /\ snap' = [snap EXCEPT ![t] = [seq |-> NextSequence, data |-> Record]]
  /\ changed' = [changed EXCEPT ![t] = FALSE]
  /\ pending' = pending \cup {Record}
  /\ UNCHANGED <<managerVars, page, active, target, kept>>

Target(t) ==
  /\ At(t, "target") /\ Go(t, "erase")
  /\ target' = [target EXCEPT ![t] = Other(active)]
  /\ UNCHANGED <<managerVars, page, active, snap, changed, historyVars>>

\* The flash: programming can only clear bits, so that a page which is not
\* blank keeps its content if the same is written again, and is torn otherwise.
Flash(c, s, op) ==
  CASE op = "erase" -> Blank
    [] op = "header" -> IF c.state = "blank" THEN [state |-> "header", of |-> s]
                        ELSE IF c.of = s THEN c ELSE Torn
    [] op = "payload" -> IF c.state = "header" /\ c.of = s
                           THEN [state |-> "full", of |-> s]
                         ELSE IF c.state \in {"full", "committed"} /\ c.of = s
                           THEN c ELSE Torn
    [] op = "commit" -> IF c.state \in {"full", "committed"}
                          THEN [c EXCEPT !.state = "committed"] ELSE Torn

Operation == {"erase", "header", "payload", "commit"}
After == [erase |-> "header", header |-> "payload", payload |-> "commit",
          commit |-> "verify"]

\* One flash operation that succeeds.
Program(t) ==
  /\ pc[t] \in Operation /\ Go(t, After[pc[t]])
  /\ page' = [page EXCEPT ![target[t]] = Flash(@, snap[t], pc[t])]
  /\ UNCHANGED <<managerVars, active, snap, target, changed, historyVars>>

\* What an operation that failed or was cut short leaves.
Partial(t) == {page[target[t]], Torn, Flash(page[target[t]], snap[t], pc[t])}

\* An operation that fails: save returns false, and ParamManager stays dirty.
Fail(t) ==
  /\ pc[t] \in Operation /\ Go(t, "idle")
  /\ \E c \in Partial(t) : page' = [page EXCEPT ![target[t]] = c]
  /\ UNCHANGED <<managerVars, active, snap, target, changed, historyVars>>

\* The page is read back; the sequence must be the one written.
Verify(t) ==
  /\ At(t, "verify")
  /\ Go(t, IF Valid(page[target[t]]) /\ page[target[t]].of.seq = snap[t].seq
             THEN "activate" ELSE "idle")
  /\ UNCHANGED <<managerVars, page, active, snap, target, changed, historyVars>>

Activate(t) ==
  /\ At(t, "activate") /\ Go(t, "finish")
  /\ active' = target[t]
  /\ UNCHANGED <<managerVars, page, snap, target, changed, historyVars>>

\* Back in ParamManager::save: clean, unless changed since the snapshot.
Finish_AlwaysClean(t) ==
  /\ At(t, "finish") /\ Go(t, "idle")
  /\ sequence' = snap[t].seq
  /\ dirty' = FALSE
  /\ kept' = snap[t].data /\ pending' = {}
  /\ UNCHANGED <<value, default, scripted, page, active, snap, target, changed>>
Finish_NeverClean(t) ==
  /\ At(t, "finish") /\ Go(t, "idle")
  /\ sequence' = snap[t].seq
  /\ kept' = snap[t].data /\ pending' = {}
  /\ UNCHANGED <<value, default, dirty, scripted, page, active, snap, target, changed>>
Finish(t) ==
  /\ At(t, "finish") /\ Go(t, "idle")
  /\ sequence' = snap[t].seq
  /\ dirty' = (dirty /\ changed[t])
  /\ kept' = snap[t].data /\ pending' = {}
  /\ UNCHANGED <<value, default, scripted, page, active, snap, target, changed>>

GoOn(t) == Target(t) \/ Program(t) \/ Verify(t) \/ Activate(t) \/ Finish(t)

Save(t) == SaveBegin(t) \/ GoOn(t)

-----------------------------------------------------------------------------
(* Loading                                                                 *)

\* FlashParamStorage::load chooses the page, also for the saves to come.
LoadBegin(t) ==
  /\ Free(t)
  /\ active' = Newest(page)
  /\ IF active' = Nothing
       THEN UNCHANGED <<pc, snap>>
       ELSE Go(t, "apply") /\ snap' = [snap EXCEPT ![t] = page[active'].of]
  /\ UNCHANGED <<managerVars, page, target, changed, historyVars>>

\* ParamManager::load: the defaults and the snapshot over them.
LoadEnd(t) ==
  /\ At(t, "apply") /\ Go(t, "idle")
  /\ value' = Applied(snap[t].data, default)
  /\ sequence' = snap[t].seq /\ dirty' = FALSE /\ NewGeneration
  /\ kept' = snap[t].data /\ pending' = {}
  /\ UNCHANGED <<default, scripted, page, active, snap, target>>

\* Power loss, also in the middle of flash operations, and the next boot:
\* ParamManager::initialize, before the script.
Reboot(p) ==
  /\ page' = p /\ active' = Newest(p)
  /\ default' = Firmware /\ scripted' = FALSE /\ dirty' = FALSE
  /\ IF active' = Nothing
       THEN value' = Firmware /\ sequence' = 0
       ELSE /\ value' = Applied(p[active'].of.data, Firmware)
            /\ sequence' = p[active'].of.seq
            /\ kept' = p[active'].of.data
  /\ (active' = Nothing => kept' = Nothing) /\ pending' = {}
  /\ pc' = [t \in Task |-> "idle"] /\ snap' = [t \in Task |-> NoSnapshot]
  /\ target' = [t \in Task |-> "A"] /\ changed' = [t \in Task |-> FALSE]

Cut(T) == {p \in [Page -> {page[s] : s \in Page} \cup UNION {Partial(t) : t \in T}] :
             \A s \in Page : \/ p[s] = page[s]
                             \/ \E t \in T : target[t] = s /\ p[s] \in Partial(t)}

Crash == \E p \in Cut({t \in Task : pc[t] \in Operation}) : Reboot(p)

-----------------------------------------------------------------------------

Next == \/ ParamSet \/ Script \/ Crash
        \/ \E t \in Task : Save(t) \/ Fail(t)
        \/ LoadBegin("nsh") \/ LoadEnd("nsh")

\* robot_core polls for changes every 100 ms, and a command of NSH goes on.
Spec == /\ Init /\ [][Next]_vars
        /\ WF_vars(Save("core")) /\ WF_vars(GoOn("nsh") \/ LoadEnd("nsh"))

\* Both tasks, with flash that works.
SoundFlashNext == \/ ParamSet \/ Script \/ \E t \in Task : Save(t)
SoundFlashSpec == Init /\ [][SoundFlashNext]_vars

-----------------------------------------------------------------------------
(* Properties                                                              *)

\* Every variable stays in its type.
TypeOK ==
  /\ value \in Value /\ default \in {Firmware, Airframe} /\ dirty \in BOOLEAN
  /\ sequence \in Sequence /\ scripted \in BOOLEAN
  /\ page \in [Page -> Content] /\ active \in Page \cup {Nothing}
  /\ pc \in [Task -> Operation \cup {"idle", "target", "verify", "activate",
                                     "finish", "apply"}]
  /\ snap \in [Task -> Snapshot] /\ target \in [Task -> Page]
  /\ changed \in [Task -> BOOLEAN]
  /\ kept \in Data \cup {Nothing} /\ pending \subseteq Data

\* Whenever power is lost, in the middle of an erase or of a write too, the
\* next boot finds what was last saved, or a save begun since.
Durable ==
  kept # Nothing =>
    Newest(page) # Nothing /\ page[Newest(page)].of.data \in {kept} \cup pending

\* Clean parameters are the ones the next boot will restore, although values
\* may change while a save is under way.
AfterBoot == LET data == IF Newest(page) = Nothing THEN Absent
                         ELSE page[Newest(page)].of.data
                 loaded == Applied(data, Firmware)
             IN  IF loaded = Firmware THEN Airframe ELSE loaded
CleanMeansStored == scripted /\ ~dirty => value = AfterBoot

\* What was set is saved, once the operator stops setting and flash works; the
\* saves need no command.
Quiet == ~ParamSet /\ \A t \in Task : ~Fail(t) /\ ~SaveBegin("nsh")
AutoSaves == <>[][Quiet]_vars => <>[]~dirty

\* An incomplete new page leaves the other one to load
\* (docs/step5-parameters.md:13).
OtherPageLoads == kept # Nothing => Newest(page) # Nothing

\* A value the operator saved has priority over the boot script's default
\* (docs/parameters.md:242).
SavedWins ==
  [][Script /\ kept \notin {Nothing, Absent} /\ ~dirty /\ value = kept
       => value' = value]_vars

\* A power loss, in the middle of an erase or of a write too, takes back none of
\* what was kept, but for a save under way.
CrashKeeps == [][Crash /\ kept # Nothing => kept' \in {kept} \cup pending]_vars

-----------------------------------------------------------------------------
(* The inductive invariants behind Durable and CleanMeansStored, for saves *)
(* and loads that do not overlap (ParamStore_proof)                        *)

Alone == \A t, u \in Task : pc[t] # "idle" /\ pc[u] # "idle" => t = u

\* A page with the data kept; with that of a save begun since; with neither,
\* and then nothing newer.
Current(c) == Valid(c) /\ c.of = [seq |-> sequence, data |-> kept]
Begun(c) == Valid(c) /\ c.of.seq = NextSequence /\ c.of.data \in pending
Outdated(c) == Valid(c) => sequence = (c.of.seq + 1) % SeqMod

\* What was kept is on one page of p, and the other one does not hide it.
Pages(p) ==
  \/ kept = Nothing /\ ~Valid(p["B"]) /\ (Valid(p["A"]) => Begun(p["A"]))
  \/ kept # Nothing /\ \E s \in Page :
       Current(p[s]) /\ (Begun(p[Other(s)]) \/ Outdated(p[Other(s)]))

\* _activeSlot is that page, but between the two halves of a save or a load.
ActivePage ==
  (\A t \in Task : pc[t] \notin {"finish", "apply"}) =>
    IF kept = Nothing THEN active = Nothing
                      ELSE active \in Page /\ Current(page[active])

\* How far a save is: its snapshot comes next, and its page is the other one.
Saving(t) == pc[t] \notin {"idle", "apply"}
SaveLife ==
  \A t \in Task : Saving(t) =>
    /\ dirty /\ snap[t].seq = NextSequence /\ snap[t].data \in pending
    /\ pc[t] \notin {"target", "finish"} => target[t] = Other(active)
    /\ pc[t] = "header" => page[target[t]] = Blank
    /\ pc[t] = "payload" => page[target[t]] = [state |-> "header", of |-> snap[t]]
    /\ pc[t] = "commit" => page[target[t]] = [state |-> "full", of |-> snap[t]]
    /\ pc[t] \in {"verify", "activate", "finish"} =>
         page[target[t]] = [state |-> "committed", of |-> snap[t]]
    /\ pc[t] = "finish" =>
         /\ active = target[t]
         /\ IF kept = Nothing THEN target[t] = "A"
                              ELSE Current(page[Other(target[t])])

\* A load under way has read the newest page.
LoadLife ==
  \A t \in Task : pc[t] = "apply" =>
    active \in Page /\ active = Newest(page) /\ snap[t] = page[active].of

StoreInv == TypeOK /\ Alone /\ Pages(page) /\ ActivePage /\ SaveLife /\ LoadLife

\* Nothing is pending while the parameters are clean.
CleanIdle == ~dirty => pending = {}

\* The firmware default is no data, and no value once there is another default.
Defaults ==
  /\ default = (IF scripted THEN Airframe ELSE Firmware)
  /\ value = Firmware => default = Firmware
  /\ kept # Firmware
  /\ \A s \in Page : page[s].of.data # Firmware
  /\ \A t \in Task : snap[t].data # Firmware

\* Clean values are those kept; unchanged ones are those of the snapshot.
KeptData == IF kept = Nothing THEN Absent ELSE kept
CleanValue == ~dirty => value = Applied(KeptData, default)
SnapValue ==
  \A t \in Task : Saving(t) /\ ~changed[t] => value = Applied(snap[t].data, default)

CleanInv == CleanIdle /\ Defaults /\ CleanValue /\ SnapValue
=============================================================================
