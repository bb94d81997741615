---------------------------- MODULE UpdatedProofs ----------------------------
(***************************************************************************)
(* The updater and the launch script, for every set of versions and        *)
(* operating systems and every number of kills, reboots, power losses,     *)
(* failures, edits and releases.                                           *)
(*                                                                         *)
(* BootsWhole and ReadyMeansReady speak of every disk that a power loss    *)
(* may leave.  What makes them inductive is that they hold of each state   *)
(* of the disk since the last sync with nothing left in the page cache     *)
(* (DiskOK), that the flag is off wherever the staging area is worked on   *)
(* (Unmarked), and what updated has prepared before it sets the flag       *)
(* (Prepared).                                                             *)
(***************************************************************************)
EXTENDS Updated, TLAPS

(* A tree that a power loss cannot harm.                                   *)
OnDisk(t) == t # None /\ t.state = "whole"

(* Of one state of the disk: BASEDIR is there, or both versions beside it; *)
(* and a version marked as consistent can be installed.                    *)
Bootable(d) == IF d.base = None THEN OnDisk(d.finalized) /\ OnDisk(d.old_openpilot)
                                ELSE OnDisk(d.base)

OsReady(v, s) == \/ AGNOS_VERSION[v] = os
                 \/ s.hash = AGNOS_VERSION[v] /\ s.image \in {AGNOS_VERSION[v], "torn"}

Marked(d) == d.overlay_consistent /\ d.overlay_init = "current"

ReadyWith(d, s) == Marked(d) => /\ OnDisk(d.finalized)
                                /\ OsReady(d.finalized.ver, s)
                                /\ d.old_openpilot = None
                                /\ ~d.edited

Ready(d) == \A s \in slots : ReadyWith(d, s)

DiskOK == \A d \in behind : Bootable(d) /\ Ready(d)

(* The steps that work on the staging area, or are about to.               *)
Working  == {"started", "cleared", "dismount", "rm", "mount", "fetch", "git", "checkout",
             "handle_agnos", "flash", "extract", "extracted", "finalize", "finalize2", "rmtree", "copy", "copying",
             "ready"}
Unmarked == up.pc \in Working => ~fs.overlay_consistent

(* A mounted overlay has no backup beside it, and was not edited below as  *)
(* long as its canary is current.                                          *)
OverlayOK == /\ merged # None \/ up.pc = "mount" => fs.old_openpilot = None
             /\ fs.overlay_init = "current" => merged.state # "edited"
             /\ merged # None /\ fs.overlay_init = "current" => ~fs.edited
             /\ up.pc \in {"rm", "mount"} => merged = None

(* What finalize_update copies, the OS it needs, and the copy.             *)
Finalizing == {"finalize", "finalize2", "rmtree", "copy", "copying", "ready"}
Prepared ==
    /\ up.pc \in Finalizing \cup {"handle_agnos", "flash", "extract", "extracted"}
           => merged.state \in {"whole", "edited"}
    /\ up.pc \in Finalizing => OsReady(merged.ver, slot)
    /\ up.pc = "ready" => /\ fs.finalized.ver = merged.ver
                          /\ fs.overlay_init = "current" => Whole(fs.finalized)

(* What the hash of the slot vouches for is there or was torn; the hash is *)
(* gone while the slot is written, and no version is marked then.          *)
InFlash  == up.pc \in {"flash", "extract", "extracted"}
            \/ boot \in {"flash", "extract", "extracted", "cleared"}
Flashing ==
    /\ slot.hash \in {"none", slot.image} \/ slot.image = "torn"
    /\ InFlash => slot.hash = "none" /\ \A d \in behind : ~Marked(d)
    /\ up.pc = "extracted" => slot.image = AGNOS_VERSION[merged.ver]
    /\ boot = "extracted" => slot.image = AGNOS_VERSION[fs.base.ver]

(* The launch script: what is swapped was marked, nothing else is.         *)
Launching ==
    /\ boot # "up" => up = Off /\ merged = None
    /\ boot \in {"agnos", "flash", "extract", "extracted", "cleared", "up"} => fs.base # None
    /\ boot = "agnos" => ~Marked(fs)
    /\ boot = "swap" => fs.base = None /\ fs.overlay_init = "none"
    /\ boot # "halt" => os \in OSes

UInv == TypeOK /\ DiskOK /\ Unmarked /\ OverlayOK /\ Prepared /\ Flashing /\ Launching
----------------------------------------------------------------------------
(* Trees, and what a sync or a power loss makes of them.                   *)
LEMMA TreeCases ==
    ASSUME NEW t \in Tree
    PROVE  \/ t = None /\ t.ver = "none" /\ t.state = "whole"
           \/ /\ t \in [ver : Versions, state : {"whole", "cached", "broken"}]
              /\ t # None /\ t.ver # "none"
BY VersionsAssumption DEF Tree, None

(* An absent tree is a tree, with nothing to lose.                         *)
LEMMA NoneIsTree == None \in Tree /\ None.state = "whole" BY DEF Tree, None

(* A version in any state is a tree that is there.                         *)
LEMMA SomeTree ==
    ASSUME NEW v \in Versions, NEW s
    PROVE  /\ [ver |-> v, state |-> s] # None
           /\ s \in {"whole", "cached", "broken"} => [ver |-> v, state |-> s] \in Tree
BY VersionsAssumption DEF Tree, None

(* What a power loss breaks is still a tree.                               *)
LEMMA BreakTree == ASSUME NEW t \in Tree PROVE Break(t) \in Tree
BY TreeCases DEF Break, Tree

(* A sync leaves a tree as it is or brings its cached part to disk.        *)
LEMMA SettleTree ==
    ASSUME NEW t \in Tree
    PROVE  /\ Settle(t) \in Tree /\ Settle(t).ver = t.ver
           /\ Settle(t).state # "cached"
           /\ t.state # "cached" => Settle(t) = t
           /\ t = None <=> Settle(t) = None
           /\ Whole(t) => Settle(t).state = "whole"
           /\ Whole(Settle(t)) => Whole(t)
<1>1. CASE t = None BY <1>1, NoneIsTree DEF Settle, Whole, None
<1>2. CASE t # None
  <2>1. t \in [ver : Versions, state : {"whole", "cached", "broken"}] /\ t.ver # "none"
      BY <1>2, TreeCases
  <2> QED BY <2>1, <1>2 DEF Settle, Whole, Tree, None
<1> QED BY <1>1, <1>2

(* A synced disk is as bootable and as ready as it was before.             *)
LEMMA SyncedDisk ==
    ASSUME NEW d \in Disk
    PROVE  /\ Synced(d) \in Disk
           /\ Synced(d).base = d.base /\ Synced(d).old_openpilot = d.old_openpilot
           /\ Synced(d).overlay_consistent = d.overlay_consistent
           /\ Synced(d).overlay_init = d.overlay_init
           /\ Synced(d).edited = d.edited
           /\ Synced(d).finalized = Settle(d.finalized)
<1>1. Settle(d.finalized) \in Tree BY SettleTree DEF Disk
<1> QED BY <1>1 DEF Synced, Disk

(* A sync harms nothing.                                                   *)
LEMMA SyncedOK ==
    ASSUME NEW d \in Disk
    PROVE  /\ Bootable(d) => Bootable(Synced(d))
           /\ \A s : ReadyWith(d, s) => ReadyWith(Synced(d), s)
           /\ Marked(Synced(d)) <=> Marked(d)
<1>1. d.finalized \in Tree /\ d.base \in Tree BY DEF Disk
<1>2. Bootable(d) => Bootable(Synced(d)) BY <1>1, SyncedDisk, SettleTree DEF Bootable, OnDisk
<1>3. ASSUME NEW s, ReadyWith(d, s) PROVE ReadyWith(Synced(d), s)
    BY <1>1, <1>3, SyncedDisk, SettleTree DEF ReadyWith, Marked, OnDisk, OsReady
<1>4. Marked(Synced(d)) <=> Marked(d) BY SyncedDisk DEF Marked
<1> QED BY <1>2, <1>3, <1>4

(* Nor does a power loss, of what is on disk.                              *)
LEMMA AfterOK ==
    ASSUME NEW d \in Disk, Bootable(d), Ready(d), NEW e \in After(d)
    PROVE  e \in Disk /\ Bootable(e) /\ Ready(e) /\ (Marked(e) <=> Marked(d))
<1>0. d.finalized \in Tree BY DEF Disk
<1>1. PICK f \in Outcome(d.finalized) : e = With(d, f) BY DEF After
<1>2. f \in Tree /\ (d.finalized.state # "cached" => f = d.finalized)
    BY <1>0, <1>1, SettleTree, BreakTree DEF Outcome
<1>4. /\ e \in Disk /\ e.base = d.base /\ e.old_openpilot = d.old_openpilot
      /\ e.overlay_consistent = d.overlay_consistent /\ e.overlay_init = d.overlay_init
      /\ e.edited = d.edited /\ e.finalized = f
    BY <1>1, <1>2 DEF Disk, With
<1>5. Bootable(e) BY <1>2, <1>4 DEF Bootable, OnDisk
<1>6. ASSUME NEW s \in slots PROVE ReadyWith(e, s)
  <2>1. ReadyWith(d, s) BY DEF Ready
  <2> QED BY <2>1, <1>2, <1>4 DEF ReadyWith, Marked, OnDisk
<1> QED BY <1>4, <1>5, <1>6 DEF Ready, Marked
----------------------------------------------------------------------------
(* The three ways in which the disk changes.                               *)
DiskTyped == /\ fs \in Disk /\ behind \subseteq Disk /\ fs \in behind
             /\ slot \in Slot /\ slots \subseteq Slot /\ slot \in slots

(* The disk as it is now is one of those since the last sync, and so is    *)
(* the slot.                                                               *)
LEMMA FsOK ==
    ASSUME UInv
    PROVE  fs \in Disk /\ Bootable(fs) /\ Ready(fs) /\ ReadyWith(fs, slot)
BY DEF UInv, TypeOK, DiskOK, Ready

(* A write whose outcome is in order keeps every disk in order.            *)
LEMMA WriteOK ==
    ASSUME UInv, NEW d \in Disk, Write(d), Bootable(d), Ready(d), os' = os
    PROVE  DiskTyped' /\ DiskOK' /\ fs' = d /\ slot' = slot /\ behind' = behind \cup {d}
<1>0. fs' = d /\ behind' = behind \cup {d} /\ slot' = slot /\ slots' = slots BY DEF Write, spare
<1>1. DiskTyped' BY <1>0 DEF UInv, TypeOK, DiskTyped
<1>2. DiskOK' BY <1>0 DEF UInv, DiskOK, Ready, ReadyWith, OsReady
<1> QED BY <1>0, <1>1, <1>2

(* A disk that is alone, with the slots that may go with it.               *)
LEMMA AloneOK ==
    ASSUME NEW d \in Disk, Bootable(d), fs' = d, behind' = {d},
           slot' \in Slot, slots' \subseteq Slot, slot' \in slots',
           \/ ~Marked(d)
           \/ \A s \in slots' : ReadyWith(d, s) /\ os' = os
    PROVE  DiskTyped' /\ DiskOK'
<1>1. DiskTyped' BY DEF DiskTyped
<1>2. DiskOK' BY DEF DiskOK, Ready, ReadyWith, OsReady
<1> QED BY <1>1, <1>2

(* After a sync only that disk is left.                                    *)
LEMMA SyncOK ==
    ASSUME UInv, Sync, os' = os
    PROVE  DiskTyped' /\ DiskOK' /\ fs' = Synced(fs) /\ behind' = {fs'} /\ slot' = slot
<1>1. Synced(fs) \in Disk /\ Bootable(Synced(fs)) /\ ReadyWith(Synced(fs), slot)
    BY FsOK, SyncedDisk, SyncedOK
<1>2. /\ fs' = Synced(fs) /\ behind' = {Synced(fs)} /\ slot' = slot /\ slots' = {slot}
      /\ slot \in Slot
    BY DEF Sync, SyncFs, UInv, TypeOK
<1> QED BY <1>1, <1>2, AloneOK

(* Setting or clearing the flag, with the sync that follows.               *)
LEMMA MarkOK ==
    ASSUME UInv, NEW flag \in BOOLEAN, Mark(flag), os' = os,
           flag => ReadyWith([Synced(fs) EXCEPT !.overlay_consistent = flag], slot)
    PROVE  /\ DiskTyped' /\ DiskOK'
           /\ fs'.base = fs.base /\ fs'.old_openpilot = fs.old_openpilot
           /\ fs'.overlay_consistent = flag /\ fs'.overlay_init = fs.overlay_init
           /\ fs'.edited = fs.edited
           /\ fs'.finalized = Settle(fs.finalized) /\ slot' = slot
<1> DEFINE s == Synced(fs)
           d == [s EXCEPT !.overlay_consistent = flag]
<1>1. s \in Disk /\ Bootable(s) /\ ReadyWith(s, slot) BY FsOK, SyncedDisk, SyncedOK
<1>2. /\ fs' = d /\ behind' = {s, d} /\ slot' = slot /\ slots' = {slot} /\ slot \in Slot
    BY DEF Mark, UInv, TypeOK
<1>3. /\ d \in Disk /\ d.base = s.base /\ d.old_openpilot = s.old_openpilot
      /\ d.overlay_consistent = flag /\ d.overlay_init = s.overlay_init
      /\ d.finalized = s.finalized /\ d.edited = s.edited
    <2> HIDE DEF s
    <2> QED BY <1>1 DEF Disk
<1>4. Bootable(d) /\ ReadyWith(d, slot) BY <1>1, <1>3 DEF Bootable, ReadyWith, Marked
<1> HIDE DEF d
<1>5. DiskTyped' BY <1>1, <1>2, <1>3 DEF DiskTyped
<1>6. DiskOK' BY <1>1, <1>2, <1>4 DEF DiskOK, Ready, ReadyWith, OsReady
<1>7. fs \in Disk BY FsOK
<1> QED BY <1>2, <1>3, <1>5, <1>6, <1>7, SyncedDisk
----------------------------------------------------------------------------
(* The variables beside the disk.                                          *)
RestTyped ==
    /\ os \in OSes \cup {"broken", "torn"}
    /\ boot \in {"launch", "swap", "agnos", "flash", "extract", "extracted", "cleared", "up", "halt"}
    /\ up \in [pc : InOverlay \cup {"off", "started", "loop", "cleared", "dismount", "rm", "mount",
                                   "report", "sleep"},
               first_run : BOOLEAN, branches : Released \cup {"none"}]
    /\ merged \in {None} \cup [ver : Versions, state : {"whole", "broken", "locked", "edited"}]
    /\ up.pc \in InOverlay => merged # None
    /\ offer \in BOOLEAN
    /\ remote \in Released
    /\ left \in [Counters -> Nat]

Control == Unmarked /\ OverlayOK /\ Prepared /\ Flashing /\ Launching

(* The invariant by what it is about: disks, other variables, control.     *)
LEMMA Parts == ASSUME UInv PROVE DiskTyped /\ RestTyped /\ DiskOK /\ Control
BY DEF UInv, TypeOK, DiskTyped, RestTyped, Control

(* The parts make up the invariant of the next state.                      *)
LEMMA PartsNext == ASSUME DiskTyped', RestTyped', DiskOK', Control' PROVE UInv'
BY DEF UInv, TypeOK, DiskTyped, RestTyped, Control

(* Spending leaves a natural number.                                       *)
LEMMA SpendTyped ==
    ASSUME left \in [Counters -> Nat], NEW c \in Counters, Spend(c)
    PROVE  left' \in [Counters -> Nat]
BY DEF Spend

(* The counters of a budget.                                               *)
LEMMA CountersAre == \A c \in {"kills", "losses", "fails", "edits", "pushes", "skips"} : c \in Counters
BY DEF Counters

(* Steps of updated that leave the disk alone.                             *)
Quiet == KeepOverlay \/ SetParams \/ NoValidTime \/ CheckForUpdate \/ SkipFetch
         \/ GitFetch \/ GitReset \/ Report \/ WakeUp

(* Steps that write nothing to disk.                                       *)
LEMMA QuietKeepsInv == ASSUME UInv, Quiet PROVE UInv'
<1>0. DiskTyped /\ RestTyped /\ DiskOK /\ Control BY Parts
<1>1. UNCHANGED <<fs, behind, slot, slots, os, boot>> /\ boot = "up"
    BY DEF Quiet, disk, spare, KeepOverlay, SetParams, NoValidTime, CheckForUpdate, SkipFetch, GitFetch,
           GitReset, Report, WakeUp
<1>2. DiskTyped' /\ DiskOK' BY <1>0, <1>1 DEF DiskTyped, DiskOK, Ready, ReadyWith, OsReady
<1>3. left' \in [Counters -> Nat] /\ offer' \in BOOLEAN
    BY <1>0, SpendTyped, CountersAre
    DEF RestTyped, Quiet, KeepOverlay, SetParams, NoValidTime, CheckForUpdate, SkipFetch, GitFetch,
        GitReset, Report, WakeUp, UpdateReady, DiskTyped, Disk
<1>4. CASE KeepOverlay
  <2>1. RestTyped' BY <1>0, <1>1, <1>3, <1>4
                   DEF RestTyped, InOverlay, KeepOverlay, Go, OverlayValid
  <2>2. Control' BY <1>0, <1>1, <1>4
                 DEF Control, Unmarked, OverlayOK, Prepared, Flashing, InFlash, Launching, Working, Finalizing,
                     RestTyped, Marked, KeepOverlay, Go, OverlayValid
  <2> QED BY <1>2, <2>1, <2>2, PartsNext
<1>5. CASE SetParams
  <2>1. RestTyped' BY <1>0, <1>1, <1>3, <1>5
                   DEF RestTyped, InOverlay, SetParams
  <2>2. Control' BY <1>0, <1>1, <1>5
                 DEF Control, Unmarked, OverlayOK, Prepared, Flashing, InFlash, Launching, Working, Finalizing,
                     RestTyped, Marked, SetParams
  <2> QED BY <1>2, <2>1, <2>2, PartsNext
<1>6. CASE NoValidTime
  <2>1. RestTyped' BY <1>0, <1>1, <1>3, <1>6
                   DEF RestTyped, InOverlay, NoValidTime, Go
  <2>2. Control' BY <1>0, <1>1, <1>6
                 DEF Control, Unmarked, OverlayOK, Prepared, Flashing, InFlash, Launching, Working, Finalizing,
                     RestTyped, Marked, NoValidTime, Go
  <2> QED BY <1>2, <2>1, <2>2, PartsNext
<1>7. CASE CheckForUpdate
  <2>1. RestTyped' BY <1>0, <1>1, <1>3, <1>7
                   DEF RestTyped, InOverlay, CheckForUpdate
  <2>2. Control' BY <1>0, <1>1, <1>7
                 DEF Control, Unmarked, OverlayOK, Prepared, Flashing, InFlash, Launching, Working, Finalizing,
                     RestTyped, Marked, CheckForUpdate
  <2> QED BY <1>2, <2>1, <2>2, PartsNext
<1>8. CASE SkipFetch
  <2>1. RestTyped' BY <1>0, <1>1, <1>3, <1>8
                   DEF RestTyped, InOverlay, SkipFetch, Go
  <2>2. Control' BY <1>0, <1>1, <1>8
                 DEF Control, Unmarked, OverlayOK, Prepared, Flashing, InFlash, Launching, Working, Finalizing,
                     RestTyped, Marked, SkipFetch, Go
  <2> QED BY <1>2, <2>1, <2>2, PartsNext
<1>9. CASE GitFetch
  <2>1. RestTyped' BY <1>0, <1>1, <1>3, <1>9, SomeTree
                   DEF RestTyped, InOverlay, GitFetch, Go, Versions
  <2>2. Control' BY <1>0, <1>1, <1>9, SomeTree
                 DEF Control, Unmarked, OverlayOK, Prepared, Flashing, InFlash, Launching, Working, Finalizing,
                     RestTyped, Marked, GitFetch, Go, Versions
  <2> QED BY <1>2, <2>1, <2>2, PartsNext
<1>10. CASE GitReset
  <2>1. RestTyped' BY <1>0, <1>1, <1>3, <1>10, VersionsAssumption
                   DEF RestTyped, InOverlay, GitReset, Go, None, Versions
  <2>2. Control' BY <1>0, <1>1, <1>10, VersionsAssumption
                 DEF Control, Unmarked, OverlayOK, Prepared, Flashing, InFlash, Launching, Working, Finalizing,
                     RestTyped, Marked, GitReset, Go, None, Versions
  <2> QED BY <1>2, <2>1, <2>2, PartsNext
<1>11. CASE Report
  <2>1. RestTyped' BY <1>0, <1>1, <1>3, <1>11
                   DEF RestTyped, InOverlay, Report, Go
  <2>2. Control' BY <1>0, <1>1, <1>11
                 DEF Control, Unmarked, OverlayOK, Prepared, Flashing, InFlash, Launching, Working, Finalizing,
                     RestTyped, Marked, Report, Go
  <2> QED BY <1>2, <2>1, <2>2, PartsNext
<1>12. CASE WakeUp
  <2>1. RestTyped' BY <1>0, <1>1, <1>3, <1>12
                   DEF RestTyped, InOverlay, WakeUp, Go
  <2>2. Control' BY <1>0, <1>1, <1>12
                 DEF Control, Unmarked, OverlayOK, Prepared, Flashing, InFlash, Launching, Working, Finalizing,
                     RestTyped, Marked, WakeUp, Go
  <2> QED BY <1>2, <2>1, <2>2, PartsNext
<1> QED BY <1>4, <1>5, <1>6, <1>7, <1>8, <1>9, <1>10, <1>11, <1>12 DEF Quiet

(* Steps that set or clear the flag.                                       *)
LEMMA UnmarkKeepsInv ==
    ASSUME UInv, MainStart \/ ClearOffer \/ FetchStart \/ FinalizeStart
    PROVE  UInv'
<1>0. DiskTyped /\ RestTyped /\ DiskOK /\ Control BY Parts
<1>1. /\ Mark(FALSE) /\ UNCHANGED <<os, boot, merged, remote, left>> /\ boot = "up"
      /\ up \in [pc : {"off", "loop", "decide", "finalize"}, first_run : BOOLEAN,
                 branches : Released \cup {"none"}]
      /\ \/ up.pc = "off" /\ up' = [up EXCEPT !.pc = "started"]
         \/ up.pc = "loop" /\ up' = [up EXCEPT !.pc = "cleared"]
         \/ up.pc = "decide" /\ up' = [up EXCEPT !.pc = "fetch"]
         \/ up.pc = "finalize" /\ up' = [up EXCEPT !.pc = "finalize2"]
      /\ offer' \in BOOLEAN
    BY <1>0 DEF MainStart, ClearOffer, FetchStart, FinalizeStart, SetConsistentFlag, Go, RestTyped
<1>2. /\ DiskTyped' /\ DiskOK'
      /\ fs'.base = fs.base /\ fs'.old_openpilot = fs.old_openpilot
      /\ fs'.overlay_consistent = FALSE /\ fs'.overlay_init = fs.overlay_init
      /\ fs'.edited = fs.edited /\ slot' = slot
    BY <1>1, MarkOK
<1>4. RestTyped' BY <1>0, <1>1 DEF RestTyped, InOverlay
<1>5. Control'
    BY <1>0, <1>1, <1>2
    DEF Control, Unmarked, OverlayOK, Prepared, Flashing, InFlash, Launching, Working, Finalizing,
        RestTyped, Marked, OsReady, Whole
<1> QED BY <1>2, <1>4, <1>5, PartsNext

(* The flag is set on a version that was prepared for it.                  *)
LEMMA FinalizeMarkKeepsInv == ASSUME UInv, FinalizeMark PROVE UInv'
<1>0. DiskTyped /\ RestTyped /\ DiskOK /\ Control /\ fs \in Disk
      /\ fs.finalized \in Tree
    BY Parts DEF DiskTyped, Disk
<1>1. /\ Mark(TRUE) /\ UNCHANGED <<os, boot, merged, offer, remote, left>> /\ boot = "up"
      /\ up.pc = "ready" /\ up' = [up EXCEPT !.pc = "ready2"]
    BY DEF FinalizeMark, SetConsistentFlag, Go
<1> DEFINE s == Synced(fs)
           d == [s EXCEPT !.overlay_consistent = TRUE]
<1>2. /\ s \in Disk /\ s.overlay_init = fs.overlay_init /\ s.old_openpilot = fs.old_openpilot
      /\ s.finalized = Settle(fs.finalized) /\ s.edited = fs.edited
    BY <1>0, SyncedDisk
<1>3. /\ d.overlay_init = s.overlay_init /\ d.old_openpilot = s.old_openpilot
      /\ d.finalized = s.finalized /\ d.edited = s.edited
    <2> HIDE DEF s
    <2> QED BY <1>2 DEF Disk
<1>4. merged # None /\ merged.ver \in Versions /\ merged.ver # "none"
    BY <1>0, <1>1, VersionsAssumption DEF RestTyped, InOverlay
<1>5. ReadyWith(d, slot)
  <2> SUFFICES ASSUME fs.overlay_init = "current"
               PROVE  /\ OnDisk(s.finalized)
                      /\ OsReady(s.finalized.ver, slot)
                      /\ s.old_openpilot = None
                      /\ ~s.edited
      BY <1>2, <1>3 DEF ReadyWith, Marked
  <2>1. /\ Whole(fs.finalized) /\ fs.finalized.ver = merged.ver
        /\ OsReady(merged.ver, slot) /\ fs.old_openpilot = None /\ ~fs.edited
      BY <1>0, <1>1, <1>4 DEF Control, Prepared, OverlayOK, Finalizing
  <2>2. OnDisk(s.finalized) /\ s.finalized.ver = merged.ver
      BY <1>0, <1>2, <1>4, <2>1, SettleTree DEF OnDisk, None
  <2> QED BY <1>2, <2>1, <2>2
<1>6. /\ DiskTyped' /\ DiskOK'
      /\ fs'.base = fs.base /\ fs'.old_openpilot = fs.old_openpilot
      /\ fs'.overlay_init = fs.overlay_init /\ fs'.edited = fs.edited /\ slot' = slot
    BY <1>1, <1>5, MarkOK
<1>7. RestTyped' BY <1>0, <1>1 DEF RestTyped, InOverlay
<1>8. Control'
    BY <1>0, <1>1, <1>6 DEF Control, Unmarked, OverlayOK, Prepared, Flashing, InFlash, Launching, Working, Finalizing,
                            RestTyped
<1> QED BY <1>6, <1>7, <1>8, PartsNext

(* Steps that sync.                                                        *)
LEMMA SyncFields ==
    ASSUME UInv, Sync, os' = os
    PROVE  /\ DiskTyped' /\ DiskOK'
           /\ fs'.base = fs.base /\ fs'.old_openpilot = fs.old_openpilot
           /\ fs'.overlay_consistent = fs.overlay_consistent
           /\ fs'.overlay_init = fs.overlay_init
           /\ fs'.edited = fs.edited /\ slot' = slot /\ behind' = {fs'}
           /\ Marked(fs') <=> Marked(fs)
           /\ fs'.finalized.ver = fs.finalized.ver
           /\ Whole(fs.finalized) => Whole(fs'.finalized)
<1>1. fs \in Disk /\ fs.finalized \in Tree BY FsOK DEF Disk
<1>2. Whole(fs.finalized) => Whole(Settle(fs.finalized)) BY <1>1, SettleTree DEF Whole
<1> QED BY <1>1, <1>2, SyncOK, SyncedOK, SyncedDisk, SettleTree

(* os.sync, from each of the steps that wait for it.                       *)
LEMMA SyncKeepsInv ==
    ASSUME UInv,
           MainStartSync \/ ClearOfferSync \/ FetchSync \/ FinalizeSync \/ FinalizeMarked
    PROVE  UInv'
<1>0. DiskTyped /\ RestTyped /\ DiskOK /\ Control BY Parts
<1>1. /\ Sync /\ UNCHANGED <<os, boot, merged, remote, left>> /\ boot = "up"
      /\ \/ up.pc = "started" /\ up' = [up EXCEPT !.pc = "loop"]
         \/ up.pc = "cleared" /\ up' = [up EXCEPT !.pc = "dismount"]
         \/ up.pc = "fetch" /\ up' = [up EXCEPT !.pc = "git"]
         \/ up.pc = "finalize2" /\ up' = [up EXCEPT !.pc = "rmtree"]
         \/ up.pc = "ready2" /\ up' = [up EXCEPT !.pc = "report"]
      /\ offer' \in BOOLEAN
    BY <1>0 DEF MainStartSync, ClearOfferSync, FetchSync, FinalizeSync, FinalizeMarked, SyncFlag, Go,
                RestTyped
<1>2. RestTyped' BY <1>0, <1>1 DEF RestTyped, InOverlay
<1>3. Control'
    BY <1>0, <1>1, SyncFields
    DEF Control, Unmarked, OverlayOK, Prepared, Flashing, InFlash, Launching, Working, Finalizing, RestTyped, OsReady,
        Whole
<1> QED BY <1>1, <1>2, <1>3, SyncFields, PartsNext

(* The overlay mounted over BASEDIR shows what BASEDIR holds.              *)
LEMMA MountKeepsInv == ASSUME UInv, MountOverlay PROVE UInv'
<1>0. DiskTyped /\ RestTyped /\ DiskOK /\ Control BY Parts
<1> DEFINE s == Synced(fs)
           d == [s EXCEPT !.edited = FALSE]
<1>1. /\ fs' = d /\ behind' = {d} /\ slot' = slot /\ slots' = {slot}
      /\ UNCHANGED <<os, boot, offer, remote, left>> /\ boot = "up"
      /\ up.pc = "mount" /\ up' = [up EXCEPT !.pc = "params"] /\ merged' = fs.base
    BY DEF MountOverlay, Go
<1>2. fs.base # None /\ fs.base.state = "whole" /\ fs.base \in Tree
    BY <1>0, <1>1, FsOK DEF Control, Launching, Bootable, OnDisk, Disk
<1>3. fs.base \in [ver : Versions, state : {"whole", "broken", "locked", "edited"}]
    BY <1>2, TreeCases
<1>4. /\ s \in Disk /\ Bootable(s) /\ s.base = fs.base /\ s.old_openpilot = fs.old_openpilot
      /\ s.overlay_consistent = fs.overlay_consistent /\ s.overlay_init = fs.overlay_init
    BY FsOK, SyncedDisk, SyncedOK
<1> HIDE DEF s
<1>5. /\ d \in Disk /\ d.base = s.base /\ d.finalized = s.finalized
      /\ d.old_openpilot = s.old_openpilot /\ ~d.edited
      /\ d.overlay_consistent = s.overlay_consistent /\ d.overlay_init = s.overlay_init
    BY <1>4 DEF Disk
<1> HIDE DEF d
<1>6. Bootable(d) /\ ~Marked(d)
    BY <1>0, <1>1, <1>4, <1>5 DEF Bootable, Marked, Control, Unmarked, Working
<1>7. slot \in Slot BY <1>0 DEF DiskTyped
<1>8. DiskTyped' /\ DiskOK' BY <1>1, <1>5, <1>6, <1>7, AloneOK
<1>9. RestTyped' BY <1>0, <1>1, <1>2, <1>3 DEF RestTyped, InOverlay
<1>10. Control'
    BY <1>0, <1>1, <1>2, <1>4, <1>5
    DEF Control, Unmarked, OverlayOK, Prepared, Flashing, InFlash, Launching, Working, Finalizing, RestTyped
<1> QED BY <1>8, <1>9, <1>10, PartsNext

(* No flash is needed when the version runs on this OS or on the slot.     *)
LEMMA NoFlashKeepsInv == ASSUME UInv, NoFlash PROVE UInv'
<1>0. DiskTyped /\ RestTyped /\ DiskOK /\ Control BY Parts
<1>1. /\ UNCHANGED <<os, boot, merged, offer, remote, left>> /\ boot = "up"
      /\ up.pc = "handle_agnos" /\ up' = [up EXCEPT !.pc = "finalize"]
      /\ AGNOS_VERSION[merged.ver] = os \/ slot.hash = AGNOS_VERSION[merged.ver]
    BY DEF NoFlash, Go, Wanted, Verified
<1>m. OsReady(merged.ver, slot)
  <2>1. AGNOS_VERSION[merged.ver] # "none" BY <1>0, <1>1, OSAssumption DEF RestTyped, InOverlay
  <2> QED BY <1>0, <1>1, <2>1 DEF OsReady, Control, Flashing
<1>2. RestTyped' BY <1>0, <1>1 DEF RestTyped, InOverlay
<1>3. CASE UNCHANGED disk
  <2>1. DiskTyped' /\ DiskOK' BY <1>0, <1>1, <1>3 DEF DiskTyped, DiskOK, Ready, ReadyWith, OsReady, disk, spare
  <2>2. Control'
      BY <1>0, <1>1, <1>3, <1>m
      DEF Control, Unmarked, OverlayOK, Prepared, Flashing, InFlash, Launching, Working, Finalizing, RestTyped,
          OsReady, disk, spare
  <2> QED BY <1>2, <2>1, <2>2, PartsNext
<1>4. CASE Sync
  <2>1. Control'
      BY <1>0, <1>1, <1>4, <1>m, SyncFields
      DEF Control, Unmarked, OverlayOK, Prepared, Flashing, InFlash, Launching, Working, Finalizing, RestTyped,
          OsReady, Whole
  <2> QED BY <1>1, <1>2, <1>4, <2>1, SyncFields, PartsNext
<1> QED BY <1>3, <1>4 DEF NoFlash

(* Steps that write in the staging area, while the flag is off.            *)
LEMMA StagingWrite ==
    ASSUME UInv, NEW d \in Disk, Write(d), d.base = fs.base, fs.base # None,
           ~d.overlay_consistent, os' = os
    PROVE  DiskTyped' /\ DiskOK' /\ fs' = d /\ slot' = slot
<1>1. Bootable(d) /\ Ready(d) BY FsOK DEF Bootable, Ready, ReadyWith, Marked
<1> QED BY <1>1, WriteOK

(* The staging area is removed with the flag off.                          *)
LEMMA RemoveStagingKeepsInv == ASSUME UInv, RemoveStaging PROVE UInv'
<1>0. /\ DiskTyped /\ RestTyped /\ DiskOK /\ Control
      /\ fs \in Disk /\ Bootable(fs) /\ fs.base \in Tree /\ fs.finalized \in Tree
      /\ fs.old_openpilot \in Tree
    BY Parts, FsOK DEF Disk
<1> DEFINE d == [fs EXCEPT !.finalized = Break(@), !.old_openpilot = Break(@)]
<1>1. /\ Write(d) /\ UNCHANGED <<os, boot, offer, remote, left>> /\ boot = "up"
      /\ up.pc = "dismount" /\ up' = [up EXCEPT !.pc = "rm"] /\ merged' = None
    BY DEF RemoveStaging, Go
<1>2. d \in Disk BY <1>0, BreakTree
              DEF Disk
<1>3. /\ d.base = fs.base /\ d.edited = fs.edited
      /\ d.overlay_consistent = fs.overlay_consistent
      /\ d.overlay_init = fs.overlay_init /\ d.finalized = Break(fs.finalized)
      /\ d.old_openpilot = Break(fs.old_openpilot)
    BY <1>0 DEF Disk
<1>4. fs.base # None /\ ~fs.overlay_consistent
    BY <1>0, <1>1 DEF Control, Unmarked, Working, Launching
<1> HIDE DEF d
<1>5. DiskTyped' /\ DiskOK' /\ fs' = d /\ slot' = slot BY <1>1, <1>2, <1>3, <1>4, StagingWrite
<1>6. RestTyped' BY <1>0, <1>1 DEF RestTyped, InOverlay
<1>7. Control'
    BY <1>0, <1>1, <1>3, <1>4, <1>5, NoneIsTree
    DEF Control, Unmarked, OverlayOK, Prepared, Flashing, InFlash, Launching, Working, Finalizing, RestTyped, OsReady
<1> QED BY <1>5, <1>6, <1>7, PartsNext

(* The canary is written with the flag off.                                *)
LEMMA TouchInitKeepsInv == ASSUME UInv, TouchInit PROVE UInv'
<1>0. /\ DiskTyped /\ RestTyped /\ DiskOK /\ Control
      /\ fs \in Disk /\ Bootable(fs) /\ fs.base \in Tree /\ fs.finalized \in Tree
      /\ fs.old_openpilot \in Tree
    BY Parts, FsOK DEF Disk
<1> DEFINE d == [fs EXCEPT !.finalized = None, !.old_openpilot = None,
                        !.overlay_consistent = FALSE, !.overlay_init = "current"]
<1>1. /\ Write(d) /\ UNCHANGED <<os, boot, offer, remote, left>> /\ boot = "up"
      /\ up.pc = "rm" /\ up' = [up EXCEPT !.pc = "mount"] /\ merged' = merged
    BY DEF TouchInit, Go
<1>2. d \in Disk BY <1>0, NoneIsTree
              DEF Disk
<1>3. /\ d.base = fs.base /\ d.edited = fs.edited /\ d.finalized = None
      /\ d.old_openpilot = None /\ d.overlay_consistent = FALSE
      /\ d.overlay_init = "current"
    BY <1>0 DEF Disk
<1>4. fs.base # None /\ ~fs.overlay_consistent
    BY <1>0, <1>1 DEF Control, Unmarked, Working, Launching
<1> HIDE DEF d
<1>5. DiskTyped' /\ DiskOK' /\ fs' = d /\ slot' = slot BY <1>1, <1>2, <1>3, <1>4, StagingWrite
<1>6. RestTyped' BY <1>0, <1>1 DEF RestTyped, InOverlay
<1>7. Control'
    BY <1>0, <1>1, <1>3, <1>4, <1>5, NoneIsTree
    DEF Control, Unmarked, OverlayOK, Prepared, Flashing, InFlash, Launching, Working, Finalizing, RestTyped, OsReady
<1> QED BY <1>5, <1>6, <1>7, PartsNext

(* The old finalized version goes with the flag off.                       *)
LEMMA RmTreeKeepsInv == ASSUME UInv, RmTree PROVE UInv'
<1>0. /\ DiskTyped /\ RestTyped /\ DiskOK /\ Control
      /\ fs \in Disk /\ Bootable(fs) /\ fs.base \in Tree /\ fs.finalized \in Tree
      /\ fs.old_openpilot \in Tree
    BY Parts, FsOK DEF Disk
<1> DEFINE d == [fs EXCEPT !.finalized = Break(@)]
<1>1. /\ Write(d) /\ UNCHANGED <<os, boot, offer, remote, left>> /\ boot = "up"
      /\ up.pc = "rmtree" /\ up' = [up EXCEPT !.pc = "copy"] /\ merged' = merged
    BY DEF RmTree, Go
<1>2. d \in Disk BY <1>0, BreakTree
              DEF Disk
<1>3. /\ d.base = fs.base /\ d.old_openpilot = fs.old_openpilot /\ d.edited = fs.edited
      /\ d.overlay_consistent = fs.overlay_consistent
      /\ d.overlay_init = fs.overlay_init /\ d.finalized = Break(fs.finalized)
    BY <1>0 DEF Disk
<1>4. fs.base # None /\ ~fs.overlay_consistent
    BY <1>0, <1>1 DEF Control, Unmarked, Working, Launching
<1> HIDE DEF d
<1>5. DiskTyped' /\ DiskOK' /\ fs' = d /\ slot' = slot BY <1>1, <1>2, <1>3, <1>4, StagingWrite
<1>6. RestTyped' BY <1>0, <1>1 DEF RestTyped, InOverlay
<1>7. Control'
    BY <1>0, <1>1, <1>3, <1>4, <1>5
    DEF Control, Unmarked, OverlayOK, Prepared, Flashing, InFlash, Launching, Working, Finalizing, RestTyped, OsReady
<1> QED BY <1>5, <1>6, <1>7, PartsNext

(* The copy begins: it is not complete, and not marked.                    *)
LEMMA CopyTreeKeepsInv == ASSUME UInv, CopyTree PROVE UInv'
<1>0. /\ DiskTyped /\ RestTyped /\ DiskOK /\ Control
      /\ fs \in Disk /\ Bootable(fs) /\ fs.base \in Tree /\ fs.finalized \in Tree
      /\ fs.old_openpilot \in Tree
    BY Parts, FsOK DEF Disk
<1> DEFINE d == [fs EXCEPT !.finalized = Break(merged)]
<1>1. /\ Write(d) /\ UNCHANGED <<os, boot, offer, remote, left>> /\ boot = "up"
      /\ up.pc = "copy" /\ up' = [up EXCEPT !.pc = "copying"] /\ merged' = merged
    BY DEF CopyTree, Go
<1>m. merged # None /\ merged \in [ver : Versions, state : {"whole", "broken", "locked", "edited"}]
    BY <1>0, <1>1 DEF RestTyped, InOverlay
<1>b. Break(merged) \in Tree BY <1>m DEF Break, Tree
<1>2. d \in Disk BY <1>0, <1>b
              DEF Disk
<1>3. /\ d.base = fs.base /\ d.old_openpilot = fs.old_openpilot /\ d.edited = fs.edited
      /\ d.overlay_consistent = fs.overlay_consistent
      /\ d.overlay_init = fs.overlay_init /\ d.finalized = Break(merged)
    BY <1>0 DEF Disk
<1>4. fs.base # None /\ ~fs.overlay_consistent
    BY <1>0, <1>1 DEF Control, Unmarked, Working, Launching
<1> HIDE DEF d
<1>5. DiskTyped' /\ DiskOK' /\ fs' = d /\ slot' = slot BY <1>1, <1>2, <1>3, <1>4, StagingWrite
<1>6. RestTyped' BY <1>0, <1>1 DEF RestTyped, InOverlay
<1>7. Control'
    BY <1>0, <1>1, <1>3, <1>4, <1>5
    DEF Control, Unmarked, OverlayOK, Prepared, Flashing, InFlash, Launching, Working, Finalizing, RestTyped, OsReady
<1> QED BY <1>5, <1>6, <1>7, PartsNext

(* The copy is complete, in the page cache.                                *)
LEMMA CopyDoneKeepsInv == ASSUME UInv, CopyDone PROVE UInv'
<1>0. /\ DiskTyped /\ RestTyped /\ DiskOK /\ Control
      /\ fs \in Disk /\ Bootable(fs) /\ fs.base \in Tree /\ fs.finalized \in Tree
      /\ fs.old_openpilot \in Tree
    BY Parts, FsOK DEF Disk
<1> DEFINE d == [fs EXCEPT !.finalized =
                 [ver |-> merged.ver, state |-> IF Whole(merged) THEN "cached" ELSE "broken"]]
<1>1. /\ Write(d) /\ UNCHANGED <<os, boot, offer, remote, left>> /\ boot = "up"
      /\ up.pc = "copying" /\ up' = [up EXCEPT !.pc = "ready"] /\ merged' = merged
    BY DEF CopyDone, Go
<1>m. merged # None /\ merged \in [ver : Versions, state : {"whole", "broken", "locked", "edited"}]
    BY <1>0, <1>1 DEF RestTyped, InOverlay
<1>b. [ver |-> merged.ver, state |-> IF Whole(merged) THEN "cached" ELSE "broken"] \in Tree
    BY <1>m, SomeTree
<1>2. d \in Disk BY <1>0, <1>b
              DEF Disk
<1>3. /\ d.base = fs.base /\ d.old_openpilot = fs.old_openpilot /\ d.edited = fs.edited
      /\ d.overlay_consistent = fs.overlay_consistent
      /\ d.overlay_init = fs.overlay_init
      /\ d.finalized = [ver |-> merged.ver, state |-> IF Whole(merged) THEN "cached" ELSE "broken"]
    BY <1>0 DEF Disk
<1>4. fs.base # None /\ ~fs.overlay_consistent
    BY <1>0, <1>1 DEF Control, Unmarked, Working, Launching
<1> HIDE DEF d
<1>5. DiskTyped' /\ DiskOK' /\ fs' = d /\ slot' = slot BY <1>1, <1>2, <1>3, <1>4, StagingWrite
<1>6. RestTyped' BY <1>0, <1>1 DEF RestTyped, InOverlay
<1>w. fs.overlay_init = "current" => Whole(d.finalized) /\ d.finalized.ver = merged.ver
    BY <1>0, <1>1, <1>3 DEF Control, OverlayOK, Prepared, Finalizing, Whole
<1>7. Control'
    BY <1>0, <1>1, <1>3, <1>4, <1>5, <1>w
    DEF Control, Unmarked, OverlayOK, Prepared, Flashing, InFlash, Launching, Working, Finalizing, RestTyped, OsReady
<1> QED BY <1>5, <1>6, <1>7, PartsNext

(* A failure removes the canary, which unmarks whatever was marked.        *)
LEMMA CommandFailsKeepsInv == ASSUME UInv, CommandFails PROVE UInv'
<1>0. /\ DiskTyped /\ RestTyped /\ DiskOK /\ Control
      /\ fs \in Disk /\ Bootable(fs) /\ fs.base \in Tree /\ fs.finalized \in Tree
      /\ fs.old_openpilot \in Tree
    BY Parts, FsOK DEF Disk
<1> DEFINE d == [fs EXCEPT !.overlay_init = "none"]
<1>1. /\ Write(d) /\ UNCHANGED <<os, boot, merged, offer, remote>> /\ boot = "up"
      /\ up' = [up EXCEPT !.pc = "report"]
      /\ UNCHANGED left \/ Spend("fails")
    BY DEF CommandFails, Fails
<1>2. left' \in [Counters -> Nat] BY <1>0, <1>1, SpendTyped, CountersAre DEF RestTyped
<1>3. d \in Disk BY <1>0 DEF Disk
<1>4. /\ d.base = fs.base /\ d.finalized = fs.finalized
      /\ d.old_openpilot = fs.old_openpilot /\ d.edited = fs.edited
      /\ d.overlay_consistent = fs.overlay_consistent /\ d.overlay_init = "none"
    BY <1>0 DEF Disk
<1>5. Bootable(d) /\ Ready(d) BY <1>0, <1>4 DEF Bootable, Ready, ReadyWith, Marked
<1> HIDE DEF d
<1>6. DiskTyped' /\ DiskOK' /\ fs' = d /\ slot' = slot BY <1>1, <1>3, <1>5, WriteOK
<1>7. RestTyped' BY <1>0, <1>1, <1>2 DEF RestTyped, InOverlay
<1>8. Control'
    BY <1>0, <1>1, <1>4, <1>6
    DEF Control, Unmarked, OverlayOK, Prepared, Flashing, InFlash, Launching, Working, Finalizing, RestTyped, OsReady
<1> QED BY <1>6, <1>7, <1>8, PartsNext

(* The OS that is to be flashed is one.                                    *)
LEMMA WantedOS ==
    ASSUME UInv, IF boot = "up" THEN merged # None ELSE fs.base # None
    PROVE  Wanted \in OSes
<1>1. fs.base # None => fs.base.ver \in Versions BY FsOK, TreeCases DEF Disk
<1>2. merged # None => merged.ver \in Versions BY DEF UInv, TypeOK
<1> QED BY <1>1, <1>2, OSAssumption DEF Wanted

(* A slot without its hash is not taken for complete, and no version is    *)
(* marked that waits for it.                                               *)
LEMMA ClearHashKeepsInv == ASSUME UInv, ClearHash PROVE UInv'
<1>0. DiskTyped /\ RestTyped /\ DiskOK /\ Control /\ fs \in Disk /\ Bootable(fs) BY Parts, FsOK
<1>1. /\ fs' = Synced(fs) /\ behind' = {Synced(fs)}
      /\ slot' = [slot EXCEPT !.hash = "none"] /\ slots' = {slot, slot'}
      /\ UNCHANGED <<os, merged, offer, remote, left>>
      /\ \/ boot = "up" /\ up.pc = "handle_agnos" /\ up' = [up EXCEPT !.pc = "flash"] /\ boot' = boot
         \/ boot = "agnos" /\ boot' = "flash" /\ up' = up
    BY DEF ClearHash, Go, SyncFs
<1>2. ~Marked(fs) BY <1>0, <1>1 DEF Control, Unmarked, Working, Launching, Marked
<1>3. /\ Synced(fs) \in Disk /\ Bootable(Synced(fs)) /\ ~Marked(Synced(fs))
      /\ Synced(fs).base = fs.base /\ Synced(fs).old_openpilot = fs.old_openpilot
      /\ Synced(fs).overlay_consistent = fs.overlay_consistent
      /\ Synced(fs).overlay_init = fs.overlay_init /\ Synced(fs).edited = fs.edited
    BY <1>0, <1>2, SyncedDisk, SyncedOK
<1>4. /\ slot \in Slot /\ slot' \in Slot /\ slot'.hash = "none"
    BY <1>0, <1>1 DEF DiskTyped, Slot
<1>5. DiskTyped' /\ DiskOK' BY <1>1, <1>3, <1>4, AloneOK
<1>6. RestTyped' BY <1>0, <1>1 DEF RestTyped, InOverlay
<1>7. Control'
    BY <1>0, <1>1, <1>3, <1>4
    DEF Control, Unmarked, OverlayOK, Prepared, Flashing, InFlash, Launching, Working, Finalizing, RestTyped, OsReady, Off
<1> QED BY <1>5, <1>6, <1>7, PartsNext

(* Writes to the slot alone, while nothing is marked.                      *)
LEMMA SlotWrite ==
    ASSUME UInv, InFlash, UNCHANGED <<fs, behind>>, slot' \in Slot, slots' \subseteq Slot,
           slot' \in slots'
    PROVE  DiskTyped' /\ DiskOK'
<1>1. DiskTyped' BY DEF UInv, TypeOK, DiskTyped
<1>2. \A d \in behind : ~Marked(d) BY DEF UInv, Flashing
<1>3. DiskOK' BY <1>2 DEF UInv, DiskOK, Ready, ReadyWith, Bootable, OnDisk
<1> QED BY <1>1, <1>3

(* The image is overwritten: its hash is gone.                             *)
LEMMA ExtractKeepsInv == ASSUME UInv, Extract PROVE UInv'
<1>0. DiskTyped /\ RestTyped /\ DiskOK /\ Control BY Parts
<1>1. /\ UNCHANGED <<fs, behind, os, merged, offer, remote, left>>
      /\ slot' = [slot EXCEPT !.image = "broken"]
      /\ slots' = slots \cup {[s EXCEPT !.image = "broken"] : s \in slots}
      /\ \/ boot = "up" /\ up.pc = "flash" /\ up' = [up EXCEPT !.pc = "extract"] /\ boot' = boot
         \/ boot = "flash" /\ boot' = "extract" /\ up' = up
    BY DEF Extract, InStep, Go
<1>2. /\ slot' \in Slot /\ slots' \subseteq Slot /\ slot' \in slots' /\ slot'.hash = slot.hash
    BY <1>0, <1>1 DEF DiskTyped, Slot
<1>3. InFlash BY <1>1 DEF InFlash
<1>4. DiskTyped' /\ DiskOK' BY <1>1, <1>2, <1>3, SlotWrite
<1>5. RestTyped' BY <1>0, <1>1 DEF RestTyped, InOverlay
<1>6. Control'
    BY <1>0, <1>1, <1>2, <1>3
    DEF Control, Unmarked, OverlayOK, Prepared, Flashing, InFlash, Launching, Working, Finalizing, RestTyped,
        OsReady, Off, Marked
<1> QED BY <1>4, <1>5, <1>6, PartsNext

(* The image is complete, as processes see it.                             *)
LEMMA ExtractDoneKeepsInv == ASSUME UInv, ExtractDone PROVE UInv'
<1>0. DiskTyped /\ RestTyped /\ DiskOK /\ Control /\ fs \in Disk /\ Bootable(fs) BY Parts, FsOK
<1>1. /\ fs' = Synced(fs) /\ behind' = {Synced(fs)}
      /\ slot' = [slot EXCEPT !.image = Wanted] /\ slots' = {slot, slot'}
      /\ UNCHANGED <<os, merged, offer, remote, left>>
      /\ \/ boot = "up" /\ up.pc = "extract" /\ up' = [up EXCEPT !.pc = "extracted"] /\ boot' = boot
         \/ boot = "extract" /\ boot' = "extracted" /\ up' = up
    BY DEF ExtractDone, InStep, Go, SyncFs
<1>2. InFlash /\ ~Marked(fs) /\ slot.hash = "none"
    BY <1>0, <1>1 DEF InFlash, Control, Flashing, DiskTyped
<1>w. /\ Wanted \in OSes
      /\ Wanted = AGNOS_VERSION[IF boot = "up" THEN merged.ver ELSE fs.base.ver]
    BY <1>0, <1>1, WantedOS DEF Control, Launching, RestTyped, InOverlay, Wanted
<1>3. /\ Synced(fs) \in Disk /\ Bootable(Synced(fs)) /\ ~Marked(Synced(fs))
      /\ Synced(fs).base = fs.base /\ Synced(fs).old_openpilot = fs.old_openpilot
      /\ Synced(fs).overlay_consistent = fs.overlay_consistent
      /\ Synced(fs).overlay_init = fs.overlay_init /\ Synced(fs).edited = fs.edited
    BY <1>0, <1>2, SyncedDisk, SyncedOK
<1>4. /\ slot \in Slot /\ slot' \in Slot /\ slot'.hash = "none" /\ slot'.image = Wanted
    BY <1>0, <1>1, <1>2, <1>w DEF DiskTyped, Slot
<1>5. DiskTyped' /\ DiskOK' BY <1>1, <1>3, <1>4, AloneOK
<1>6. RestTyped' BY <1>0, <1>1 DEF RestTyped, InOverlay
<1>7. Control'
    BY <1>0, <1>1, <1>3, <1>4, <1>w
    DEF Control, Unmarked, OverlayOK, Prepared, Flashing, InFlash, Launching, Working, Finalizing, RestTyped, OsReady, Off
<1> QED BY <1>5, <1>6, <1>7, PartsNext

(* The hash vouches for an image that is complete.                         *)
LEMMA WriteHashKeepsInv == ASSUME UInv, WriteHash PROVE UInv'
<1>0. DiskTyped /\ RestTyped /\ DiskOK /\ Control BY Parts
<1>1. /\ UNCHANGED <<fs, behind, os, merged, offer, remote, left>>
      /\ slot' = [slot EXCEPT !.hash = Wanted]
      /\ slots' = slots \cup {[s EXCEPT !.hash = Wanted] : s \in slots}
      /\ \/ boot = "up" /\ up.pc = "extracted" /\ up' = [up EXCEPT !.pc = "finalize"] /\ boot' = boot
         \/ boot = "extracted" /\ boot' = "agnos" /\ up' = up
    BY DEF WriteHash, Go
<1>w. /\ Wanted \in OSes
      /\ Wanted = AGNOS_VERSION[IF boot = "up" THEN merged.ver ELSE fs.base.ver]
    BY <1>0, <1>1, WantedOS DEF Control, Launching, RestTyped, InOverlay, Wanted
<1>2. /\ slot' \in Slot /\ slots' \subseteq Slot /\ slot' \in slots'
      /\ slot'.hash = Wanted /\ slot'.image = slot.image
    BY <1>0, <1>1, <1>w DEF DiskTyped, Slot
<1>3. InFlash /\ ~Marked(fs) /\ slot.image = Wanted
    BY <1>0, <1>1, <1>w DEF InFlash, Control, Flashing, DiskTyped, Launching, Off
<1>4. DiskTyped' /\ DiskOK' BY <1>1, <1>2, <1>3, SlotWrite
<1>5. RestTyped' BY <1>0, <1>1 DEF RestTyped, InOverlay
<1>6. Control'
    BY <1>0, <1>1, <1>2, <1>3, <1>w
    DEF Control, Unmarked, OverlayOK, Prepared, Flashing, InFlash, Launching, Working, Finalizing, RestTyped,
        OsReady, Off, Marked
<1> QED BY <1>4, <1>5, <1>6, PartsNext

(* A flash begins again.                                                   *)
LEMMA RetryKeepsInv == ASSUME UInv, Retry PROVE UInv'
<1>0. DiskTyped /\ RestTyped /\ DiskOK /\ Control BY Parts
<1>1. /\ UNCHANGED <<fs, behind, slot, slots, os, merged, offer, remote>> /\ Spend("fails")
      /\ \/ /\ boot = "up" /\ up.pc \in {"flash", "extract"}
            /\ up' = [up EXCEPT !.pc = "handle_agnos"] /\ boot' = boot
         \/ boot \in {"flash", "extract"} /\ boot' = "agnos" /\ up' = up
    BY DEF Retry, disk, spare
<1>2. left' \in [Counters -> Nat] BY <1>0, <1>1, SpendTyped, CountersAre DEF RestTyped
<1>3. ~Marked(fs) BY <1>0, <1>1 DEF InFlash, Control, Flashing, DiskTyped
<1>4. DiskTyped' /\ DiskOK' BY <1>0, <1>1 DEF DiskTyped, DiskOK, Ready, ReadyWith, OsReady
<1>5. RestTyped' BY <1>0, <1>1, <1>2 DEF RestTyped, InOverlay
<1>6. Control'
    BY <1>0, <1>1, <1>3
    DEF Control, Unmarked, OverlayOK, Prepared, Flashing, InFlash, Launching, Working, Finalizing, RestTyped,
        OsReady, Off, Marked
<1> QED BY <1>4, <1>5, <1>6, PartsNext

----------------------------------------------------------------------------
(* The launch script.                                                      *)
LEMMA MvBaseKeepsInv == ASSUME UInv, MvBase PROVE UInv'
<1>0. /\ DiskTyped /\ RestTyped /\ DiskOK /\ Control
      /\ fs \in Disk /\ Bootable(fs) /\ fs.base \in Tree /\ fs.finalized \in Tree
      /\ fs.old_openpilot \in Tree
    BY Parts, FsOK DEF Disk
<1> DEFINE d == [fs EXCEPT !.old_openpilot = fs.base, !.base = None, !.overlay_init = "none"]
<1>1. /\ Write(d) /\ UNCHANGED <<os, up, merged, offer, remote, left>>
      /\ boot = "launch" /\ boot' = "swap" /\ fs.base # None /\ Marked(fs)
    BY DEF MvBase, Installable, Marked
<1>2. d \in Disk BY <1>0, NoneIsTree DEF Disk
<1>3. /\ d.finalized = fs.finalized /\ d.edited = fs.edited
      /\ d.overlay_consistent = fs.overlay_consistent /\ d.base = None
      /\ d.old_openpilot = fs.base /\ d.overlay_init = "none"
    BY <1>0 DEF Disk
<1>4. Bootable(d) /\ Ready(d)
    BY <1>0, <1>1, <1>3, FsOK DEF Bootable, Ready, ReadyWith, Marked, OnDisk
<1> HIDE DEF d
<1>5. DiskTyped' /\ DiskOK' /\ fs' = d /\ slot' = slot BY <1>1, <1>2, <1>4, WriteOK
<1>6. RestTyped' BY <1>0, <1>1 DEF RestTyped
<1>7. Control'
    BY <1>0, <1>1, <1>3, <1>5, NoneIsTree
    DEF Control, Unmarked, OverlayOK, Prepared, Flashing, InFlash, Launching, Working, Finalizing, RestTyped, OsReady, Off
<1> QED BY <1>5, <1>6, <1>7, PartsNext

(* The launch script moves the finalized version into BASEDIR.             *)
LEMMA MvFinalizedKeepsInv == ASSUME UInv, MvFinalized PROVE UInv'
<1>0. /\ DiskTyped /\ RestTyped /\ DiskOK /\ Control
      /\ fs \in Disk /\ Bootable(fs) /\ fs.base \in Tree /\ fs.finalized \in Tree
      /\ fs.old_openpilot \in Tree
    BY Parts, FsOK DEF Disk
<1> DEFINE d == [fs EXCEPT !.base = fs.finalized, !.finalized = None,
                        !.overlay_consistent = FALSE, !.edited = FALSE]
<1>1. /\ Write(d) /\ UNCHANGED <<os, up, merged, offer, remote, left>>
      /\ boot = "swap" /\ boot' = "launch"
    BY DEF MvFinalized
<1>2. fs.base = None /\ fs.overlay_init = "none" BY <1>0, <1>1 DEF Control, Launching
<1>3. d \in Disk BY <1>0, NoneIsTree DEF Disk
<1>4. /\ d.old_openpilot = fs.old_openpilot /\ ~d.edited
      /\ d.overlay_init = fs.overlay_init /\ d.base = fs.finalized
      /\ d.finalized = None /\ d.overlay_consistent = FALSE
    BY <1>0 DEF Disk
<1>5. Bootable(d) /\ Ready(d) BY <1>0, <1>2, <1>4 DEF Bootable, Ready, ReadyWith, Marked, OnDisk
<1> HIDE DEF d
<1>6. DiskTyped' /\ DiskOK' /\ fs' = d /\ slot' = slot BY <1>1, <1>3, <1>5, WriteOK
<1>7. RestTyped' BY <1>0, <1>1 DEF RestTyped
<1>8. Control'
    BY <1>0, <1>1, <1>2, <1>4, <1>6, NoneIsTree
    DEF Control, Unmarked, OverlayOK, Prepared, Flashing, InFlash, Launching, Working, Finalizing, RestTyped, OsReady, Off
<1> QED BY <1>6, <1>7, <1>8, PartsNext

(* Without a swap, nothing is marked: the backup that stands in the way of *)
(* an installation is not there when the flag is.                          *)
LEMMA NoSwapKeepsInv == ASSUME UInv, NoSwap \/ StartManager PROVE UInv'
<1>0. DiskTyped /\ RestTyped /\ DiskOK /\ Control /\ Ready(fs) BY Parts, FsOK
<1>1. /\ UNCHANGED <<fs, behind, slot, slots, os, up, merged, remote, left>> /\ offer' \in BOOLEAN
      /\ \/ boot = "launch" /\ boot' = "agnos" /\ fs.base # None /\ ~Installable(fs)
         \/ boot = "agnos" /\ boot' = "up"
    BY <1>0 DEF NoSwap, StartManager, disk, spare, RestTyped
<1>2. ~Installable(fs) => ~Marked(fs)
  <2>1. ReadyWith(fs, slot) BY FsOK
  <2> QED BY <2>1 DEF Installable, ReadyWith, Marked
<1>3. DiskTyped' /\ DiskOK' BY <1>0, <1>1 DEF DiskTyped, DiskOK, Ready, ReadyWith, OsReady
<1>4. RestTyped' BY <1>0, <1>1 DEF RestTyped
<1>5. Control'
    BY <1>0, <1>1, <1>2
    DEF Control, Unmarked, OverlayOK, Prepared, Flashing, InFlash, Launching, Working, Finalizing, RestTyped, OsReady, Marked
<1> QED BY <1>3, <1>4, <1>5, PartsNext

(* Before the slot is made active its hash is cleared.                     *)
LEMMA SwapClearHashKeepsInv == ASSUME UInv, SwapClearHash PROVE UInv'
<1>0. DiskTyped /\ RestTyped /\ DiskOK /\ Control /\ fs \in Disk /\ Bootable(fs) BY Parts, FsOK
<1>1. /\ fs' = Synced(fs) /\ behind' = {Synced(fs)}
      /\ slot' = [slot EXCEPT !.hash = "none"] /\ slots' = {slot, slot'}
      /\ UNCHANGED <<os, up, merged, offer, remote, left>>
      /\ boot = "agnos" /\ boot' = "cleared"
    BY DEF SwapClearHash, SyncFs
<1>3. /\ Synced(fs) \in Disk /\ Bootable(Synced(fs)) /\ ~Marked(Synced(fs))
      /\ Synced(fs).base = fs.base
    BY <1>0, <1>1, SyncedDisk, SyncedOK DEF Control, Launching
<1>4. slot \in Slot /\ slot' \in Slot /\ slot'.hash = "none" BY <1>0, <1>1 DEF DiskTyped, Slot
<1>5. DiskTyped' /\ DiskOK' BY <1>1, <1>3, <1>4, AloneOK
<1>6. RestTyped' BY <1>0, <1>1 DEF RestTyped
<1>7. Control'
    BY <1>0, <1>1, <1>3, <1>4, NoneIsTree
    DEF Control, Unmarked, OverlayOK, Prepared, Flashing, InFlash, Launching, Working, Finalizing, RestTyped, OsReady, Off
<1> QED BY <1>5, <1>6, <1>7, PartsNext

(* The slot is made active, and the other one becomes the spare.           *)
LEMMA SwapSetActiveKeepsInv == ASSUME UInv, SwapSetActive PROVE UInv'
<1>0. DiskTyped /\ RestTyped /\ DiskOK /\ Control /\ fs \in Disk /\ Bootable(fs) BY Parts, FsOK
<1>1. /\ fs' = Synced(fs) /\ behind' = {Synced(fs)} /\ os' = slot.image /\ slots' = {slot'}
      /\ UNCHANGED <<up, merged, offer, remote, left>>
      /\ boot = "cleared" /\ boot' = IF slot.image \in OSes THEN "launch" ELSE "halt"
    BY DEF SwapSetActive, SyncFs
<1>2. PICK h \in {"none", os} : slot' = [hash |-> h, image |-> os] BY DEF SwapSetActive
<1>3. /\ Synced(fs) \in Disk /\ Bootable(Synced(fs)) /\ ~Marked(Synced(fs))
      /\ Synced(fs).base = fs.base
    BY <1>0, <1>1, SyncedDisk, SyncedOK DEF Control, Flashing, InFlash, DiskTyped
<1>4. /\ os \in OSes /\ slot.image \in OSes \cup {"broken", "torn"}
      /\ slot' \in Slot /\ slot'.hash \in {"none", slot'.image}
    BY <1>0, <1>1, <1>2 DEF Control, Launching, DiskTyped, Slot
<1>5. DiskTyped' /\ DiskOK' BY <1>1, <1>3, <1>4, AloneOK
<1>6. RestTyped' BY <1>0, <1>1, <1>4 DEF RestTyped
<1>7. Control'
    BY <1>0, <1>1, <1>3, <1>4, NoneIsTree
    DEF Control, Unmarked, OverlayOK, Prepared, Flashing, InFlash, Launching, Working, Finalizing, RestTyped, OsReady, Off
<1> QED BY <1>5, <1>6, <1>7, PartsNext

(* The graphical updater fails, and the user reboots.                      *)
LEMMA UpdaterFailsKeepsInv == ASSUME UInv, UpdaterFails PROVE UInv'
<1>0. DiskTyped /\ RestTyped /\ DiskOK /\ Control BY Parts
<1>1. /\ Sync /\ UNCHANGED <<os, up, merged, offer, remote>> /\ Spend("fails")
      /\ boot \in {"flash", "extract"} /\ boot' = "launch"
    BY DEF UpdaterFails
<1>2. left' \in [Counters -> Nat] BY <1>0, <1>1, SpendTyped, CountersAre DEF RestTyped
<1>3. RestTyped' BY <1>0, <1>1, <1>2 DEF RestTyped
<1>4. Control'
    BY <1>0, <1>1, NoneIsTree, SyncFields
    DEF Control, Unmarked, OverlayOK, Prepared, Flashing, InFlash, Launching, Working, Finalizing, RestTyped, OsReady, Off
<1> QED BY <1>1, <1>3, <1>4, SyncFields, PartsNext
----------------------------------------------------------------------------
(* The world around.                                                       *)
LEMMA KillKeepsInv == ASSUME UInv, Kill PROVE UInv'
<1>0. DiskTyped /\ RestTyped /\ DiskOK /\ Control BY Parts
<1>1. /\ UNCHANGED <<fs, behind, slot, slots, os, boot, remote>> /\ boot = "up" /\ up' = Off
      /\ offer' \in BOOLEAN /\ Spend("kills")
      /\ merged' \in {merged} \cup IF up.pc = "checkout" THEN {[merged EXCEPT !.state = "locked"]} ELSE {}
    BY <1>0 DEF Kill, disk, spare, RestTyped
<1>2. left' \in [Counters -> Nat] BY <1>0, <1>1, SpendTyped, CountersAre DEF RestTyped
<1>3. DiskTyped' /\ DiskOK' BY <1>0, <1>1 DEF DiskTyped, DiskOK, Ready, ReadyWith, OsReady
<1>4. /\ merged' \in {None} \cup [ver : Versions, state : {"whole", "broken", "locked", "edited"}]
      /\ merged' # None => merged # None
      /\ merged'.state = "edited" => merged.state = "edited"
    BY <1>0, <1>1 DEF RestTyped, InOverlay
<1>5. RestTyped' BY <1>0, <1>1, <1>2, <1>4 DEF RestTyped, InOverlay, Off
<1>6. Control'
    BY <1>0, <1>1, <1>4
    DEF Control, Unmarked, OverlayOK, Prepared, Flashing, InFlash, Launching, Working, Finalizing, RestTyped, OsReady, Off
<1> QED BY <1>3, <1>5, <1>6, PartsNext

(* A reboot syncs and starts the launch script.                            *)
LEMMA RebootKeepsInv == ASSUME UInv, Reboot PROVE UInv'
<1>0. DiskTyped /\ RestTyped /\ DiskOK /\ Control BY Parts
<1>1. /\ Sync /\ UNCHANGED <<os, offer, remote, left>> /\ boot = "up"
      /\ boot' = "launch" /\ up' = Off /\ merged' = None
    BY DEF Reboot, Restart
<1>2. RestTyped' BY <1>0, <1>1 DEF RestTyped, InOverlay, Off
<1>3. Control'
    BY <1>0, <1>1, NoneIsTree, SyncFields
    DEF Control, Unmarked, OverlayOK, Prepared, Flashing, InFlash, Launching, Working, Finalizing, RestTyped, OsReady, Off
<1> QED BY <1>1, <1>2, <1>3, SyncFields, PartsNext

(* A power loss leaves one of the possible disks.                          *)
LEMMA PowerLossKeepsInv == ASSUME UInv, PowerLoss PROVE UInv'
<1>0. DiskTyped /\ RestTyped /\ DiskOK /\ Control BY Parts
<1>1. /\ UNCHANGED <<os, offer, remote>> /\ Spend("losses")
      /\ boot # "halt" /\ boot' = "launch" /\ up' = Off /\ merged' = None
    BY DEF PowerLoss, Restart
<1>2. PICK b \in behind : fs' \in After(b) /\ behind' = {fs'} BY DEF PowerLoss
<1>3. PICK s \in slots : slot' = Lost(s) /\ slots' = {slot'} BY DEF PowerLoss
<1>4. /\ s \in Slot /\ slot' \in Slot
      /\ slot'.hash \in {"none", slot'.image} \/ slot'.image = "torn"
      /\ slot' = s \/ (slot'.hash = s.hash /\ slot'.image = "torn")
    BY <1>0, <1>3 DEF DiskTyped, Slot, Lost
<1>5. b \in Disk /\ fs' \in Disk /\ Bootable(fs') /\ ReadyWith(fs', s)
    BY <1>0, <1>2, AfterOK DEF DiskTyped, DiskOK, Ready
<1>6. ReadyWith(fs', slot') BY <1>4, <1>5 DEF ReadyWith, OsReady
<1>7. DiskTyped' /\ DiskOK' BY <1>1, <1>2, <1>3, <1>4, <1>5, <1>6, AloneOK
<1>8. left' \in [Counters -> Nat] BY <1>0, <1>1, SpendTyped, CountersAre DEF RestTyped
<1>9. RestTyped' BY <1>0, <1>1, <1>8 DEF RestTyped, InOverlay, Off
<1>10. Control'
    BY <1>0, <1>1, <1>2, <1>4, NoneIsTree
    DEF Control, Unmarked, OverlayOK, Prepared, Flashing, InFlash, Launching, Working, Finalizing, RestTyped, OsReady, Off
<1> QED BY <1>7, <1>9, <1>10, PartsNext

(* A user edits BASEDIR: the canary no longer is current.                  *)
LEMMA EditBaseKeepsInv == ASSUME UInv, EditBase PROVE UInv'
<1>0. /\ DiskTyped /\ RestTyped /\ DiskOK /\ Control
      /\ fs \in Disk /\ Bootable(fs) /\ fs.base \in Tree /\ fs.finalized \in Tree
      /\ fs.old_openpilot \in Tree
    BY Parts, FsOK DEF Disk
<1> DEFINE t == [ver |-> Local, state |-> "whole"]
           i == IF fs.overlay_init = "none" THEN "none" ELSE "stale"
           d == [fs EXCEPT !.base = t, !.edited = TRUE, !.overlay_init = i]
<1>1. /\ Write(d) /\ UNCHANGED <<os, boot, up, offer, remote>> /\ boot = "up" /\ Spend("edits")
      /\ merged' = IF merged = None \/ merged.state = "locked" THEN merged
                   ELSE [merged EXCEPT !.state = "edited"]
    BY DEF EditBase
<1>2. t \in Tree /\ t # None /\ t.state = "whole" BY SomeTree DEF Versions
<1>3. left' \in [Counters -> Nat] BY <1>0, <1>1, SpendTyped, CountersAre DEF RestTyped
<1> HIDE DEF t
<1>4. d \in Disk BY <1>0, <1>2 DEF Disk
<1>5. /\ d.finalized = fs.finalized /\ d.old_openpilot = fs.old_openpilot
      /\ d.edited /\ d.overlay_consistent = fs.overlay_consistent
      /\ d.base = t /\ d.overlay_init = i
    BY <1>0 DEF Disk
<1>6. Bootable(d) /\ Ready(d) BY <1>2, <1>5 DEF Bootable, Ready, ReadyWith, Marked, OnDisk
<1>7. i \in {"none", "stale"} OBVIOUS
<1> HIDE DEF d, i
<1>8. DiskTyped' /\ DiskOK' /\ fs' = d /\ slot' = slot /\ behind' = behind \cup {d}
    BY <1>1, <1>4, <1>6, WriteOK
<1>9. /\ merged' \in {None} \cup [ver : Versions, state : {"whole", "broken", "locked", "edited"}]
      /\ merged' = None <=> merged = None
      /\ merged'.ver = merged.ver
      /\ merged.state \in {"whole", "edited"} => merged'.state \in {"whole", "edited"}
    BY <1>0, <1>1, SomeTree DEF RestTyped, None
<1>10. RestTyped' BY <1>0, <1>1, <1>3, <1>9 DEF RestTyped
<1>11. Control'
    BY <1>0, <1>1, <1>2, <1>5, <1>7, <1>8, <1>9
    DEF Control, Unmarked, OverlayOK, Prepared, Flashing, InFlash, Launching, Working, Finalizing, RestTyped, OsReady,
        Marked
<1> QED BY <1>8, <1>10, <1>11, PartsNext

(* The server has a new version.                                           *)
LEMMA ReleaseKeepsInv == ASSUME UInv, Release PROVE UInv'
<1>0. DiskTyped /\ RestTyped /\ DiskOK /\ Control BY Parts
<1>1. /\ UNCHANGED <<fs, behind, slot, slots, os, boot, up, merged, offer>> /\ remote' \in Released
      /\ Spend("pushes")
    BY DEF Release, disk, spare
<1>2. left' \in [Counters -> Nat] BY <1>0, <1>1, SpendTyped, CountersAre DEF RestTyped
<1>3. DiskTyped' /\ DiskOK' BY <1>0, <1>1 DEF DiskTyped, DiskOK, Ready, ReadyWith, OsReady
<1>4. RestTyped' BY <1>0, <1>1, <1>2 DEF RestTyped
<1>5. Control'
    BY <1>0, <1>1
    DEF Control, Unmarked, OverlayOK, Prepared, Flashing, InFlash, Launching, Working, Finalizing, RestTyped, OsReady, Marked
<1> QED BY <1>3, <1>4, <1>5, PartsNext
----------------------------------------------------------------------------
(* At first a whole version is installed and nothing is prepared.          *)
LEMMA InitHasInv == Init => UInv
<1> SUFFICES ASSUME Init PROVE UInv OBVIOUS
<1>1. PICK v \in Released :
        /\ fs = [base |-> [ver |-> v, state |-> "whole"], finalized |-> None, old_openpilot |-> None,
                 overlay_consistent |-> FALSE, edited |-> FALSE, overlay_init |-> "none"]
        /\ os = AGNOS_VERSION[v]
        /\ remote = v
    BY DEF Init
<1>2. /\ v \in Versions /\ os \in OSes
      /\ fs.base \in Tree /\ fs.base # None /\ fs.base.state = "whole"
      /\ slot \in Slot /\ slot.hash \in {"none", slot.image} /\ slots = {slot}
    BY <1>1, OSAssumption, SomeTree DEF Init, Versions, Slot
<1>3. fs \in Disk BY <1>1, <1>2, NoneIsTree DEF Disk
<1>4. TypeOK BY <1>1, <1>2, <1>3, BudgetsAssumption DEF Init, TypeOK, Off, InOverlay
<1>5. DiskOK BY <1>1, <1>2 DEF Init, DiskOK, Bootable, Ready, ReadyWith, Marked, OnDisk
<1>6. Unmarked /\ OverlayOK /\ Prepared /\ Flashing /\ Launching
    BY <1>1, <1>2, NoneIsTree
    DEF Init, Off, Unmarked, OverlayOK, Prepared, Flashing, InFlash, Launching, Working, Finalizing
<1> QED BY <1>4, <1>5, <1>6 DEF UInv

(* Every step keeps the invariant.                                         *)
LEMMA NextKeepsInv == UInv /\ [Next]_vars => UInv'
<1> SUFFICES ASSUME UInv, [Next]_vars PROVE UInv' OBVIOUS
<1>1. CASE UNCHANGED vars
  <2>1. DiskTyped /\ RestTyped /\ DiskOK /\ Control BY Parts
  <2>2. UNCHANGED <<fs, behind, slot, slots, os, boot, up, merged, offer, remote, left>> BY <1>1 DEF vars
  <2>3. DiskTyped' /\ DiskOK' BY <2>1, <2>2 DEF DiskTyped, DiskOK, Ready, ReadyWith, OsReady
  <2>4. RestTyped' BY <2>1, <2>2 DEF RestTyped
  <2>5. Control' BY <2>1, <2>2
        DEF Control, Unmarked, OverlayOK, Prepared, Flashing, InFlash, Launching, Working, Finalizing, RestTyped, OsReady, Marked
  <2> QED BY <2>3, <2>4, <2>5, PartsNext
<1>2. CASE UpdatedNext
    BY <1>2, QuietKeepsInv, UnmarkKeepsInv, FinalizeMarkKeepsInv, SyncKeepsInv, MountKeepsInv,
       NoFlashKeepsInv, RemoveStagingKeepsInv, TouchInitKeepsInv, RmTreeKeepsInv, CopyTreeKeepsInv,
       CopyDoneKeepsInv, CommandFailsKeepsInv
    DEF UpdatedNext, Quiet
<1>f. CASE FlashAgnosUpdate
    BY <1>f, ClearHashKeepsInv, ExtractKeepsInv, ExtractDoneKeepsInv, WriteHashKeepsInv, RetryKeepsInv
    DEF FlashAgnosUpdate
<1>3. CASE LaunchNext
    BY <1>3, MvBaseKeepsInv, MvFinalizedKeepsInv, NoSwapKeepsInv, SwapClearHashKeepsInv,
       SwapSetActiveKeepsInv, UpdaterFailsKeepsInv DEF LaunchNext
<1>4. CASE Kill \/ Reboot \/ PowerLoss \/ EditBase \/ Release
    BY <1>4, KillKeepsInv, RebootKeepsInv, PowerLossKeepsInv, EditBaseKeepsInv, ReleaseKeepsInv
<1> QED BY <1>1, <1>2, <1>f, <1>3, <1>4 DEF Next

(* Wherever updated and the launch script are, each state the disk may be  *)
(* in is bootable, and the flag is off while the staging area is changed.  *)
THEOREM UpdatedInv == Spec => []UInv
<1>1. Init => UInv BY InitHasInv
<1>2. UInv /\ [Next]_vars => UInv' BY NextKeepsInv
<1> QED BY <1>1, <1>2, PTL DEF Spec

(* The variables of the updater have their types; updated works in the     *)
(* staging area only under a mounted overlay.                              *)
THEOREM UpdatedTypeCorrect == Spec => []TypeOK
<1>1. UInv => TypeOK BY DEF UInv
<1> QED BY <1>1, UpdatedInv, PTL

(* Every disk that a power loss may leave is in order.                     *)
LEMMA PossibleOK == ASSUME UInv, NEW d \in Possible PROVE d \in Disk /\ Bootable(d) /\ Ready(d)
<1>1. PICK b \in behind : d \in After(b) BY DEF Possible
<1> QED BY <1>1, AfterOK DEF UInv, TypeOK, DiskOK

(* A power loss at any step of an update or of the swap leaves a complete  *)
(* version to boot, or both beside an empty BASEDIR.                       *)
THEOREM UpdatedBootsWhole == Spec => []BootsWhole
<1>1. UInv => BootsWhole
    BY PossibleOK DEF BootsWhole, Bootable, OnDisk, Whole
<1> QED BY <1>1, UpdatedInv, PTL

(* Whatever the flag marks in an overlay that is current can be installed  *)
(* at the next boot, with its operating system.                            *)
THEOREM UpdatedReadyMeansReady == Spec => []ReadyMeansReady
<1>1. UInv => ReadyMeansReady
  <2> SUFFICES ASSUME UInv, NEW d \in Possible, Marked(d)
               PROVE  /\ d.finalized # None /\ Whole(d.finalized)
                      /\ \/ AGNOS_VERSION[d.finalized.ver] = os
                         \/ \A s \in slots : /\ s.hash = AGNOS_VERSION[d.finalized.ver]
                                            /\ s.image \in {AGNOS_VERSION[d.finalized.ver], "torn"}
                      /\ d.old_openpilot = None
      BY DEF ReadyMeansReady, Marked
  <2>1. Ready(d) /\ slot \in slots BY PossibleOK DEF UInv, TypeOK
  <2> QED BY <2>1 DEF Ready, ReadyWith, OnDisk, OsReady, Whole
<1> QED BY <1>1, UpdatedInv, PTL

(* The launch script never replaces a BASEDIR that was edited after        *)
(* updated mounted the overlay over it.                                    *)
THEOREM UpdatedEditsKept == Spec => []EditsKept
<1>1. UInv => EditsKept
  <2> SUFFICES ASSUME UInv, NEW d \in Possible, Installable(d) PROVE ~d.edited
      BY DEF EditsKept
  <2>1. Ready(d) /\ slot \in slots BY PossibleOK DEF UInv, TypeOK
  <2> QED BY <2>1 DEF Ready, ReadyWith, Marked, Installable
<1> QED BY <1>1, UpdatedInv, PTL
=============================================================================
