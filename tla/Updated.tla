------------------------------ MODULE Updated ------------------------------
(***************************************************************************)
(* The updater (updated.py) prepares a new version beside the one that     *)
(* runs; the launch script swaps the two directories at the next boot, and *)
(* the OS image (agnos.py) is prepared in the slot that is not in use.     *)
(*                                                                         *)
(* updated may be killed, the device rebooted and power lost at any step.  *)
(* What a power loss leaves is any state of the disk since the last        *)
(* os.sync, in the order of the operations on directories, with the files  *)
(* written since then possibly incomplete; and of the writes to the slot   *)
(* since then any part.                                                    *)
(*                                                                         *)
(* Release notes, the alerts on failures and the names of branches are     *)
(* left out: a version is a commit of the target branch, remote its head.  *)
(***************************************************************************)
EXTENDS Naturals

CONSTANTS
    Released,       \* the versions the server may offer
    Local,          \* the version a user makes by editing BASEDIR
    OSes,
    AGNOS_VERSION,  \* version -> the OS it needs (launch_env.sh)
    Budgets         \* bounds of a behaviour

Versions == Released \cup {Local}
Counters == {"kills", "losses", "fails", "edits", "pushes", "skips"}

(* No commit is called "none".                                             *)
ASSUME VersionsAssumption == Local \notin Released /\ Released # {} /\ "none" \notin Versions
ASSUME OSAssumption       == /\ AGNOS_VERSION \in [Versions -> OSes]
                             /\ {"none", "broken", "torn"} \cap OSes = {}
ASSUME BudgetsAssumption  == Budgets \subseteq [Counters -> Nat]

VARIABLES
    fs,         \* the file system as processes see it
    behind,     \* what the disk may hold after a power loss
    slot,       \* the OS slot that is not in use, as processes see it
    slots,      \* what that slot may hold after a power loss
    os,         \* the OS in the active slot
    boot,       \* where the launch script is; "up" with the manager, "halt" without an OS
    up,         \* updated: where it is and what it remembers
    merged,     \* the overlay's merged view, none unless mounted
    offer,      \* the parameter UpdateAvailable
    remote,     \* the head of the target branch
    left        \* what is left of the budget

vars  == <<fs, behind, slot, slots, os, boot, up, merged, offer, remote, left>>
spare == <<slot, slots>>
disk  == <<fs, behind, spare>>

(* A directory: the version in it and whether that is complete on disk,    *)
(* complete but in the page cache, or incomplete.  Auxiliary: edited says  *)
(* that a user changed BASEDIR/.git after the overlay was mounted over it. *)
None     == [ver |-> "none", state |-> "whole"]
Tree     == {None} \cup [ver : Versions, state : {"whole", "cached", "broken"}]
Disk     == [base : Tree, finalized : Tree, old_openpilot : Tree,
             overlay_consistent : BOOLEAN, edited : BOOLEAN,
             overlay_init : {"none", "current", "stale"}]    \* stale: .git is newer

(* A slot stands for the partition that is verified by the hash written    *)
(* behind its image (full_check is false).  Auxiliary: "torn" is an image  *)
(* that is not the one its hash names, because power was lost.             *)
Slot     == [hash : OSes \cup {"none"}, image : OSes \cup {"broken", "torn"}]

Whole(t)   == t.state \in {"whole", "cached"}
Break(t)   == IF t = None THEN None ELSE [t EXCEPT !.state = "broken"]
Settle(t)  == IF t.state = "cached" THEN [t EXCEPT !.state = "whole"] ELSE t
Outcome(t) == IF t.state = "cached" THEN {Settle(t), Break(t)} ELSE {t}

Synced(d)  == [d EXCEPT !.finalized = Settle(@)]
With(d, f) == [d EXCEPT !.finalized = f]
After(d)   == {With(d, f) : f \in Outcome(d.finalized)}
Lost(s)    == IF s.hash \in {"none", s.image} THEN s ELSE [s EXCEPT !.image = "torn"]

Write(d)   == fs' = d /\ behind' = behind \cup {d} /\ UNCHANGED spare
SyncFs     == fs' = Synced(fs) /\ behind' = {Synced(fs)}
Sync       == SyncFs /\ slot' = slot /\ slots' = {slot}

Spend(c)   == left[c] > 0 /\ left' = [left EXCEPT ![c] = @ - 1]
Go(from, to) == up.pc = from /\ up' = [up EXCEPT !.pc = to]
----------------------------------------------------------------------------
(* set_consistent_flag: sync, touch or unlink, sync.                       *)

(* Mutant: no sync before the flag is touched.                             *)
MarkUnsynced(flag) == Write([fs EXCEPT !.overlay_consistent = flag])

Mark(flag) == LET d == [Synced(fs) EXCEPT !.overlay_consistent = flag]
              IN  fs' = d /\ behind' = {Synced(fs), d} /\ slot' = slot /\ slots' = {slot}

SetConsistentFlag(from, to, flag) ==
    /\ boot = "up" /\ Go(from, to)
    /\ Mark(flag)
    /\ UNCHANGED <<os, boot, merged, offer, remote, left>>

SyncFlag(from, to) ==
    /\ boot = "up" /\ Go(from, to)
    /\ Sync
    /\ UNCHANGED <<os, boot, merged, offer, remote, left>>
----------------------------------------------------------------------------
(* main: a finalized update of an earlier instance is not trusted.         *)
MainStart      == SetConsistentFlag("off", "started", FALSE)
MainStartSync  == SyncFlag("started", "loop")

(* init_overlay: an overlay that is mounted is kept unless BASEDIR/.git    *)
(* has changed since; otherwise the staging area is made anew.             *)
OverlayValid == fs.overlay_init = "current" /\ merged # None

KeepOverlay ==
    /\ boot = "up" /\ OverlayValid
    /\ Go("loop", "params")
    /\ UNCHANGED <<disk, os, boot, merged, offer, remote, left>>

ClearOffer ==
    /\ boot = "up" /\ ~OverlayValid
    /\ Go("loop", "cleared")
    /\ offer' = FALSE
    /\ Mark(FALSE)
    /\ UNCHANGED <<os, boot, merged, remote, left>>

ClearOfferSync == SyncFlag("cleared", "dismount")

(* dismount_overlay, then rm -rf of the staging area, which is not atomic. *)
RemoveStaging ==
    /\ boot = "up" /\ Go("dismount", "rm")
    /\ merged' = None
    /\ Write([fs EXCEPT !.finalized = Break(@), !.old_openpilot = Break(@)])
    /\ UNCHANGED <<os, boot, offer, remote, left>>

(* The staging area is gone; the canary is touched in BASEDIR.             *)
TouchInit ==
    /\ boot = "up" /\ Go("rm", "mount")
    /\ Write([fs EXCEPT !.finalized = None, !.old_openpilot = None,
                        !.overlay_consistent = FALSE, !.overlay_init = "current"])
    /\ UNCHANGED <<os, boot, merged, offer, remote, left>>

(* Sync and mount: the merged view is that of BASEDIR.                     *)
MountOverlay ==
    /\ boot = "up" /\ Go("mount", "params")
    /\ fs' = [Synced(fs) EXCEPT !.edited = FALSE] /\ behind' = {fs'}
    /\ slot' = slot /\ slots' = {slot}
    /\ merged' = fs.base
    /\ UNCHANGED <<os, boot, offer, remote, left>>
----------------------------------------------------------------------------
(* set_params: update_ready becomes UpdateAvailable.  branches is empty    *)
(* until the first check, and equals no commit then.                       *)
UpdateReady == /\ fs.overlay_consistent
               /\ fs.base.ver # up.branches

(* The first run stops here, and so does one without a valid time.         *)
SetParams ==
    /\ boot = "up" /\ up.pc = "params"
    /\ offer' = UpdateReady
    /\ up' = [up EXCEPT !.pc = IF up.first_run THEN "loop" ELSE "check", !.first_run = FALSE]
    /\ UNCHANGED <<disk, os, boot, merged, remote, left>>

NoValidTime ==
    /\ boot = "up" /\ Go("params", "loop") /\ ~up.first_run
    /\ offer' = UpdateReady
    /\ Spend("skips")
    /\ UNCHANGED <<disk, os, boot, merged, remote>>

(* check_for_update: what the server has now.                              *)
CheckForUpdate ==
    /\ boot = "up" /\ up.pc = "check"
    /\ up' = [up EXCEPT !.pc = "decide", !.branches = remote]
    /\ UNCHANGED <<disk, os, boot, merged, offer, remote, left>>

(* On a metered connection, or when only a check was asked for, the fetch  *)
(* is skipped; after three days it is not.                                 *)
SkipFetch ==
    /\ boot = "up" /\ Go("decide", "report")
    /\ Spend("skips")
    /\ UNCHANGED <<disk, os, boot, merged, offer, remote>>

(* fetch_update: invalidate, then fetch and check out in the merged view.  *)
FetchStart == SetConsistentFlag("decide", "fetch", FALSE)

FetchSync ==
    /\ boot = "up" /\ Go("fetch", "git")
    /\ Sync
    /\ offer' = FALSE
    /\ UNCHANGED <<os, boot, merged, remote, left>>

(* An index.lock that a killed git left stops checkout and reset, not the  *)
(* fetch before them.                                                      *)
GitFetch ==
    /\ boot = "up" /\ Go("git", "checkout")
    /\ merged' = IF merged.state \in {"edited", "locked"} THEN merged
                 ELSE [ver |-> remote, state |-> "broken"]
    /\ UNCHANGED <<disk, os, boot, offer, remote, left>>

GitReset ==
    /\ boot = "up" /\ merged.state # "locked"
    /\ Go("checkout", "handle_agnos")
    /\ merged' = IF merged.state = "edited" THEN merged ELSE [merged EXCEPT !.state = "whole"]
    /\ UNCHANGED <<disk, os, boot, offer, remote, left>>
----------------------------------------------------------------------------
(* agnos.py, for updated (handle_agnos_update, in the background) and for  *)
(* the launch script (agnos.py --swap).                                    *)
Wanted   == AGNOS_VERSION[IF boot = "up" THEN merged.ver ELSE fs.base.ver]
Verified == slot.hash = Wanted

NoFlash ==
    /\ boot = "up" /\ Go("handle_agnos", "finalize")
    /\ \/ Wanted = os /\ UNCHANGED disk
       \/ Wanted # os /\ Verified /\ Sync
    /\ UNCHANGED <<os, boot, merged, offer, remote, left>>

InStep(from, to) == \/ boot = "up" /\ Go(from, to) /\ UNCHANGED boot
                    \/ boot = from /\ boot' = to /\ UNCHANGED up

(* clear_partition_hash syncs while the zeros are still in the buffer of   *)
(* the file: they reach the page cache when it is closed, after that.      *)
ClearHash ==
    /\ \/ boot = "up" /\ Go("handle_agnos", "flash") /\ UNCHANGED boot
       \/ boot = "agnos" /\ boot' = "flash" /\ UNCHANGED up
    /\ Wanted # os /\ ~Verified
    /\ SyncFs
    /\ slot' = [slot EXCEPT !.hash = "none"] /\ slots' = {slot, slot'}
    /\ UNCHANGED <<os, merged, offer, remote, left>>

(* extract_compressed_image: the kernel may write any chunk to disk before *)
(* the hash that is cleared.                                               *)
Extract ==
    /\ InStep("flash", "extract")
    /\ slot' = [slot EXCEPT !.image = "broken"]
    /\ slots' = slots \cup {[s EXCEPT !.image = "broken"] : s \in slots}
    /\ UNCHANGED <<fs, behind, os, merged, offer, remote, left>>

(* Its sync, too, comes before the file is closed and the end of the image *)
(* is written.                                                             *)
ExtractDone ==
    /\ InStep("extract", "extracted")
    /\ SyncFs
    /\ slot' = [slot EXCEPT !.image = Wanted] /\ slots' = {slot, slot'}
    /\ UNCHANGED <<os, merged, offer, remote, left>>

WriteHash ==
    /\ \/ boot = "up" /\ Go("extracted", "finalize") /\ UNCHANGED boot
       \/ boot = "extracted" /\ boot' = "agnos" /\ UNCHANGED up
    /\ slot' = [slot EXCEPT !.hash = Wanted]
    /\ slots' = slots \cup {[s EXCEPT !.hash = Wanted] : s \in slots}
    /\ UNCHANGED <<fs, behind, os, merged, offer, remote, left>>

(* flash_agnos_update tries a failed download again, from the start.       *)
Retry ==
    /\ \/ /\ boot = "up" /\ up.pc \in {"flash", "extract"} /\ UNCHANGED boot
          /\ up' = [up EXCEPT !.pc = "handle_agnos"]
       \/ boot \in {"flash", "extract"} /\ boot' = "agnos" /\ UNCHANGED up
    /\ Spend("fails")
    /\ UNCHANGED <<disk, os, merged, offer, remote>>

(* Mutant: too many failed downloads do not raise.                         *)
FlashAgnosUpdateGivesUp ==
    \/ ClearHash \/ Extract \/ ExtractDone \/ WriteHash \/ Retry
    \/ boot = "up" /\ Go("flash", "finalize") /\ UNCHANGED <<disk, os, boot, merged, offer, remote, left>>

FlashAgnosUpdate == ClearHash \/ Extract \/ ExtractDone \/ WriteHash \/ Retry
----------------------------------------------------------------------------
(* finalize_update: invalidate, remove the old copy, copy the merged view  *)
(* and reset it, set the flag.                                             *)
FinalizeStart == SetConsistentFlag("finalize", "finalize2", FALSE)
FinalizeSync  == SyncFlag("finalize2", "rmtree")

RmTree ==
    /\ boot = "up" /\ Go("rmtree", "copy")
    /\ Write([fs EXCEPT !.finalized = Break(@)])
    /\ UNCHANGED <<os, boot, merged, offer, remote, left>>

CopyTree ==
    /\ boot = "up" /\ Go("copy", "copying")
    /\ Write([fs EXCEPT !.finalized = Break(merged)])
    /\ UNCHANGED <<os, boot, merged, offer, remote, left>>

CopyDone ==
    /\ boot = "up" /\ Go("copying", "ready")
    /\ Write([fs EXCEPT !.finalized =
                 [ver |-> merged.ver, state |-> IF Whole(merged) THEN "cached" ELSE "broken"]])
    /\ UNCHANGED <<os, boot, merged, offer, remote, left>>

FinalizeMark    == SetConsistentFlag("ready", "ready2", TRUE)
FinalizeMarked  == SyncFlag("ready2", "report")

(* Any command may fail: the exception removes the canary, so that the     *)
(* next run makes a new overlay, and the loop goes on.  A merged view in   *)
(* which git was killed may keep a lock, and git fails there from then on. *)
Steps == {"loop", "dismount", "rm", "mount", "params", "check", "git", "checkout",
          "handle_agnos", "flash", "extract", "rmtree", "copy", "copying"}

Fails == /\ boot = "up" /\ up.pc \in Steps
         /\ \/ up.pc = "checkout" /\ merged.state = "locked" /\ UNCHANGED left
            \/ Spend("fails")
         /\ up' = [up EXCEPT !.pc = "report"]

(* Mutant: the canary survives a failure.                                  *)
CommandFailsKeepsInit == Fails /\ UNCHANGED <<disk, os, boot, merged, offer, remote>>

CommandFails ==
    /\ Fails
    /\ Write([fs EXCEPT !.overlay_init = "none"])
    /\ UNCHANGED <<os, boot, merged, offer, remote>>

(* The last set_params of a run; it then sleeps until the next one.        *)
Report ==
    /\ boot = "up" /\ Go("report", "sleep")
    /\ offer' = UpdateReady
    /\ UNCHANGED <<disk, os, boot, merged, remote, left>>

WakeUp ==
    /\ boot = "up" /\ Go("sleep", "loop")
    /\ UNCHANGED <<disk, os, boot, merged, offer, remote, left>>
----------------------------------------------------------------------------
(* The launch script.                                                      *)

(* Mutant: .git newer than the canary is not looked at.                    *)
InstallableUnchecked(d) == d.overlay_init # "none" /\ d.overlay_consistent /\ d.old_openpilot = None

Installable(d) == d.overlay_init = "current" /\ d.overlay_consistent /\ d.old_openpilot = None

MvBase ==
    /\ boot = "launch" /\ fs.base # None /\ Installable(fs)
    /\ boot' = "swap"
    /\ Write([fs EXCEPT !.old_openpilot = fs.base, !.base = None, !.overlay_init = "none"])
    /\ UNCHANGED <<os, up, merged, offer, remote, left>>

(* git clean has removed the canary from the version that is moved in.     *)
MvFinalized ==
    /\ boot = "swap"
    /\ boot' = "launch"
    /\ Write([fs EXCEPT !.base = fs.finalized, !.finalized = None, !.overlay_consistent = FALSE,
                        !.edited = FALSE])
    /\ UNCHANGED <<os, up, merged, offer, remote, left>>

NoSwap ==
    /\ boot = "launch" /\ fs.base # None /\ ~Installable(fs)
    /\ boot' = "agnos"
    /\ UNCHANGED <<disk, os, up, merged, offer, remote, left>>

(* agnos_init; the manager, once started, clears UpdateAvailable.          *)
StartManager ==
    /\ boot = "agnos" /\ Wanted = os
    /\ boot' = "up"
    /\ offer' = FALSE
    /\ UNCHANGED <<disk, os, up, merged, remote, left>>

(* agnos.py --verify, and the end of --swap: swap clears the hashes, in    *)
(* the same way, then sets the slot active; then the device reboots.       *)
SwapClearHash ==
    /\ boot = "agnos" /\ Wanted # os /\ Verified
    /\ boot' = "cleared"
    /\ SyncFs
    /\ slot' = [slot EXCEPT !.hash = "none"] /\ slots' = {slot, slot'}
    /\ UNCHANGED <<os, up, merged, offer, remote, left>>

(* The slot in use so far is the spare one now; what became of its own     *)
(* hash when it was made active is not known.                              *)
SwapSetActive ==
    /\ boot = "cleared"
    /\ boot' = IF slot.image \in OSes THEN "launch" ELSE "halt"
    /\ SyncFs
    /\ os' = slot.image
    /\ slot' \in {[hash |-> h, image |-> os] : h \in {"none", os}} /\ slots' = {slot'}
    /\ UNCHANGED <<up, merged, offer, remote, left>>

(* The graphical updater, with agnos.py --swap, runs when --verify fails;  *)
(* when it fails in its turn the user is offered a reboot.                 *)
UpdaterFails ==
    /\ boot \in {"flash", "extract"} /\ Spend("fails")
    /\ boot' = "launch"
    /\ Sync
    /\ UNCHANGED <<os, up, merged, offer, remote>>
----------------------------------------------------------------------------
(* The world around: the manager stops updated when the car starts, users  *)
(* reboot and edit, power is lost, new versions are released.              *)
Off == [pc |-> "off", first_run |-> TRUE, branches |-> "none"]

Kill ==
    /\ boot = "up" /\ up.pc # "off"
    /\ Spend("kills")
    /\ up' = Off
    /\ offer' \in {offer, FALSE}
    /\ merged' \in {merged} \cup IF up.pc = "checkout" THEN {[merged EXCEPT !.state = "locked"]} ELSE {}
    /\ UNCHANGED <<disk, os, boot, remote>>

Restart == boot' = "launch" /\ up' = Off /\ merged' = None

Reboot ==
    /\ boot = "up" /\ Restart
    /\ Sync
    /\ UNCHANGED <<os, offer, remote, left>>

PowerLoss ==
    /\ boot # "halt" /\ Spend("losses") /\ Restart
    /\ \E d \in UNION {After(b) : b \in behind} : fs' = d /\ behind' = {d}
    /\ slot' \in {Lost(s) : s \in slots} /\ slots' = {slot'}
    /\ UNCHANGED <<os, offer, remote>>

(* Below a mounted overlay an edit leaves the merged view undefined, until *)
(* the overlay is made anew.                                               *)
EditBase ==
    /\ boot = "up" /\ Spend("edits")
    /\ Write([fs EXCEPT !.base = [ver |-> Local, state |-> "whole"],
                        !.edited = TRUE,
                        !.overlay_init = IF @ = "none" THEN "none" ELSE "stale"])
    /\ merged' = IF merged = None \/ merged.state = "locked" THEN merged
                 ELSE [merged EXCEPT !.state = "edited"]
    /\ UNCHANGED <<os, boot, up, offer, remote>>

Release ==
    /\ Spend("pushes")
    /\ remote' \in Released \ {remote}
    /\ UNCHANGED <<disk, os, boot, up, merged, offer>>
----------------------------------------------------------------------------
Init ==
    /\ \E v \in Released :
        /\ fs = [base |-> [ver |-> v, state |-> "whole"], finalized |-> None, old_openpilot |-> None,
                 overlay_consistent |-> FALSE, edited |-> FALSE, overlay_init |-> "none"]
        /\ os = AGNOS_VERSION[v]
        /\ remote = v
    /\ behind = {fs}
    /\ slot \in {[hash |-> "none", image |-> "broken"]} \cup {[hash |-> o, image |-> o] : o \in OSes}
    /\ slots = {slot}
    /\ boot = "up"
    /\ up = Off
    /\ merged = None
    /\ offer = FALSE
    /\ left \in Budgets

UpdatedNext ==
    \/ MainStart \/ MainStartSync
    \/ KeepOverlay \/ ClearOffer \/ ClearOfferSync \/ RemoveStaging \/ TouchInit \/ MountOverlay
    \/ SetParams \/ NoValidTime \/ CheckForUpdate \/ SkipFetch \/ FetchStart \/ FetchSync \/ GitFetch \/ GitReset
    \/ NoFlash
    \/ FinalizeStart \/ FinalizeSync \/ RmTree \/ CopyTree \/ CopyDone
    \/ FinalizeMark \/ FinalizeMarked
    \/ CommandFails \/ Report \/ WakeUp

LaunchNext ==
    \/ MvBase \/ MvFinalized \/ NoSwap
    \/ StartManager \/ SwapClearHash \/ SwapSetActive
    \/ UpdaterFails

Next ==
    \/ UpdatedNext \/ FlashAgnosUpdate \/ LaunchNext
    \/ Kill \/ Reboot \/ PowerLoss \/ EditBase \/ Release

Spec == Init /\ [][Next]_vars

(* The manager keeps updated running and the script runs to its end; users *)
(* need never reboot.                                                      *)
FairSpec == Spec /\ WF_vars(UpdatedNext) /\ WF_vars(FlashAgnosUpdate) /\ WF_vars(LaunchNext)
----------------------------------------------------------------------------
(* The variables have their types, and updated works in the staging area   *)
(* only while the overlay is mounted there.                                *)
InOverlay == {"params", "check", "decide", "fetch", "git", "checkout", "handle_agnos",
              "flash", "extract", "extracted", "finalize", "finalize2", "rmtree", "copy", "copying", "ready", "ready2"}

TypeOK ==
    /\ fs \in Disk /\ behind \subseteq Disk /\ fs \in behind
    /\ slot \in Slot /\ slots \subseteq Slot /\ slot \in slots
    /\ os \in OSes \cup {"broken", "torn"}
    /\ boot \in {"launch", "swap", "agnos", "flash", "extract", "extracted", "cleared", "up", "halt"}
    /\ up \in [pc : InOverlay \cup {"off", "started", "loop", "cleared", "dismount", "rm", "mount",
                                   "report", "sleep"},
               first_run : BOOLEAN, branches : Released \cup {"none"}]
    /\ merged \in {None} \cup [ver : Versions, state : {"whole", "broken", "locked", "edited"}]
    /\ up.pc \in InOverlay => merged # None
    /\ offer \in BOOLEAN
    /\ remote \in Released
    /\ left \in [Counters -> Nat]

(* What the disk may hold if power is lost now.                            *)
Possible == UNION {After(d) : d \in behind}

(* However the power is lost, and whatever updated was doing, what boots   *)
(* is complete; without a BASEDIR, when power is lost between the two      *)
(* renames, the old and the new version are both complete beside it.       *)
BootsWhole ==
    \A d \in Possible :
        \/ d.base # None /\ Whole(d.base)
        \/ d.base = None /\ \A t \in {d.finalized, d.old_openpilot} : t # None /\ Whole(t)

(* A version marked as consistent, in an overlay nobody edited below, is   *)
(* complete after any power loss, and nothing holds it up: the OS it needs *)
(* runs, or the other slot has its hash for good and with it the image,    *)
(* unless power was lost in the middle of an earlier flash (see            *)
(* ActivatesWhole); and there is no backup of the version before           *)
(* ("openpilot backup found, not updating").                               *)
ReadyMeansReady ==
    \A d \in Possible :
        d.overlay_consistent /\ d.overlay_init = "current" =>
            /\ d.finalized # None /\ Whole(d.finalized)
            /\ LET need == AGNOS_VERSION[d.finalized.ver]
               IN  need = os \/ \A s \in slots : s.hash = need /\ s.image \in {need, "torn"}
            /\ d.old_openpilot = None

(* "This checks for local development work ... which should not be         *)
(* overwritten": whenever power is lost or the device reboots, the launch  *)
(* script does not replace a BASEDIR whose .git was changed since updated  *)
(* took its copy, however far the update was by then.                      *)
EditsKept == \A d \in Possible : d.base # None /\ Installable(d) => ~d.edited

(* "Clear hash before flashing in case we get interrupted": an image that  *)
(* was interrupted is never taken for complete and made active.            *)
ActivatesWhole == os # "torn"

(* On a device that stays up after the last failure, kill, edit and        *)
(* release, the newest version is again and again running or ready to be   *)
(* installed by the next boot.                                             *)
UpdateGetsReady ==
    <>[](boot = "up") =>
        []<>(fs.base.ver = remote \/ (fs.finalized.ver = remote /\ Installable(fs)))
=============================================================================
