-------------------------------- MODULE Msgq --------------------------------
(***************************************************************************)
(* msgq: a ring of 8-byte words in shared memory, written by one publisher *)
(* and copied from by its readers, without a lock.  A message is a tag     *)
(* with its size and that many words.  The publisher clears the validity   *)
(* flag of every reader in the area that it is about to overwrite; a       *)
(* reader looks at its flag after each thing it has read.                  *)
(*                                                                         *)
(* Every step is one access to shared memory (or a few to a slot that only *)
(* its reader acts on); accesses are sequentially consistent, as those of  *)
(* std::atomic are.  The publisher and the readers are processes: they     *)
(* come up in any order and may be killed and started again at any step.   *)
(***************************************************************************)
EXTENDS Integers, Sequences, FiniteSets

CONSTANTS
    Readers,
    Lossy,          \* the readers with read_conflate
    Size,           \* q->size, in words
    Sizes,          \* the sizes of messages, in words, without the tag
    NUM_READERS,    \* slots in the header
    Budgets         \* bounds of a behaviour: how often the publisher and readers come
                    \* up, and the sizes of the messages that are sent

ASSUME LossyAssumption == Lossy \subseteq Readers
ASSUME SizeAssumption  == Size \in Nat \ {0} /\ Sizes \subseteq Nat \ {0}
(* assert(3 * total_msg_size <= q->size) of msgq_msg_send.                 *)
ASSUME ThreeFit        == \A size \in Sizes : 3 * (size + 1) <= Size
ASSUME SlotsAssumption == NUM_READERS \in Nat \ {0}
ASSUME BudgetsAssumption == Budgets \subseteq [starts : Nat, joins : [Readers -> Nat], sends : Seq(Sizes)]

Slots   == 1 .. NUM_READERS
Nobody  == "nobody"     \* a read_uid of 0, which no thread has
ASSUME NobodyAssumption == Nobody \notin Readers
Backlog == 1            \* the last message is always safe to read

VARIABLES
    num_readers, write_pointer,
    slot,           \* the header's read_pointers, read_valids and read_uids
    ring,           \* q->data
    pub,            \* where the publisher is in its code, and its locals
    rd,             \* the same, for each reader (fresh: its subscription is new)
    left,           \* what is left of the budget
    log, got, lagged, adrift        \* history: see Channel

shared  == <<num_readers, write_pointer, slot, ring>>
history == <<log, got, lagged, adrift>>
vars    == <<shared, pub, rd, left, history>>

Pointer == [cycles : Nat, ptr : 0 .. Size - 1]
Zero    == [cycles |-> 0, ptr |-> 0]

(* A word is a size tag, a wraparound tag, or the k-th word of message m.  *)
SizeTag(n)    == [kind |-> "size", n |-> n, msg |-> 0]
WrapTag       == [kind |-> "wrap", n |-> 0, msg |-> 0]
Payload(m, k) == [kind |-> "data", n |-> k, msg |-> m]

Message(m) == [k \in 1 .. log[m] |-> Payload(m, k)]

Channel == INSTANCE Channel WITH joining <- {r \in Readers : rd[r].fresh}
----------------------------------------------------------------------------
(* The publisher.                                                          *)

Total == pub.size + 1
Idle  == [pc |-> "idle", size |-> 0, n |-> 0, i |-> 0, dirty |-> FALSE]

(* remaining_space: there is always room for the next wraparound tag.      *)
MustWrap(size) == Size - write_pointer.ptr - (size + 1) - 1 <= 0

(* History only.  How far the publisher goes without a further look at     *)
(* reader r, and whether that leaves a pointer of r behind by more than a  *)
(* lap.                                                                    *)
Wrapping == pub.pc \in {"beyond", "beyond_clear", "cycle"}
Evicting == pub.pc \in {"evict", "evict_clear"}
Reach(r) ==
    CASE (pub.pc = "wrap" \/ Wrapping) /\ rd[r].id > pub.n ->
             [cycles |-> write_pointer.cycles + 1, ptr |-> Total]
      [] Wrapping /\ rd[r].id <= pub.n /\ pub.i > rd[r].id -> [write_pointer EXCEPT !.ptr = Size]
      [] pub.dirty \/ (Evicting /\ rd[r].id \notin pub.i .. pub.n) ->
             [write_pointer EXCEPT !.ptr = @ + Total]
      [] OTHER -> write_pointer

Passed(r, p) == \/ Reach(r).cycles > p.cycles + 1
                \/ Reach(r).cycles = p.cycles + 1 /\ Reach(r).ptr > p.ptr

(* History only.  A reader whose slot another process clears is adrift: it *)
(* may find its flag off before its uid is, and skip what it has not read. *)
Holders(i) == {r \in Readers : rd[r].id = i}

(* A publisher process comes up: msgq_init_publisher.                      *)
PubStart == /\ pub.pc = "off" /\ left.starts > 0
            /\ left' = [left EXCEPT !.starts = @ - 1]
            /\ num_readers' = 0
            /\ pub' = [pub EXCEPT !.pc = "init", !.i = 1]
            /\ UNCHANGED <<write_pointer, slot, ring, rd, history>>

PubClear ==
    /\ \/ /\ pub.pc = "init"
          /\ slot' = [slot EXCEPT ![pub.i].valid = FALSE]
          /\ pub' = [pub EXCEPT !.pc = "init_uid"]
          /\ adrift' = adrift \cup Holders(pub.i)
       \/ /\ pub.pc = "init_uid"
          /\ slot' = [slot EXCEPT ![pub.i].uid = Nobody]
          /\ pub' = IF pub.i = NUM_READERS THEN Idle ELSE [pub EXCEPT !.pc = "init", !.i = @ + 1]
          /\ UNCHANGED adrift
    /\ UNCHANGED <<num_readers, write_pointer, ring, rd, left, log, got, lagged>>

(* Killed, wherever it is; what it wrote stays in shared memory.           *)
PubKill == /\ pub.pc # "off" /\ left.starts > 0
           /\ pub' = [Idle EXCEPT !.pc = "off", !.dirty = pub.dirty,
                                  !.size = IF pub.dirty THEN pub.size ELSE 0]
           /\ UNCHANGED <<shared, rd, left, history>>

(* Start of msgq_msg_send.  A reader that it does not count, although the  *)
(* reader believes itself subscribed, is adrift.                           *)
SendBegin ==
    /\ pub.pc = "idle" /\ left.sends # << >>
    /\ left' = [left EXCEPT !.sends = Tail(@)]
    /\ LET size == Head(left.sends) IN
           pub' = [pub EXCEPT !.size = size, !.n = num_readers, !.i = 1,
                      !.pc = IF MustWrap(size) THEN "wrap" ELSE "evict"]
    /\ lagged' = lagged \cup {r \in Readers : Len(log) - got[r] > Backlog}
    /\ adrift' = adrift \cup {r \in Readers : rd[r].id > num_readers}
    /\ UNCHANGED <<shared, rd, log, got>>

SendWrap == /\ pub.pc = "wrap"
            /\ ring' = [ring EXCEPT ![write_pointer.ptr] = WrapTag]
            /\ pub' = [pub EXCEPT !.pc = "beyond"]
            /\ UNCHANGED <<num_readers, write_pointer, slot, rd, left, history>>

(* The two loops over the readers: each loads a reader's pointer, and      *)
(* clears its flag if the pointer is in the way.                           *)
BeyondWrite(p) == p.ptr > write_pointer.ptr /\ p.cycles # write_pointer.cycles

(* Mutant: the cycles are forgotten, which also hits a reader that has     *)
(* read everything.                                                        *)
InTheWayAnyCycle(p) == /\ p.ptr >= write_pointer.ptr
                       /\ p.ptr < write_pointer.ptr + Total

InTheWay(p) == /\ p.ptr >= write_pointer.ptr
               /\ p.ptr < write_pointer.ptr + Total
               /\ p.cycles # write_pointer.cycles

Loop(pc, Hit(_), clear, next) ==
    \/ /\ pub.pc = pc /\ pub.i <= pub.n
       /\ pub' = IF Hit(slot[pub.i].pointer) THEN [pub EXCEPT !.pc = clear]
                                             ELSE [pub EXCEPT !.i = @ + 1]
       /\ UNCHANGED <<shared, rd, left, history>>
    \/ /\ pub.pc = clear
       /\ slot' = [slot EXCEPT ![pub.i].valid = FALSE]
       /\ pub' = [pub EXCEPT !.pc = pc, !.i = @ + 1]
       /\ UNCHANGED <<num_readers, write_pointer, ring, rd, left, history>>
    \/ /\ pub.pc = pc /\ pub.i > pub.n
       /\ pub' = [pub EXCEPT !.pc = next, !.i = IF next = "tag" THEN 1 ELSE @, !.dirty = (next = "tag")]
       /\ UNCHANGED <<shared, rd, left, history>>

SendBeyond == Loop("beyond", BeyondWrite, "beyond_clear", "cycle")
SendEvict  == Loop("evict", InTheWay, "evict_clear", "tag")

SendCycle == /\ pub.pc = "cycle"
             /\ write_pointer' = [cycles |-> write_pointer.cycles + 1, ptr |-> 0]
             /\ pub' = [pub EXCEPT !.pc = "evict", !.i = 1]
             /\ UNCHANGED <<num_readers, slot, ring, rd, left, history>>

SendTag == /\ pub.pc = "tag"
           /\ ring' = [ring EXCEPT ![write_pointer.ptr] = SizeTag(pub.size)]
           /\ pub' = [pub EXCEPT !.pc = "data"]
           /\ UNCHANGED <<num_readers, write_pointer, slot, rd, left, history>>

SendData == /\ pub.pc = "data"
            /\ ring' = [ring EXCEPT ![write_pointer.ptr + pub.i] = Payload(Len(log) + 1, pub.i)]
            /\ pub' = IF pub.i = pub.size THEN [pub EXCEPT !.pc = "done"]
                                          ELSE [pub EXCEPT !.i = @ + 1]
            /\ UNCHANGED <<num_readers, write_pointer, slot, rd, left, history>>

SendDone == /\ pub.pc = "done"
            /\ write_pointer' = [write_pointer EXCEPT !.ptr = @ + Total]
            /\ log' = Append(log, pub.size)
            /\ pub' = Idle
            /\ UNCHANGED <<num_readers, slot, ring, rd, left, got, lagged, adrift>>

Send == \/ SendBegin \/ SendWrap \/ SendBeyond \/ SendCycle
        \/ SendEvict \/ SendTag \/ SendData \/ SendDone
----------------------------------------------------------------------------
(* A reader.  Its slot is rd[r].id; it has lost it when the slot's uid is  *)
(* another's.                                                              *)

Off      == [pc |-> "off", id |-> 0, fresh |-> FALSE, rp |-> Zero, wp |-> Zero,
             size |-> 0, buf |-> << >>]
Mine(r)  == slot[rd[r].id]
Goto(r, pc) == rd' = [rd EXCEPT ![r].pc = pc]
Clean(r, pc) == rd' = [rd EXCEPT ![r] = [Off EXCEPT !.pc = pc, !.id = rd[r].id,
                                                    !.fresh = rd[r].fresh]]

(* Two readers in one slot pull the ground from under each other.          *)
Sharing(r, id) == Holders(id) \ {r}
Disturb(r, id) == adrift' = adrift \cup Sharing(r, id)

(* A reader process comes up, and dies.                                    *)
SubStart(r) == /\ rd[r].pc = "off" /\ left.joins[r] > 0
               /\ left' = [left EXCEPT !.joins[r] = @ - 1]
               /\ Goto(r, "claim")
               /\ UNCHANGED <<shared, pub, history>>

SubKill(r) == /\ rd[r].pc # "off" /\ left.joins[r] > 0
              /\ rd' = [rd EXCEPT ![r] = Off]
              /\ adrift' = adrift \ {r}
              /\ lagged' = lagged \cup (adrift \cap {r})
              /\ UNCHANGED <<shared, pub, left, log, got>>

(* msgq_init_subscriber: take the next slot (the compare-and-swap loop is  *)
(* an atomic increment) or, when there is none, evict everybody.           *)
Claim(r) ==
    /\ rd[r].pc = "claim"
    /\ \/ /\ num_readers < NUM_READERS
          /\ num_readers' = num_readers + 1
          /\ rd' = [rd EXCEPT ![r] = [Off EXCEPT !.pc = "enter", !.id = num_readers + 1]]
       \/ /\ num_readers = NUM_READERS
          /\ rd' = [rd EXCEPT ![r] = [Off EXCEPT !.pc = "full"]]
          /\ UNCHANGED num_readers
    /\ UNCHANGED <<write_pointer, slot, ring, pub, left, history>>

(* Others may have made room since, or taken slots anew.                   *)
EvictBegin(r) ==
    /\ rd[r].pc = "full"
    /\ num_readers' = 0
    /\ rd' = [rd EXCEPT ![r] = [Off EXCEPT !.pc = "evict", !.size = 1]]
    /\ UNCHANGED <<write_pointer, slot, ring, pub, left, history>>

EvictAll(r) ==
    /\ \/ /\ rd[r].pc = "evict"
          /\ slot' = [slot EXCEPT ![rd[r].size].valid = FALSE]
          /\ Goto(r, "evict_uid")
          /\ Disturb(r, rd[r].size)
       \/ /\ rd[r].pc = "evict_uid"
          /\ slot' = [slot EXCEPT ![rd[r].size].uid = Nobody]
          /\ rd' = IF rd[r].size = NUM_READERS
                   THEN [rd EXCEPT ![r] = [Off EXCEPT !.pc = "claim"]]
                   ELSE [rd EXCEPT ![r].pc = "evict", ![r].size = @ + 1]
          /\ UNCHANGED adrift
    /\ UNCHANGED <<num_readers, write_pointer, ring, pub, left, log, got, lagged>>

Enter(r) == /\ rd[r].pc = "enter"
            /\ slot' = [slot EXCEPT ![rd[r].id] = [pointer |-> Zero, valid |-> FALSE, uid |-> r]]
            /\ rd' = [rd EXCEPT ![r].pc = "reset", ![r].fresh = TRUE]
            /\ adrift' = (adrift \ {r}) \cup Sharing(r, rd[r].id)
            /\ lagged' = lagged \cup (adrift \cap {r})
            /\ UNCHANGED <<num_readers, write_pointer, ring, pub, left, log, got>>

(* Mutant: the flag is left as it was.                                     *)
ResetValidNot(r) == /\ rd[r].pc = "reset"
                    /\ Goto(r, "reset_load")
                    /\ UNCHANGED <<shared, pub, left, history>>

(* msgq_reset_reader: three accesses.                                      *)
ResetValid(r) == /\ rd[r].pc = "reset"
                 /\ slot' = [slot EXCEPT ![rd[r].id].valid = TRUE]
                 /\ Goto(r, "reset_load")
                 /\ Disturb(r, rd[r].id)
                 /\ UNCHANGED <<num_readers, write_pointer, ring, pub, left, log, got, lagged>>

ResetLoad(r) ==
    /\ rd[r].pc = "reset_load"
    /\ rd' = [rd EXCEPT ![r].pc = "reset_store", ![r].wp = write_pointer]
    /\ IF rd[r].fresh
       THEN /\ got' = [got EXCEPT ![r] = Len(log)]
            /\ lagged' = lagged \ {r}
       ELSE UNCHANGED <<got, lagged>>
    /\ UNCHANGED <<shared, pub, left, log, adrift>>

(* A pointer that the publisher has passed since it was loaded sets the    *)
(* reader adrift; any other brings it back.                                *)
ResetStore(r) ==
    /\ rd[r].pc = "reset_store"
    /\ slot' = [slot EXCEPT ![rd[r].id].pointer = rd[r].wp]
    /\ Clean(r, "start")
    /\ adrift' = IF Passed(r, rd[r].wp)
                 THEN adrift \cup {r} \cup Sharing(r, rd[r].id)
                 ELSE (adrift \ {r}) \cup Sharing(r, rd[r].id)
    /\ lagged' = lagged \cup (adrift \ adrift')
    /\ UNCHANGED <<num_readers, write_pointer, ring, pub, left, log, got>>

(* msgq_msg_recv, and msgq_msg_ready, which shares its first steps.  A     *)
(* call starts at "idle", and starts over at "start".                      *)
CheckUid(r) == /\ rd[r].pc \in {"idle", "start"}
               /\ IF Mine(r).uid = r THEN Goto(r, "valid") ELSE Goto(r, "claim")
               /\ UNCHANGED <<shared, pub, left, history>>

CheckValid(r) ==
    /\ rd[r].pc = "valid"
    /\ \/ /\ Mine(r).valid
          /\ rd' = [rd EXCEPT ![r].pc = "compare", ![r].fresh = FALSE, ![r].rp = Mine(r).pointer]
          /\ lagged' = IF rd[r].fresh /\ pub.size > 0 THEN lagged \cup {r} ELSE lagged
       \/ ~Mine(r).valid /\ Clean(r, "reset") /\ UNCHANGED lagged
    /\ UNCHANGED <<shared, pub, left, log, got, adrift>>

(* The cycles are not compared.  msgq_msg_ready returns in either case.    *)
NothingNew(r) == rd[r].rp.ptr = write_pointer.ptr

Compare(r) ==
    /\ rd[r].pc = "compare"
    /\ \/ Clean(r, "idle")
       \/ ~NothingNew(r) /\ rd' = [rd EXCEPT ![r].pc = "size", ![r].wp = write_pointer]
    /\ UNCHANGED <<shared, pub, left, history>>

(* The tag, and whether it can be trusted.                                 *)
LoadSize(r) ==
    /\ rd[r].pc = "size"
    /\ rd' = [rd EXCEPT ![r].pc = "trust", ![r].buf = <<ring[rd[r].rp.ptr]>>]
    /\ UNCHANGED <<shared, pub, left, history>>

NewPointer(r, size) == [rd[r].rp EXCEPT !.ptr = @ + 1 + size]

(* Mutant: the size is taken without a look at the flag.                   *)
TrustBlindly(r) ==
    LET tag == rd[r].buf[1] IN
    /\ rd[r].pc = "trust"
    /\ \/ /\ tag.kind = "size" /\ tag.n > 0
          /\ rd' = [rd EXCEPT ![r].pc = "copy", ![r].size = tag.n, ![r].buf = << >>]
       \/ /\ tag.kind # "size" \/ tag.n = 0
          /\ Goto(r, "crashed")
    /\ UNCHANGED <<shared, pub, left, history>>

(* The asserts on the size: from there on the process is no longer what    *)
(* the model describes.                                                    *)
Trust(r) ==
    LET tag == rd[r].buf[1] IN
    /\ rd[r].pc = "trust"
    /\ \/ ~Mine(r).valid /\ Clean(r, "reset")
       \/ /\ Mine(r).valid /\ tag.kind = "wrap"
          /\ rd' = [rd EXCEPT ![r].pc = "advance", ![r].buf = << >>,
                              ![r].wp = [cycles |-> rd[r].rp.cycles + 1, ptr |-> 0]]
       \/ /\ Mine(r).valid /\ tag.kind = "size" /\ tag.n > 0
          /\ \/ /\ r \in Lossy /\ NewPointer(r, tag.n).ptr # rd[r].wp.ptr
                /\ rd' = [rd EXCEPT ![r].pc = "advance", ![r].buf = << >>,
                                    ![r].wp = NewPointer(r, tag.n)]
             \/ /\ r \notin Lossy \/ NewPointer(r, tag.n).ptr = rd[r].wp.ptr
                /\ rd' = [rd EXCEPT ![r].pc = "copy", ![r].size = tag.n,
                                    ![r].buf = << >>, ![r].wp = Zero]
       \/ /\ Mine(r).valid /\ (tag.kind = "data" \/ tag = SizeTag(0))
          /\ Goto(r, "crashed")
    /\ UNCHANGED <<shared, pub, left, history>>

(* Over a wraparound tag, or over a message that is not the latest.        *)
Advance(r) ==
    /\ rd[r].pc = "advance"
    /\ slot' = [slot EXCEPT ![rd[r].id].pointer = rd[r].wp]
    /\ Clean(r, "start")
    /\ Disturb(r, rd[r].id)
    /\ UNCHANGED <<num_readers, write_pointer, ring, pub, left, log, got, lagged>>

(* A stale size may reach beyond the ring.                                 *)
Copy(r) ==
    LET at == rd[r].rp.ptr + Len(rd[r].buf) + 1 IN
    /\ rd[r].pc = "copy"
    /\ rd' = CASE Len(rd[r].buf) = rd[r].size -> [rd EXCEPT ![r].pc = "store"]
               [] at >= Size -> [rd EXCEPT ![r].pc = "crashed"]
               [] OTHER -> [rd EXCEPT ![r].buf = Append(@, ring[at])]
    /\ UNCHANGED <<shared, pub, left, history>>

Store(r) ==
    /\ rd[r].pc = "store"
    /\ slot' = [slot EXCEPT ![rd[r].id].pointer = NewPointer(r, rd[r].size)]
    /\ Goto(r, "final")
    /\ Disturb(r, rd[r].id)
    /\ UNCHANGED <<num_readers, write_pointer, ring, pub, left, log, got, lagged>>

(* Mutant: returned without the last look.                                 *)
FinalUnchecked(r) ==
    /\ rd[r].pc = "final"
    /\ Clean(r, "idle")
    /\ got' = [got EXCEPT ![r] = rd[r].buf[1].msg]
    /\ UNCHANGED <<shared, pub, left, log, lagged, adrift>>

(* The last look at the flag, and the message is returned.                 *)
Final(r) ==
    /\ rd[r].pc = "final"
    /\ \/ ~Mine(r).valid /\ Clean(r, "reset") /\ UNCHANGED got
       \/ /\ Mine(r).valid
          /\ Clean(r, "idle")
          /\ got' = IF r \in adrift THEN got
                    ELSE [got EXCEPT ![r] = rd[r].buf[1].msg]
    /\ UNCHANGED <<shared, pub, left, log, lagged, adrift>>

Recv(r) == \/ CheckUid(r) \/ CheckValid(r) \/ Compare(r) \/ LoadSize(r) \/ Trust(r)
           \/ Advance(r) \/ Copy(r) \/ Store(r) \/ Final(r)
           \/ ResetValid(r) \/ ResetLoad(r) \/ ResetStore(r)
           \/ Claim(r) \/ EvictBegin(r) \/ EvictAll(r) \/ Enter(r)

(* thread_signal wakes a poll; the timeout of the sleep does so anyway.    *)
Reader(r) == SubStart(r) \/ SubKill(r) \/ Recv(r)

Init == /\ num_readers = 0
        /\ write_pointer = Zero
        /\ slot = [i \in Slots |-> [pointer |-> Zero, valid |-> FALSE, uid |-> Nobody]]
        /\ ring = [a \in 0 .. Size - 1 |-> SizeTag(0)]
        /\ pub = [Idle EXCEPT !.pc = "off"]
        /\ rd = [r \in Readers |-> Off]
        /\ left \in Budgets
        /\ log = << >> /\ got = [r \in Readers |-> 0] /\ lagged = {} /\ adrift = {}

Next == PubStart \/ PubClear \/ PubKill \/ Send \/ \E r \in Readers : Reader(r)

(* Processes keep running: the publisher finishes what it has begun, and a *)
(* reader the call it has made.                                            *)
Fairness == /\ WF_vars(PubClear)
            /\ WF_vars(Send)
            /\ \A r \in Readers : WF_vars(rd[r].pc # "idle" /\ Recv(r))

Spec     == Init /\ [][Next]_vars
FairSpec == Spec /\ Fairness
----------------------------------------------------------------------------
(* Properties. *)

Words == {SizeTag(n) : n \in Sizes \cup {0}} \cup {WrapTag}
         \cup [kind : {"data"}, n : Nat, msg : Nat]

(* The variables have their types.                                         *)
TypeOK ==
    /\ num_readers \in 0 .. NUM_READERS
    /\ write_pointer \in Pointer
    /\ slot \in [Slots -> [pointer : Pointer, valid : BOOLEAN, uid : Readers \cup {Nobody}]]
    /\ ring \in [0 .. Size - 1 -> Words]
    /\ got \in [Readers -> 0 .. Len(log)]
    /\ lagged \subseteq Readers /\ adrift \subseteq Readers

(* Whoever is not adrift receives a message as it was published: the       *)
(* validity flag catches every copy that the publisher has overwritten.    *)
Delivers(r) == rd[r].pc = "final" /\ rd'[r].pc = "idle"
Whole(r)    == \E m \in 1 .. Len(log) : rd[r].buf = Message(m)
DeliveriesWhole == [][\A r \in Readers \ adrift : Delivers(r) => Whole(r)]_vars

(* "crashing is better than passing garbage data": nobody who is not       *)
(* adrift ever has to.                                                     *)
SizesTrusted == \A r \in Readers : rd[r].pc = "crashed" => r \in adrift

(* In order, none twice, and none lost by a reader that keeps up, in a     *)
(* ring with room for three messages and a tag.                            *)
ImplementsChannel == Channel!Spec

(* A call of msgq_msg_recv returns: resets, wraparounds and evictions do   *)
(* not send it around for ever, unless readers go on evicting each other.  *)
RecvReturns ==
    \A r \in Readers :
        \/ []<>(\E q \in Readers : rd[q].pc = "evict")
        \/ (rd[r].pc = "valid") ~> (rd[r].pc \in {"idle", "off", "crashed"})
=============================================================================
