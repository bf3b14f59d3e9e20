----------------------------- MODULE InputPipe ------------------------------
(***************************************************************************)
(* What sendInput promises: one ordered pipe per session.                  *)
(*                                                                         *)
(* Inputs are handed to the backend in the order of the calls, in blocks;  *)
(* the child receives all of a block, or a prefix of one whose write       *)
(* failed; promises settle in the order of the calls, and one that is      *)
(* resolved belongs to an input that the child did receive.                *)
(***************************************************************************)
EXTENDS Integers, Sequences

CONSTANTS Sessions

VARIABLES
    accepted,   \* accepted[s]: inputs 1..accepted[s] were given to sendInput
    handed,     \* handed[s]: inputs 1..handed[s] went to the backend
    received,   \* received[s]: what the child received, in order
    resolved,   \* resolved[s]: inputs whose promise was resolved
    rejected    \* rejected[s]: inputs whose promise was rejected

pipeVars == <<accepted, handed, received, resolved, rejected>>

Received(s) == {received[s][i] : i \in 1 .. Len(received[s])}

PipeInit ==
    /\ accepted = [s \in Sessions |-> 0]
    /\ handed = [s \in Sessions |-> 0]
    /\ received = [s \in Sessions |-> <<>>]
    /\ resolved = [s \in Sessions |-> {}]
    /\ rejected = [s \in Sessions |-> {}]

(* One keystroke for each session of T. *)
Accept(T) ==
    /\ accepted' = [s \in Sessions |-> IF s \in T THEN accepted[s] + 1 ELSE accepted[s]]
    /\ UNCHANGED <<handed, received, resolved, rejected>>

(* A block of the oldest inputs goes to the backend, which delivers its    *)
(* first inputs up to `last`.                                              *)
Hand(s) ==
    \E hi \in handed[s] + 1 .. accepted[s] :
        /\ handed' = [handed EXCEPT ![s] = hi]
        /\ \E last \in handed[s] .. hi :
              received' = [received EXCEPT ![s] =
                 @ \o [i \in 1 .. last - handed[s] |-> handed[s] + i]]
        /\ UNCHANGED <<accepted, resolved, rejected>>

(* The promises of the oldest block still open are settled together.       *)
SettleBlock(s) ==
    \E hi \in 1 .. handed[s] :
        LET block == (1 .. hi) \ (resolved[s] \cup rejected[s])
        IN  /\ block # {}
            /\ \/ /\ block \subseteq Received(s)
                  /\ resolved' = [resolved EXCEPT ![s] = @ \cup block]
                  /\ UNCHANGED rejected
               \/ /\ rejected' = [rejected EXCEPT ![s] = @ \cup block]
                  /\ UNCHANGED resolved
            /\ UNCHANGED <<accepted, handed, received>>

PipeNext ==
    \/ \E T \in SUBSET Sessions : Accept(T)
    \/ \E s \in Sessions : Hand(s) \/ SettleBlock(s)

PipeSafety == PipeInit /\ [][PipeNext]_pipeVars

PipeSpec ==
    PipeSafety /\ \A s \in Sessions : WF_pipeVars(Hand(s)) /\ WF_pipeVars(SettleBlock(s))
=============================================================================
