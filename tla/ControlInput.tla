---------------------------- MODULE ControlInput ----------------------------
(***************************************************************************)
(* The bounded buffer of user messages that an Agent loop reads            *)
(* (ControlInputBuffer, crates/psychevo-agent-core/src/control.rs).  Every *)
(* method holds the buffer's mutex from start to end, so each one is an    *)
(* operator from the buffer to the buffer it leaves behind.                *)
(***************************************************************************)
EXTENDS Naturals, Sequences, FiniteSets, SequencesExt

CONSTANTS
    MaxItems,   \* MAX_CONTROL_INPUT_ITEMS
    MaxBytes,   \* MAX_CONTROL_INPUT_BYTES
    Long        \* the messages of two bytes; every other message has one

ASSUME ControlInputAssumption == MaxItems \in Nat \ {0} /\ MaxBytes \in Nat \ {0}

\* message_payload_bytes
Bytes(message) == IF message \in Long THEN 2 ELSE 1
TotalBytes(messages) ==
    Len(messages) + Cardinality({i \in DOMAIN messages : messages[i] \in Long})

NewInput ==
    [closed |-> FALSE, next_id |-> 0, injected |-> <<>>, steered |-> <<>>,
     accepted_items |-> 0, accepted_bytes |-> 0]

SteeredMessages(input) == [i \in DOMAIN input.steered |-> input.steered[i].message]
SteerIds(input) == {input.steered[i].id : i \in DOMAIN input.steered}
Buffered(input) == ToSet(input.injected) \cup ToSet(SteeredMessages(input))

Admits(input, items, bytes) ==
    /\ ~input.closed
    /\ input.accepted_items + items <= MaxItems
    /\ input.accepted_bytes + bytes <= MaxBytes

Accepted(input, items, bytes) ==
    [input EXCEPT !.accepted_items = @ + items, !.accepted_bytes = @ + bytes]

\* saturating_sub
Minus(m, n) == IF n <= m THEN m - n ELSE 0
Released(input, items, bytes) ==
    [input EXCEPT !.accepted_items = Minus(@, items), !.accepted_bytes = Minus(@, bytes)]

\* inject_authoritative_messages: the whole batch or nothing.
AdmitsBatch(input, messages) ==
    messages = <<>> \/ Admits(input, Len(messages), TotalBytes(messages))
Inject(input, messages) ==
    Accepted([input EXCEPT !.injected = @ \o messages], Len(messages), TotalBytes(messages))

\* steer_user_message
AdmitsSteer(input, message) == Admits(input, 1, Bytes(message))
Steer(input, message) ==
    Accepted([input EXCEPT !.next_id = @ + 1,
                           !.steered = Append(@, [id |-> input.next_id + 1,
                                                  message |-> message])],
             1, Bytes(message))

IndexOfSteer(input, id) == CHOOSE i \in DOMAIN input.steered : input.steered[i].id = id

\* update_pending_user_message
UpdatedBytes(input, id, message) ==
    Minus(input.accepted_bytes, Bytes(input.steered[IndexOfSteer(input, id)].message))
        + Bytes(message)
AdmitsUpdate(input, id, message) ==
    /\ ~input.closed
    /\ id \in SteerIds(input)
    /\ UpdatedBytes(input, id, message) <= MaxBytes
\* Mutant: the bytes of the first text stay counted.
UpdateUncounted(input, id, message) ==
    [input EXCEPT !.steered[IndexOfSteer(input, id)].message = message]
Update(input, id, message) ==
    [input EXCEPT !.steered[IndexOfSteer(input, id)].message = message,
                  !.accepted_bytes = UpdatedBytes(input, id, message)]

\* cancel_pending_user_message
Cancel(input, id) ==
    LET i == IndexOfSteer(input, id) IN
    Released([input EXCEPT !.steered = RemoveAt(@, i)], 1, Bytes(input.steered[i].message))

\* cancel_all_pending_user_messages and drain_pending_user_messages both take
\* every steered message out.
TakeSteered(input) ==
    Released([input EXCEPT !.steered = <<>>],
             Len(input.steered), TotalBytes(SteeredMessages(input)))

\* drain_injected_messages
DrainInjected(input) ==
    Released([input EXCEPT !.injected = <<>>], Len(input.injected), TotalBytes(input.injected))

\* Drop of ControlReceivers
Dropped(input) ==
    [input EXCEPT !.closed = TRUE, !.injected = <<>>, !.steered = <<>>,
                  !.accepted_items = 0, !.accepted_bytes = 0]

\* What accepted_items and accepted_bytes stand for.
Exact(input) ==
    /\ input.accepted_items = Len(input.injected) + Len(input.steered)
    /\ input.accepted_bytes = TotalBytes(input.injected) + TotalBytes(SteeredMessages(input))
    /\ input.accepted_items <= MaxItems
    /\ input.accepted_bytes <= MaxBytes
=============================================================================
