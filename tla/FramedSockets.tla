--------------------------- MODULE FramedSockets ----------------------------
(***************************************************************************)
(* The framed sockets of the member profile prototype                      *)
(* (experiments/member-profiles/wire.js): a client that exchanges two      *)
(* frames for two, and the server it exchanges them with, over a stream    *)
(* that cuts frames into pieces and delivers any number of them at once.   *)
(*                                                                         *)
(* A write puts its frame on the stream and is confirmed by a callback     *)
(* that may come after the answer to it.  A deadline, or a peer that       *)
(* writes out of turn, may close either end.                               *)
(***************************************************************************)
EXTENDS Integers, Sequences

CONSTANTS Pieces, MaxExtra      \* pieces of a frame; bound on frames out of turn

VARIABLES
    ends,       \* end -> the state of its channel and of the code that uses it
    carried,    \* end -> pieces written to it
    extra,      \* frames written out of turn
    cut         \* a deadline fired, or a peer wrote out of turn

socketVars == <<ends, carried, extra, cut>>
Ends == {"client", "server"}

(* Assumed wherever the module is instantiated. *)
SocketConstants == Pieces \in Nat \ {0}
Peer(e) == IF e = "client" THEN "server" ELSE "client"
Script(e) == IF e = "client" THEN <<"write", "read", "write", "read">>
             ELSE <<"read", "write", "read", "write">>

Init ==
    /\ ends = [e \in Ends |->
        [terminal |-> FALSE, operation |-> "none", paused |-> e = "server",
         taken |-> 0, ready |-> 0, receiveAfterWrite |-> FALSE,
         step |-> 1, got |-> << >>]]
    /\ carried = [e \in Ends |-> 0] /\ extra = 0 /\ cut = FALSE

Stepped(end) == [end EXCEPT !.operation = "none", !.step = @ + 1]
(* close: what was received and not read is dropped. *)
Closed(end) == [end EXCEPT !.terminal = TRUE, !.operation = "none", !.ready = 0]
Becomes(e, end) == ends' = [ends EXCEPT ![e] = end]
Running(e, operation) ==
    /\ ~ ends[e].terminal /\ ends[e].operation = "none" /\ ends[e].step <= 4
    /\ Script(e)[ends[e].step] = operation

Got(end, frame) == [Stepped(end) EXCEPT !.got = Append(@, frame), !.receiveAfterWrite = FALSE]
Read(e) ==
    /\ Running(e, "read")
    /\ LET end == [ends[e] EXCEPT !.paused = FALSE]
       IN  Becomes(e, IF end.ready > 0 THEN [Got(end, end.ready) EXCEPT !.ready = 0]
                      ELSE [end EXCEPT !.operation = "read", !.receiveAfterWrite = FALSE])
    /\ UNCHANGED <<carried, extra, cut>>

ExpectNothing == FALSE
ExpectAnswer == TRUE
Write(e) ==
    /\ Running(e, "write")
    /\ Becomes(e, [ends[e] EXCEPT !.operation = "write", !.receiveAfterWrite = ExpectAnswer])
    /\ carried' = [carried EXCEPT ![Peer(e)] = @ + Pieces]
    /\ UNCHANGED <<extra, cut>>

Confirmed(e) ==
    /\ ends[e].operation = "write"
    /\ Becomes(e, Stepped(ends[e]))
    /\ UNCHANGED <<carried, extra, cut>>

(* A chunk of n pieces arrives. *)
AlwaysWelcome(end) == FALSE
Unwelcome(end) == 
    \/ end.ready > 0
    \/ end.operation = "none" /\ ~ end.receiveAfterWrite
Rest(end) == Pieces - (end.taken % Pieces)
Taken(end, n) == [end EXCEPT !.taken = @ + n]
Frame(end) == end.taken \div Pieces

Received(end, n) ==
    IF Unwelcome(end) \/ n > Rest(end) THEN Closed(end)
    ELSE IF n < Rest(end) THEN Taken(end, n)
    ELSE IF end.operation = "read" THEN Got(Taken(end, n), Frame(Taken(end, n)))
    ELSE [Taken(end, n) EXCEPT !.ready = Frame(Taken(end, n))]

Data(e, n) ==
    /\ ~ ends[e].terminal /\ ~ ends[e].paused
    /\ n <= carried[e] - ends[e].taken
    /\ Becomes(e, Received(ends[e], n))
    /\ UNCHANGED <<carried, extra, cut>>

(* A deadline of an operation or of a frame begun. *)
Deadline(e) ==
    /\ ~ ends[e].terminal
    /\ (ends[e].operation # "none" \/ ends[e].taken % Pieces > 0)
    /\ Becomes(e, Closed(ends[e])) /\ cut' = TRUE
    /\ UNCHANGED <<carried, extra>>

(* The session is over on this end. *)
Finish(e) ==
    /\ ~ ends[e].terminal /\ ends[e].step > 4
    /\ Becomes(e, Closed(ends[e]))
    /\ UNCHANGED <<carried, extra, cut>>

(* "end", "close" or "error", whatever had not arrived yet. *)
PeerClosed(e) ==
    /\ ~ ends[e].terminal /\ ~ ends[e].paused /\ ends[Peer(e)].terminal
    /\ Becomes(e, Closed(ends[e]))
    /\ UNCHANGED <<carried, extra, cut>>

(* A peer that does not keep to the protocol. *)
OutOfTurn(e) ==
    /\ extra < MaxExtra /\ extra' = extra + 1 /\ cut' = TRUE
    /\ carried' = [carried EXCEPT ![e] = @ + Pieces]
    /\ UNCHANGED ends

Next == \E e \in Ends :
    \/ Read(e) \/ Write(e) \/ Confirmed(e) \/ Deadline(e) \/ Finish(e) \/ PeerClosed(e)
    \/ OutOfTurn(e)
    \/ \E n \in 1 .. 2 * Pieces : Data(e, n)

Spec == Init /\ [][Next]_socketVars
-----------------------------------------------------------------------------
(* Reads return the frames of the stream whole, each once and in order,    *)
(* however they were cut and whatever came early (wire.js:53-77, 86-92).   *)
FramesInOrder == \A e \in Ends : ends[e].got = [i \in 1 .. Len(ends[e].got) |-> i]

(* Two ends that keep to the protocol never reject each other: an answer   *)
(* that arrives before the write it answers is confirmed is kept           *)
(* (wire.js:61, 97-100).                                                   *)
NoFalseClose == (\E e \in Ends : ends[e].terminal) => cut \/ \E e \in Ends : ends[e].step > 4
=============================================================================
