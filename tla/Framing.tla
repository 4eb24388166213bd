------------------------------ MODULE Framing ------------------------------
(***************************************************************************)
(* One direction of a connection: frames of a length prefix and a JSON     *)
(* text, written by sendall and read by decode_stream (ipc/framing.py) or  *)
(* _recv_frame (listener.py).  In the direction from the agent to the      *)
(* client two threads write, the handler thread and its heartbeat thread,  *)
(* and no lock keeps them apart.                                           *)
(*                                                                         *)
(* A byte is <<f, i>>, the i-th byte of the encoding of frame f.  A text   *)
(* that mixes bytes of two frames is not JSON: no JSON text holds a NUL,   *)
(* which every length below the limit begins with, and no proper part of   *)
(* an object is one.  A length that mixes two frames may be any.           *)
(***************************************************************************)
EXTENDS Naturals, SequencesExt

CONSTANTS
    Writers,   \* threads that call _send_frame on the socket
    Frames,
    Size,      \* Size[f]: the length of f's JSON text
    Header,    \* bytes of a length prefix
    MaxFrame,  \* max_frame_bytes, _MAX_FRAME
    Capacity   \* bytes the network holds between the two ends

ASSUME SizeAssumption == Size \in [Frames -> Nat \ {0}]
ASSUME HeaderAssumption == Header \in Nat \ {0}
ASSUME LimitsAssumption == MaxFrame \in Nat /\ Capacity \in Nat \ {0}

Bytes == UNION {{f} \X (1..Header + Size[f]) : f \in Frames}

VARIABLES
    out,    \* out[w]: bytes sendall has not yet given to the socket
    wire,   \* bytes on their way
    up,     \* the connection works
    stage,  \* what the reader reads, or how it ended
    want,   \* bytes that receive_exactly still waits for
    buf,    \* bytes it has
    sent,   \* history: frames in the order their first bytes were written
    got,    \* history: frames the reader yielded
    torn    \* history: bytes were written in the middle of another frame

readerVars == <<stage, want, buf, got>>
writerVars == <<out, sent, torn>>
vars == <<readerVars, writerVars, wire, up>>

Init ==
    /\ out = [w \in Writers |-> <<>>] /\ wire = <<>> /\ up = TRUE
    /\ stage = "header" /\ want = Header /\ buf = <<>>
    /\ sent = <<>> /\ got = <<>> /\ torn = FALSE

-----------------------------------------------------------------------------
(* encode, and sendall, which gives the socket as much as fits, repeatedly.*)

Encoding(f) == [i \in 1..Header + Size[f] |-> <<f, i>>]

\* Nobody looks at the length of what is sent.
StartSend(w, f) ==
    /\ up /\ out[w] = <<>>
    /\ f \notin ToSet(sent) /\ \A v \in Writers : out[v] # Encoding(f)
    /\ out' = [out EXCEPT ![w] = Encoding(f)]
    /\ UNCHANGED <<readerVars, sent, torn, wire, up>>

Begun(w) == out[w] # <<>> /\ Head(out[w])[2] > 1

Write(w) ==
    /\ up /\ out[w] # <<>>
    /\ \E n \in 1..Len(out[w]) :
          /\ Len(wire) + n <= Capacity
          /\ wire' = wire \o SubSeq(out[w], 1, n)
          /\ out' = [out EXCEPT ![w] = SubSeq(@, n + 1, Len(@))]
    /\ sent' = IF Begun(w) THEN sent ELSE Append(sent, Head(out[w])[1])
    /\ torn' = (torn \/ \E v \in Writers \ {w} : Begun(v))
    /\ UNCHANGED <<readerVars, up>>

\* What is on its way arrives in part; sendall raises.
Break ==
    /\ up
    /\ up' = FALSE
    /\ out' = [w \in Writers |-> <<>>]
    /\ \E n \in 0..Len(wire) : wire' = SubSeq(wire, 1, n)
    /\ UNCHANGED <<readerVars, sent, torn>>

-----------------------------------------------------------------------------
(* The reader.                                                             *)

Reading == stage \in {"header", "payload"}

\* Mutant: what one recv returned is taken to be all.
ReceiveOnce ==
    /\ Reading /\ want > 0 /\ wire # <<>>
    /\ \E n \in 1..Len(wire) :
          /\ n <= want
          /\ buf' = buf \o SubSeq(wire, 1, n)
          /\ want' = 0
          /\ wire' = SubSeq(wire, n + 1, Len(wire))
    /\ UNCHANGED <<stage, got, writerVars, up>>

\* One recv of the loop in _receive_exactly or _recv_exactly.
Receive ==
    /\ Reading /\ want > 0 /\ wire # <<>>
    /\ \E n \in 1..Len(wire) :
          /\ n <= want
          /\ buf' = buf \o SubSeq(wire, 1, n)
          /\ want' = want - n
          /\ wire' = SubSeq(wire, n + 1, Len(wire))
    /\ UNCHANGED <<stage, got, writerVars, up>>

End(reason) ==
    /\ stage' = reason /\ want' = 0 /\ buf' = <<>>
    /\ UNCHANGED <<got, writerVars, wire, up>>

\* Between two frames, in the middle of a length, or of a text.
StreamEnds ==
    /\ Reading /\ want > 0 /\ wire = <<>> /\ ~up
    /\ End(IF stage = "header" THEN "eof" ELSE "truncated")

IsHeader(b, f) == b = SubSeq(Encoding(f), 1, Header)
IsPayload(b, f) == b = SubSeq(Encoding(f), Header + 1, Header + Size[f])

Lengths(b) ==
    IF \E f \in Frames : IsHeader(b, f)
    THEN {Size[f] : f \in {g \in Frames : IsHeader(b, g)}}
    ELSE 0..MaxFrame + 1

\* Mutant: a frame of exactly the limit is refused.
ReadLengthBelow ==
    /\ stage = "header" /\ want = 0
    /\ \E length \in Lengths(buf) :
          IF length >= MaxFrame
          THEN End("oversized")
          ELSE /\ stage' = "payload" /\ want' = length /\ buf' = <<>>
               /\ UNCHANGED <<got, writerVars, wire, up>>

ReadLength ==
    /\ stage = "header" /\ want = 0
    /\ \E length \in Lengths(buf) :
          IF length > MaxFrame
          THEN End("oversized")
          ELSE /\ stage' = "payload" /\ want' = length /\ buf' = <<>>
               /\ UNCHANGED <<got, writerVars, wire, up>>

\* Mutant: a text that was cut short is taken for the frame it began.
ReadPayloadAnyway ==
    /\ stage = "payload" /\ want = 0
    /\ buf # <<>> /\ got' = Append(got, buf[1][1])
    /\ stage' = "header" /\ want' = Header /\ buf' = <<>>
    /\ UNCHANGED <<writerVars, wire, up>>

ReadPayload ==
    /\ stage = "payload" /\ want = 0
    /\ \/ \E f \in Frames :
             /\ IsPayload(buf, f)
             /\ got' = Append(got, f)
             /\ stage' = "header" /\ want' = Header /\ buf' = <<>>
             /\ UNCHANGED <<writerVars, wire, up>>
       \/ /\ \A f \in Frames : ~IsPayload(buf, f)
          /\ End("invalid")

-----------------------------------------------------------------------------
WriterStep(w) == Write(w) \/ \E f \in Frames : StartSend(w, f)
ReaderStep == Receive \/ StreamEnds \/ ReadLength \/ ReadPayload

Next == (\E w \in Writers : WriterStep(w)) \/ ReaderStep \/ Break

Spec == Init /\ [][Next]_vars

\* A blocked sendall goes on when there is room, and the reader reads as long
\* as it has not ended.  Frames need not be sent.
Fairness == WF_vars(ReaderStep) /\ \A w \in Writers : WF_vars(Write(w))

FairSpec == Spec /\ Fairness

-----------------------------------------------------------------------------
\* In particular a length is read whole, and what is read of a text is within
\* the limit.
TypeOK ==
    /\ out \in [Writers -> Seq(Bytes)]
    /\ wire \in Seq(Bytes) /\ Len(wire) <= Capacity
    /\ up \in BOOLEAN /\ torn \in BOOLEAN
    /\ stage \in {"header", "payload", "eof", "truncated", "oversized",
                  "invalid"}
    /\ want \in Nat /\ buf \in Seq(Bytes)
    /\ stage = "header" => want + Len(buf) = Header
    /\ stage = "payload" => want + Len(buf) <= MaxFrame
    /\ sent \in Seq(Frames) /\ got \in Seq(Frames)

\* Whatever the pieces in which the two threads write, the socket takes and the
\* reader receives, and wherever the stream breaks: the reader yields the
\* frames that were sent, whole, in order and none twice, up to some point
\* where it ends.
Channel == INSTANCE FrameChannel WITH over <- ~Reading
ImplementsChannel == Channel!Spec

\* A frame that was written is yielded, unless the connection broke, two threads
\* wrote at the same time, or a frame is longer than the reader takes.
Delivered ==
    \A f \in Frames :
        (f \in ToSet(sent))
            ~> \/ f \in ToSet(got) \/ torn \/ ~up
               \/ \E g \in ToSet(sent) : Size[g] > MaxFrame
=============================================================================
