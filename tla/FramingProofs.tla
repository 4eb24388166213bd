--------------------------- MODULE FramingProofs ---------------------------
(***************************************************************************)
(* Proofs about Framing for every set of writers and frames, every size of *)
(* a frame, every limit and every capacity of the network: whatever the    *)
(* writers do to each other, the reader yields the frames that were sent,  *)
(* in order, up to the point where it ends.                                *)
(***************************************************************************)
EXTENDS Framing, SequenceTheorems, WellFoundedInduction, TLAPS

(***************************************************************************)
(* The inductive invariant.  Stream is what the reader has not made into a *)
(* length or a text.  As long as every length it read was that of a frame, *)
(* the stream is in step (InStep): the bytes of one frame are in order,    *)
(* from the one the reader expects, and frames begin in the order of sent. *)
(* Once it has taken bytes of two frames for a length, no stretch of the   *)
(* stream is a text (OutOfStep): one that begins after a length begins     *)
(* with a byte of a length.                                                *)
(***************************************************************************)
Stream == buf \o wire

\* The frame that w is writing, and the number of its next byte.
FrameOf(w) == out[w][1][1]
NextOf(w) == out[w][1][2]

Types ==
    /\ out \in [Writers -> Seq(Bytes)]
    /\ wire \in Seq(Bytes) /\ buf \in Seq(Bytes) /\ want \in Nat
    /\ sent \in Seq(Frames) /\ got \in Seq(Frames)
    /\ up \in BOOLEAN /\ torn \in BOOLEAN
    /\ stage \in {"header", "payload", "eof", "truncated", "oversized",
                  "invalid"}

\* What is left to write is the end of one frame, which is in sent once its
\* first byte is written.
RestsOfFrames ==
    \A w \in Writers : out[w] # <<>> =>
        /\ up
        /\ Len(out[w]) = Header + Size[FrameOf(w)] + 1 - NextOf(w)
        /\ \A i \in 1..Len(out[w]) :
              out[w][i] = <<FrameOf(w), NextOf(w) + i - 1>>
        /\ NextOf(w) > 1 <=> FrameOf(w) \in ToSet(sent)

FramesApart ==
    \A v, w \in Writers :
        v # w /\ out[v] # <<>> /\ out[w] # <<>> => FrameOf(v) # FrameOf(w)

SentOnce == \A i, j \in 1..Len(sent) : sent[i] = sent[j] => i = j

GotIsPrefix ==
    Len(got) <= Len(sent) /\ \A i \in 1..Len(got) : got[i] = sent[i]

\* The first byte of f that the reader has not made into a length.
FirstLeft(f) ==
    IF stage = "payload" /\ f = sent[Len(got) + 1] THEN Header + 1 ELSE 1

\* Frames whose length the reader has read.
Opened == IF stage = "payload" THEN Len(got) + 1 ELSE Len(got)

Counted ==
    /\ stage = "header" => want + Len(buf) = Header
    /\ stage = "payload" => /\ Len(got) < Len(sent)
                            /\ want + Len(buf) = Size[sent[Len(got) + 1]]

Unique == \A i, j \in 1..Len(Stream) : Stream[i] = Stream[j] => i = j

BytesInOrder ==
    \A i \in 1..Len(Stream) :
        LET f == Stream[i][1]
            n == Stream[i][2]
        IN  /\ n >= FirstLeft(f)
            /\ n > FirstLeft(f) => \E j \in 1..i - 1 : Stream[j] = <<f, n - 1>>

WritersGoOn ==
    \A w \in Writers : out[w] # <<>> /\ NextOf(w) > 1 =>
        /\ \/ NextOf(w) = FirstLeft(FrameOf(w))
           \/ \E j \in 1..Len(Stream) :
                 Stream[j] = <<FrameOf(w), NextOf(w) - 1>>
        /\ \A j \in 1..Len(Stream) :
              Stream[j][1] = FrameOf(w) => Stream[j][2] < NextOf(w)

NotYetGot ==
    \A i \in 1..Len(Stream) :
        \E l \in Len(got) + 1..Len(sent) : Stream[i][1] = sent[l]

FramesInOrder ==
    \A j \in 1..Len(Stream) : \A l \in 1..Len(sent) :
        Stream[j] = <<sent[l], 1>> =>
            \A k \in Opened + 1..l - 1 :
                \E i \in 1..j - 1 : Stream[i] = <<sent[k], 1>>

NoneMissing ==
    up => \A k \in Opened + 1..Len(sent) :
              \E i \in 1..Len(Stream) : Stream[i] = <<sent[k], 1>>

InStep ==
    /\ Counted /\ Unique /\ BytesInOrder /\ WritersGoOn
    /\ NotYetGot /\ FramesInOrder /\ NoneMissing

OutOfStep ==
    /\ stage = "payload"
    /\ Stream # <<>> => Stream[1][2] <= Header
    /\ Stream = <<>> =>
          \A w \in Writers : out[w] # <<>> => NextOf(w) <= Header

IInv ==
    /\ Types /\ Len(wire) <= Capacity
    /\ RestsOfFrames /\ FramesApart /\ SentOnce /\ GotIsPrefix
    /\ Reading => InStep \/ OutOfStep

-----------------------------------------------------------------------------
(* Facts about the operators.                                              *)

\* A set of natural numbers has a least element.
LEMMA LeastNatural ==
    ASSUME NEW T, T \subseteq Nat, T # {}
    PROVE  \E x \in T : \A y \in T : x <= y
  <1> DEFINE R == {ss \in Nat \X Nat : ss[1] < ss[2]}
  <1>1. IsWellFoundedOn(R, Nat)
    BY Zenon, NatLessThanWellFounded DEF OpToRel
  <1>2. \A x, y \in Nat : x < y => <<x, y>> \in R
    OBVIOUS
  <1> HIDE DEF R
  <1>3. PICK x \in T : \A y \in T : ~(<<y, x>> \in R)
    BY <1>1, WFMin
  <1>4. \A y \in T : x \in Nat /\ y \in Nat /\ ~(y < x)
    BY <1>2, <1>3
  <1> QED
    BY <1>4

\* A set that holds 0, and with n also n + 1, holds every natural number.
LEMMA InductionOnSet ==
    ASSUME NEW T, 0 \in T, \A n \in Nat : n \in T => n + 1 \in T
    PROVE  \A n \in Nat : n \in T
  <1> SUFFICES ASSUME Nat \ T # {} PROVE FALSE
    OBVIOUS
  <1>1. PICK m \in Nat \ T : \A n \in Nat \ T : m <= n
    BY LeastNatural
  <1>2. m \in Nat /\ m # 0 /\ m \notin T
    BY <1>1
  <1>3. m - 1 \in Nat /\ m - 1 + 1 = m /\ ~(m <= m - 1)
    BY <1>2
  <1> QED
    BY <1>1, <1>2, <1>3

\* A byte is a frame and a number from 1 to the length of its encoding.
LEMMA ByteFacts ==
    ASSUME NEW b \in Bytes
    PROVE  /\ b[1] \in Frames /\ Size[b[1]] \in Nat \ {0}
           /\ b[2] \in 1..Header + Size[b[1]] /\ b = <<b[1], b[2]>>
  <1>1. PICK f \in Frames : b \in {f} \X (1..Header + Size[f])
    BY DEF Bytes
  <1>2. PICK n \in 1..Header + Size[f] : b = <<f, n>>
    BY <1>1
  <1> QED
    BY <1>2, SizeAssumption

\* The encoding of a frame is a sequence of bytes.
LEMMA EncodingFacts ==
    ASSUME NEW f \in Frames
    PROVE  /\ Encoding(f) \in Seq(Bytes) /\ Len(Encoding(f)) = Header + Size[f]
           /\ Encoding(f) # <<>> /\ Size[f] \in Nat \ {0}
           /\ \A i \in 1..Header + Size[f] : Encoding(f)[i] = <<f, i>>
  <1>1. Size[f] \in Nat \ {0}
    BY SizeAssumption
  <1>2. \A i \in 1..Header + Size[f] : <<f, i>> \in Bytes
    BY DEF Bytes
  <1> QED
    BY <1>1, <1>2, HeaderAssumption DEF Encoding

\* What a concatenation holds, position by position.
LEMMA ConcatFacts ==
    ASSUME NEW S, NEW s \in Seq(S), NEW t \in Seq(S)
    PROVE  /\ s \o t \in Seq(S) /\ Len(s \o t) = Len(s) + Len(t)
           /\ \A i \in 1..Len(s) : (s \o t)[i] = s[i]
           /\ \A i \in Len(s) + 1..Len(s) + Len(t) :
                 (s \o t)[i] = t[i - Len(s)]
  BY ConcatProperties, LenProperties

\* What the stream holds, position by position.
LEMMA StreamFacts ==
    ASSUME Types
    PROVE  /\ Stream \in Seq(Bytes) /\ Len(Stream) = Len(buf) + Len(wire)
           /\ \A i \in 1..Len(buf) : Stream[i] = buf[i]
           /\ \A i \in Len(buf) + 1..Len(Stream) :
                 Stream[i] = wire[i - Len(buf)]
           /\ \A i \in 1..Len(Stream) :
                 /\ Stream[i][1] \in Frames /\ Stream[i][2] \in Nat \ {0}
                 /\ Stream[i] = <<Stream[i][1], Stream[i][2]>>
                 /\ Stream[i][2] <= Header + Size[Stream[i][1]]
  <1>1. /\ Stream \in Seq(Bytes) /\ Len(Stream) = Len(buf) + Len(wire)
        /\ \A i \in 1..Len(buf) : Stream[i] = buf[i]
        /\ \A i \in Len(buf) + 1..Len(Stream) :
              Stream[i] = wire[i - Len(buf)]
    <2>1. buf \in Seq(Bytes) /\ wire \in Seq(Bytes)
      BY DEF Types
    <2> QED
      BY <2>1, ConcatFacts DEF Stream
  <1>2. ASSUME NEW i \in 1..Len(Stream)
        PROVE  /\ Stream[i][1] \in Frames /\ Stream[i][2] \in Nat \ {0}
               /\ Stream[i] = <<Stream[i][1], Stream[i][2]>>
               /\ Stream[i][2] <= Header + Size[Stream[i][1]]
    <2>1. Stream[i] \in Bytes
      BY <1>1, <1>2, ElementOfSeq
    <2> QED
      BY <2>1, ByteFacts, HeaderAssumption
  <1> QED
    BY <1>1, <1>2

\* What a writer has left begins with a byte.
LEMMA RestFacts ==
    ASSUME Types, NEW w \in Writers, out[w] # <<>>
    PROVE  /\ out[w] \in Seq(Bytes) /\ Len(out[w]) \in Nat \ {0}
           /\ FrameOf(w) \in Frames /\ Size[FrameOf(w)] \in Nat \ {0}
           /\ NextOf(w) \in 1..Header + Size[FrameOf(w)]
           /\ Begun(w) <=> NextOf(w) > 1
           /\ Head(out[w])[1] = FrameOf(w)
  <1>1. out[w] \in Seq(Bytes)
    BY DEF Types
  <1>2. Len(out[w]) \in Nat \ {0} /\ Head(out[w]) = out[w][1]
    BY <1>1, HeadTailProperties, EmptySeq
  <1>3. out[w][1] \in Bytes
    BY <1>1, <1>2, ElementOfSeq
  <1> QED
    BY <1>1, <1>2, <1>3, ByteFacts DEF FrameOf, NextOf, Begun

-----------------------------------------------------------------------------
\* Before anything is sent the stream is empty and in step.
LEMMA InitHolds == Init => IInv
  <1> SUFFICES ASSUME Init PROVE IInv
    OBVIOUS
  <1>1. Types /\ Len(wire) <= Capacity
    <2>1. out \in [Writers -> Seq(Bytes)] /\ wire \in Seq(Bytes)
          /\ buf \in Seq(Bytes) /\ sent \in Seq(Frames) /\ got \in Seq(Frames)
      <3>1. <<>> \in Seq(Bytes) /\ <<>> \in Seq(Frames)
        OBVIOUS
      <3> QED
        BY <3>1 DEF Init
    <2>2. Len(wire) <= Capacity
      BY LimitsAssumption DEF Init
    <2> QED
      BY <2>1, <2>2, HeaderAssumption DEF Init, Types
  <1>2. RestsOfFrames /\ FramesApart /\ SentOnce /\ GotIsPrefix
    BY DEF Init, RestsOfFrames, FramesApart, SentOnce, GotIsPrefix
  <1>3. Len(Stream) = 0 /\ Len(sent) = 0 /\ Len(got) = 0
    BY <1>1, StreamFacts DEF Init
  <1>4. InStep
    BY <1>3, HeaderAssumption
    DEF Init, InStep, Counted, Unique, BytesInOrder, WritersGoOn, NotYetGot,
        FramesInOrder, NoneMissing, Opened
  <1> QED
    BY <1>1, <1>2, <1>4 DEF IInv

\* A step that leaves the stream alone leaves it in step.
LEMMA SameStream ==
    ASSUME Stream' = Stream, UNCHANGED <<stage, got, sent, up>>
    PROVE  /\ Unique => Unique'
           /\ BytesInOrder => BytesInOrder'
           /\ NotYetGot => NotYetGot'
           /\ FramesInOrder => FramesInOrder'
           /\ NoneMissing => NoneMissing'
  <1>1. Unique => Unique'
    BY DEF Unique
  <1>2. BytesInOrder => BytesInOrder'
    <2>1. \A g : FirstLeft(g)' = FirstLeft(g)
      BY DEF FirstLeft
    <2> QED
      BY <2>1 DEF BytesInOrder
  <1>3. NotYetGot => NotYetGot'
    BY DEF NotYetGot
  <1>4. Opened' = Opened
    BY DEF Opened
  <1>5. FramesInOrder => FramesInOrder'
    <2> SUFFICES ASSUME FramesInOrder,
                        NEW j \in 1..Len(Stream'), NEW l \in 1..Len(sent'),
                        Stream'[j] = <<sent'[l], 1>>,
                        NEW k \in Opened' + 1..l - 1
                 PROVE  \E i \in 1..j - 1 : Stream'[i] = <<sent'[k], 1>>
      BY DEF FramesInOrder
    <2>1. j \in 1..Len(Stream) /\ l \in 1..Len(sent) /\ k \in Opened + 1..l - 1
      BY <1>4
    <2>2. \E i \in 1..j - 1 : Stream[i] = <<sent[k], 1>>
      BY <2>1 DEF FramesInOrder
    <2> QED
      BY <2>2
  <1>6. NoneMissing => NoneMissing'
    BY <1>4 DEF NoneMissing
  <1> QED
    BY <1>1, <1>2, <1>3, <1>5, <1>6

-----------------------------------------------------------------------------
(* The writers.                                                            *)

\* A writer starts with a frame: nothing of it is written yet.
LEMMA StartSendKeeps ==
    ASSUME IInv, NEW w \in Writers, NEW f \in Frames, StartSend(w, f)
    PROVE  IInv'
  <1> USE DEF IInv
  <1>1. /\ out' = [out EXCEPT ![w] = Encoding(f)]
        /\ UNCHANGED <<stage, want, buf, got, sent, torn, wire, up>>
        /\ up /\ out[w] = <<>> /\ f \notin ToSet(sent)
        /\ \A v \in Writers : out[v] # Encoding(f)
    BY DEF StartSend, readerVars
  <1>2. Types' /\ Len(wire') <= Capacity
    BY <1>1, EncodingFacts DEF Types
  <1>3. /\ out'[w] = Encoding(f) /\ out'[w] # <<>>
        /\ FrameOf(w)' = f /\ NextOf(w)' = 1
    <2>1. out'[w] = Encoding(f)
      BY <1>1 DEF Types
    <2>2. Encoding(f)[1] = <<f, 1>>
      BY EncodingFacts, HeaderAssumption
    <2> QED
      BY <2>1, <2>2, EncodingFacts DEF FrameOf, NextOf
  <1>4. \A v \in Writers \ {w} : /\ out'[v] = out[v]
                                 /\ FrameOf(v)' = FrameOf(v)
                                 /\ NextOf(v)' = NextOf(v)
    BY <1>1 DEF Types, FrameOf, NextOf
  <1>5. RestsOfFrames'
    <2> SUFFICES ASSUME NEW v \in Writers, out'[v] # <<>>
                 PROVE  /\ up'
                        /\ Len(out'[v]) = Header + Size[FrameOf(v)'] + 1
                                              - NextOf(v)'
                        /\ \A i \in 1..Len(out'[v]) :
                              out'[v][i] = <<FrameOf(v)', NextOf(v)' + i - 1>>
                        /\ NextOf(v)' > 1 <=> FrameOf(v)' \in ToSet(sent')
      BY DEF RestsOfFrames
    <2>1. CASE v # w
      BY <2>1, <1>1, <1>4 DEF RestsOfFrames
    <2>2. CASE v = w
      <3>1. \A i \in 1..Len(out'[w]) : out'[w][i] = <<f, i>> /\ 1 + i - 1 = i
        BY <1>3, EncodingFacts, HeaderAssumption
      <3> QED
        BY <2>2, <3>1, <1>1, <1>3, EncodingFacts, HeaderAssumption
    <2> QED
      BY <2>1, <2>2
  <1>6. FramesApart'
    <2>1. ASSUME NEW v \in Writers \ {w}, out[v] # <<>> PROVE FrameOf(v) # f
      <3> SUFFICES ASSUME FrameOf(v) = f PROVE FALSE
        OBVIOUS
      <3>1. NextOf(v) = 1
        BY <1>1, <2>1, RestFacts DEF RestsOfFrames
      <3>2. /\ Len(out[v]) = Header + Size[f]
            /\ \A i \in 1..Len(out[v]) : out[v][i] = <<f, i>>
        BY <2>1, <3>1, RestFacts, HeaderAssumption DEF RestsOfFrames
      <3>3. /\ out[v] \in Seq(Bytes) /\ Encoding(f) \in Seq(Bytes)
            /\ Len(Encoding(f)) = Len(out[v])
            /\ \A i \in 1..Len(out[v]) : out[v][i] = Encoding(f)[i]
        BY <2>1, <3>2, EncodingFacts, RestFacts
      <3>4. out[v] = Encoding(f)
        BY <3>3, SeqEqual
      <3> QED
        BY <1>1, <3>4
    <2> QED
      BY <2>1, <1>3, <1>4 DEF FramesApart
  <1>7. SentOnce' /\ GotIsPrefix'
    BY <1>1 DEF SentOnce, GotIsPrefix
  <1>8. Stream' = Stream
    BY <1>1 DEF Stream
  <1>9. InStep => InStep'
    <2> SUFFICES ASSUME InStep PROVE InStep'
      OBVIOUS
    <2>1. WritersGoOn'
      <3> SUFFICES ASSUME NEW v \in Writers, out'[v] # <<>>, NextOf(v)' > 1
                   PROVE  /\ \/ NextOf(v)' = FirstLeft(FrameOf(v))'
                             \/ \E j \in 1..Len(Stream') :
                                   Stream'[j] = <<FrameOf(v)', NextOf(v)' - 1>>
                          /\ \A j \in 1..Len(Stream') :
                                Stream'[j][1] = FrameOf(v)'
                                   => Stream'[j][2] < NextOf(v)'
        BY DEF WritersGoOn
      <3>1. v # w
        BY <1>3
      <3>2. out[v] # <<>> /\ FrameOf(v)' = FrameOf(v) /\ NextOf(v)' = NextOf(v)
        BY <1>4, <3>1
      <3>3. FirstLeft(FrameOf(v))' = FirstLeft(FrameOf(v))
        BY <1>1, <3>2 DEF FirstLeft
      <3> QED
        BY <1>8, <3>2, <3>3 DEF InStep, WritersGoOn
    <2>2. Counted'
      BY <1>1 DEF InStep, Counted
    <2> QED
      BY <1>1, <1>8, <2>1, <2>2, SameStream DEF InStep
  <1>10. OutOfStep => OutOfStep'
    BY <1>1, <1>3, <1>4, <1>8, HeaderAssumption DEF OutOfStep
  <1> QED
    BY <1>1, <1>2, <1>5, <1>6, <1>7, <1>9, <1>10 DEF Reading

\* What a write does, byte by byte: the stream grows at its end by the next
\* bytes of one frame, which is new in sent exactly when the first is written.
Written(w, n) ==
    /\ up /\ out[w] # <<>> /\ n \in 1..Len(out[w])
    /\ Len(wire) + n <= Capacity
    /\ wire' = wire \o SubSeq(out[w], 1, n)
    /\ out' = [out EXCEPT ![w] = SubSeq(@, n + 1, Len(@))]
    /\ sent' = IF Begun(w) THEN sent ELSE Append(sent, Head(out[w])[1])
    /\ torn' = (torn \/ \E v \in Writers \ {w} : Begun(v))
    /\ UNCHANGED <<stage, want, buf, got, up>>

LEMMA WriteStream ==
    ASSUME Types, RestsOfFrames, NEW w \in Writers, NEW n, Written(w, n)
    PROVE  /\ Types' /\ Len(wire') <= Capacity
           /\ Len(Stream') = Len(Stream) + n
           /\ \A i \in 1..Len(Stream) : Stream'[i] = Stream[i]
           /\ \A i \in Len(Stream) + 1..Len(Stream) + n :
                 Stream'[i] = <<FrameOf(w), NextOf(w) + i - Len(Stream) - 1>>
  <1> DEFINE part == SubSeq(out[w], 1, n)
             rest == SubSeq(out[w], n + 1, Len(out[w]))
  <1>1. /\ n \in Nat \ {0} /\ n <= Len(out[w]) /\ Len(out[w]) \in Nat
        /\ out[w] \in Seq(Bytes)
    <2>1. n \in 1..Len(out[w]) /\ out[w] # <<>>
      BY DEF Written
    <2>2. out[w] \in Seq(Bytes) /\ Len(out[w]) \in Nat
      BY <2>1, RestFacts
    <2> QED
      BY <2>1, <2>2
  <1>2. /\ part \in Seq(Bytes) /\ Len(part) = n
        /\ \A i \in 1..n : part[i] = out[w][i]
    BY <1>1, SubSeqProperties
  <1>3. rest \in Seq(Bytes)
    BY <1>1, SubSeqProperties
  <1> HIDE DEF part, rest
  <1>4. wire' = wire \o part /\ out' = [out EXCEPT ![w] = rest]
    BY DEF Written, part, rest
  <1>5. /\ wire' \in Seq(Bytes) /\ Len(wire') = Len(wire) + n
        /\ \A i \in 1..Len(wire) : wire'[i] = wire[i]
        /\ \A i \in Len(wire) + 1..Len(wire) + n :
              wire'[i] = part[i - Len(wire)]
    <2>1. wire \in Seq(Bytes)
      BY DEF Types
    <2> QED
      BY <1>2, <1>4, <2>1, ConcatFacts
  <1>6. sent' \in Seq(Frames)
    BY RestFacts, AppendProperties DEF Types, Written
  <1>7. Types' /\ Len(wire') <= Capacity
    <2>1. out' \in [Writers -> Seq(Bytes)]
      BY <1>3, <1>4 DEF Types
    <2>2. torn' \in BOOLEAN
      BY DEF Types, Written, Begun
    <2> QED
      BY <1>5, <1>6, <2>1, <2>2 DEF Types, Written
  <1>8. buf' = buf /\ Len(buf) \in Nat /\ Len(wire) \in Nat
    BY LenProperties DEF Types, Written
  <1>9. /\ Len(Stream) = Len(buf) + Len(wire)
        /\ Len(Stream') = Len(buf) + Len(wire')
        /\ \A i \in 1..Len(buf) : Stream'[i] = buf[i]
        /\ \A i \in Len(buf) + 1..Len(buf) + Len(wire') :
              Stream'[i] = wire'[i - Len(buf)]
    <2>1. /\ Stream' = buf \o wire' /\ buf \in Seq(Bytes)
          /\ wire' \in Seq(Bytes)
      BY <1>5, <1>8 DEF Stream, Types
    <2>2. Len(Stream) = Len(buf) + Len(wire)
      BY StreamFacts
    <2>3. /\ Len(buf \o wire') = Len(buf) + Len(wire')
          /\ \A i \in 1..Len(buf) : (buf \o wire')[i] = buf[i]
          /\ \A i \in Len(buf) + 1..Len(buf) + Len(wire') :
                (buf \o wire')[i] = wire'[i - Len(buf)]
      BY <2>1, ConcatFacts
    <2> QED
      BY <2>1, <2>2, <2>3
  <1>10. /\ \A i \in 1..Len(buf) : Stream[i] = buf[i]
         /\ \A i \in Len(buf) + 1..Len(Stream) :
               Stream[i] = wire[i - Len(buf)]
    BY StreamFacts
  <1>11. \A i \in 1..Len(Stream) : Stream'[i] = Stream[i]
    <2> SUFFICES ASSUME NEW i \in 1..Len(Stream) PROVE Stream'[i] = Stream[i]
      OBVIOUS
    <2>1. CASE i \in 1..Len(buf)
      BY <1>9, <1>10, <2>1
    <2>2. CASE i \in Len(buf) + 1..Len(Stream)
      <3>1. /\ i - Len(buf) \in 1..Len(wire)
            /\ i \in Len(buf) + 1..Len(buf) + Len(wire')
        BY <1>1, <1>5, <1>8, <1>9, <2>2
      <3> QED
        BY <1>5, <1>9, <1>10, <2>2, <3>1
    <2> QED
      BY <1>8, <1>9, <2>1, <2>2
  <1>12. ASSUME NEW i \in Len(Stream) + 1..Len(Stream) + n
         PROVE  Stream'[i] = <<FrameOf(w), NextOf(w) + i - Len(Stream) - 1>>
    <2>1. /\ i - Len(buf) \in Len(wire) + 1..Len(wire) + n
          /\ i \in Len(buf) + 1..Len(buf) + Len(wire')
          /\ i - Len(buf) - Len(wire) = i - Len(Stream)
          /\ i - Len(Stream) \in 1..n /\ i - Len(Stream) \in 1..Len(out[w])
      BY <1>1, <1>5, <1>8, <1>9
    <2>2. Stream'[i] = out[w][i - Len(Stream)]
      <3>1. Stream'[i] = wire'[i - Len(buf)]
        BY <1>9, <2>1
      <3>2. wire'[i - Len(buf)] = part[i - Len(buf) - Len(wire)]
        BY <1>5, <2>1
      <3>3. part[i - Len(Stream)] = out[w][i - Len(Stream)]
        BY <1>2, <2>1
      <3> QED
        BY <2>1, <3>1, <3>2, <3>3
    <2>3. out[w][i - Len(Stream)]
             = <<FrameOf(w), NextOf(w) + (i - Len(Stream)) - 1>>
      BY <2>1 DEF RestsOfFrames, Written
    <2>4. NextOf(w) + (i - Len(Stream)) - 1 = NextOf(w) + i - Len(Stream) - 1
      BY <1>1, <1>8, <1>9, RestFacts DEF Written
    <2> QED
      BY <2>2, <2>3, <2>4
  <1> QED
    BY <1>1, <1>5, <1>7, <1>8, <1>9, <1>11, <1>12

\* What is left of the frame being written.
LEMMA WriteRest ==
    ASSUME Types, RestsOfFrames, NEW w \in Writers, NEW n, Written(w, n)
    PROVE  /\ \A v \in Writers \ {w} : /\ out'[v] = out[v]
                                       /\ FrameOf(v)' = FrameOf(v)
                                       /\ NextOf(v)' = NextOf(v)
           /\ out'[w] # <<>> => /\ FrameOf(w)' = FrameOf(w)
                                /\ NextOf(w)' = NextOf(w) + n
                                /\ Len(out'[w]) = Len(out[w]) - n
                                /\ \A i \in 1..Len(out'[w]) :
                                      out'[w][i] = out[w][i + n]
  <1>1. /\ n \in Nat \ {0} /\ n <= Len(out[w]) /\ Len(out[w]) \in Nat
        /\ out[w] \in Seq(Bytes)
    <2>1. n \in 1..Len(out[w]) /\ out[w] # <<>>
      BY DEF Written
    <2>2. out[w] \in Seq(Bytes) /\ Len(out[w]) \in Nat
      BY <2>1, RestFacts
    <2> QED
      BY <2>1, <2>2
  <1>2. out'[w] = SubSeq(out[w], n + 1, Len(out[w]))
    BY DEF Written, Types
  <1>3. /\ out'[w] \in Seq(Bytes)
        /\ Len(out'[w]) = IF n < Len(out[w]) THEN Len(out[w]) - n ELSE 0
        /\ n < Len(out[w]) => \A i \in 1..Len(out[w]) - n :
                                 out'[w][i] = out[w][i + n]
    <2>1. /\ n + 1 \in Int /\ Len(out[w]) \in Int
          /\ \A i \in n + 1..Len(out[w]) : out[w][i] \in Bytes
          /\ n + 1 <= Len(out[w]) + 1
      BY <1>1
    <2>2. /\ SubSeq(out[w], n + 1, Len(out[w])) \in Seq(Bytes)
          /\ Len(SubSeq(out[w], n + 1, Len(out[w])))
                = IF n + 1 <= Len(out[w])
                  THEN Len(out[w]) - (n + 1) + 1 ELSE 0
          /\ \A i \in 1..Len(out[w]) - (n + 1) + 1 :
                SubSeq(out[w], n + 1, Len(out[w]))[i] = out[w][n + 1 + i - 1]
      BY <2>1, SubSeqProperties
    <2>3. \A i \in 1..Len(out[w]) - n :
             i \in 1..Len(out[w]) - (n + 1) + 1 /\ n + 1 + i - 1 = i + n
      BY <1>1
    <2> QED
      BY <1>1, <1>2, <2>2, <2>3
  <1>4. ASSUME out'[w] # <<>>
        PROVE  /\ FrameOf(w)' = FrameOf(w) /\ NextOf(w)' = NextOf(w) + n
               /\ Len(out'[w]) = Len(out[w]) - n
               /\ \A i \in 1..Len(out'[w]) : out'[w][i] = out[w][i + n]
    <2>1. n < Len(out[w])
      BY <1>1, <1>3, <1>4, EmptySeq
    <2>2. out'[w][1] = <<FrameOf(w), NextOf(w) + (n + 1) - 1>>
      BY <1>1, <1>3, <2>1 DEF RestsOfFrames, Written
    <2>3. NextOf(w) + (n + 1) - 1 = NextOf(w) + n
      BY <1>1, RestFacts DEF Written
    <2> QED
      BY <1>1, <1>3, <2>1, <2>2, <2>3 DEF FrameOf, NextOf
  <1>5. \A v \in Writers \ {w} : /\ out'[v] = out[v]
                                 /\ FrameOf(v)' = FrameOf(v)
                                 /\ NextOf(v)' = NextOf(v)
    BY DEF Written, Types, FrameOf, NextOf
  <1> QED
    BY <1>4, <1>5

\* What a write does to sent: nothing, or it adds the frame that is begun.
LEMMA WriteSent ==
    ASSUME Types, RestsOfFrames, NEW w \in Writers, NEW n, Written(w, n)
    PROVE  /\ Len(sent) \in Nat /\ Len(sent') \in Nat
           /\ Len(sent) <= Len(sent')
           /\ \A i \in 1..Len(sent) : sent'[i] = sent[i]
           /\ NextOf(w) > 1 => sent' = sent
           /\ NextOf(w) = 1 => /\ Len(sent') = Len(sent) + 1
                               /\ sent'[Len(sent) + 1] = FrameOf(w)
                               /\ \A i \in 1..Len(sent) : sent[i] # FrameOf(w)
           /\ \E l \in 1..Len(sent') : sent'[l] = FrameOf(w)
           /\ \A g : g # FrameOf(w) =>
                 (g \in ToSet(sent') <=> g \in ToSet(sent))
  <1> DEFINE f == FrameOf(w)
  <1>1. /\ NextOf(w) \in Nat \ {0} /\ f \in Frames /\ sent \in Seq(Frames)
        /\ Begun(w) <=> NextOf(w) > 1
        /\ Head(out[w])[1] = f
    BY RestFacts, HeaderAssumption DEF Types, Written
  <1>2. NextOf(w) > 1 <=> \E l \in 1..Len(sent) : sent[l] = f
    <2>1. NextOf(w) > 1 <=> f \in ToSet(sent)
      BY DEF RestsOfFrames, Written
    <2>2. DOMAIN sent = 1..Len(sent)
      BY <1>1
    <2> QED
      BY <2>1, <2>2 DEF ToSet
  <1>3. CASE NextOf(w) > 1
    <2>1. sent' = sent
      BY <1>1, <1>3 DEF Written
    <2> QED
      BY <1>1, <1>2, <1>3, <2>1
  <1>4. CASE NextOf(w) = 1
    <2>1. sent' = Append(sent, f)
      BY <1>1, <1>4 DEF Written
    <2> HIDE DEF f
    <2>2. /\ Len(sent') = Len(sent) + 1 /\ Len(sent) \in Nat
          /\ \A i \in 1..Len(sent) : sent'[i] = sent[i]
          /\ sent'[Len(sent) + 1] = f
      BY <1>1, <2>1, AppendProperties
    <2>3. \A g : g # f => (g \in ToSet(sent') <=> g \in ToSet(sent))
      <3>1. /\ DOMAIN sent = 1..Len(sent) /\ sent' \in Seq(Frames)
            /\ DOMAIN sent' = 1..Len(sent')
        BY <1>1, <2>1
      <3> QED
        BY <2>2, <3>1 DEF ToSet
    <2>4. \E l \in 1..Len(sent') : sent'[l] = f
      BY <2>2
    <2> QED
      BY <1>1, <1>2, <1>4, <2>2, <2>3, <2>4 DEF f
  <1> QED
    BY <1>1, <1>3, <1>4

\* A write keeps what is left to write, and the histories, as they should be.
LEMMA WriteKeepsRests ==
    ASSUME IInv, NEW w \in Writers, NEW n, Written(w, n)
    PROVE  RestsOfFrames' /\ FramesApart' /\ SentOnce' /\ GotIsPrefix'
  <1> USE DEF IInv
  <1>1. \A v \in Writers \ {w} : /\ out'[v] = out[v]
                                 /\ FrameOf(v)' = FrameOf(v)
                                 /\ NextOf(v)' = NextOf(v)
    BY WriteRest
  <1>2. out'[w] # <<>> => FrameOf(w)' = FrameOf(w)
    BY WriteRest
  <1>3. out[w] # <<>> /\ up /\ up' /\ got' = got
    BY DEF Written
  <1>4. RestsOfFrames'
    <2> SUFFICES ASSUME NEW v \in Writers, out'[v] # <<>>
                 PROVE  /\ up'
                        /\ Len(out'[v]) = Header + Size[FrameOf(v)'] + 1
                                              - NextOf(v)'
                        /\ \A i \in 1..Len(out'[v]) :
                              out'[v][i] = <<FrameOf(v)', NextOf(v)' + i - 1>>
                        /\ NextOf(v)' > 1 <=> FrameOf(v)' \in ToSet(sent')
      BY DEF RestsOfFrames
    <2>1. CASE v # w
      <3>1. FrameOf(v) # FrameOf(w)
        BY <1>1, <1>3, <2>1 DEF FramesApart
      <3>2. FrameOf(v) \in ToSet(sent') <=> FrameOf(v) \in ToSet(sent)
        BY <3>1, WriteSent
      <3> QED
        BY <1>1, <1>3, <2>1, <3>2 DEF RestsOfFrames
    <2>2. CASE v = w
      <3>1. /\ FrameOf(w)' = FrameOf(w) /\ NextOf(w)' = NextOf(w) + n
            /\ Len(out'[w]) = Len(out[w]) - n
            /\ \A i \in 1..Len(out'[w]) : out'[w][i] = out[w][i + n]
        BY <2>2, WriteRest
      <3>2. /\ NextOf(w) \in Nat \ {0} /\ Size[FrameOf(w)] \in Nat
            /\ Len(out[w]) \in Nat \ {0} /\ n \in 1..Len(out[w])
        BY <1>3, RestFacts, HeaderAssumption DEF Written
      <3>3. /\ Len(out[w]) = Header + Size[FrameOf(w)] + 1 - NextOf(w)
            /\ \A i \in 1..Len(out[w]) :
                  out[w][i] = <<FrameOf(w), NextOf(w) + i - 1>>
        BY <1>3 DEF RestsOfFrames
      <3>4. Len(out'[w]) = Header + Size[FrameOf(w)] + 1 - (NextOf(w) + n)
        <4>1. Header \in Nat
          BY HeaderAssumption
        <4>2. Len(out'[w]) = Len(out[w]) - n
          BY <3>1
        <4>3. Len(out[w]) = Header + Size[FrameOf(w)] + 1 - NextOf(w)
          BY <3>3
        <4>4. /\ n \in Nat /\ Len(out[w]) \in Nat /\ NextOf(w) \in Nat
              /\ Size[FrameOf(w)] \in Nat
          BY <3>2
        <4> DEFINE a == Len(out'[w])
                   b == Len(out[w])
                   c == Size[FrameOf(w)]
                   m == NextOf(w)
        <4> HIDE DEF IInv
        <4>5. /\ n \in Nat /\ b \in Nat /\ m \in Nat /\ c \in Nat
              /\ a = b - n /\ b = Header + c + 1 - m
          BY <4>2, <4>3, <4>4
        <4> HIDE DEF a, b, c, m
        <4>6. a = Header + c + 1 - (m + n)
          BY <4>1, <4>5
        <4> QED
          BY <4>6 DEF a, c, m
      <3>5. ASSUME NEW i \in 1..Len(out'[w])
            PROVE  out'[w][i] = <<FrameOf(w), (NextOf(w) + n) + i - 1>>
        <4>1. /\ i + n \in 1..Len(out[w])
              /\ NextOf(w) + (i + n) - 1 = (NextOf(w) + n) + i - 1
          BY <3>1, <3>2
        <4> QED
          BY <3>1, <3>3, <4>1
      <3>6. NextOf(w) + n > 1
        BY <3>2
      <3>7. FrameOf(w) \in ToSet(sent')
        <4>1. \E l \in 1..Len(sent') : sent'[l] = FrameOf(w)
          BY WriteSent
        <4>2. DOMAIN sent' = 1..Len(sent')
          BY WriteStream DEF Types
        <4> QED
          BY <4>1, <4>2 DEF ToSet
      <3> QED
        BY <1>3, <2>2, <3>1, <3>4, <3>5, <3>6, <3>7
    <2> QED
      BY <2>1, <2>2
  <1>5. FramesApart'
    BY <1>1, <1>2, <1>3 DEF FramesApart
  <1>6. SentOnce'
    <2>1. NextOf(w) \in Nat \ {0}
      BY <1>3, RestFacts, HeaderAssumption
    <2>2. CASE NextOf(w) > 1
      <3>1. sent' = sent
        BY <2>2, WriteSent
      <3> QED
        BY <3>1 DEF SentOnce
    <2>3. CASE NextOf(w) = 1
      <3>1. /\ Len(sent) \in Nat /\ Len(sent') = Len(sent) + 1
            /\ \A i \in 1..Len(sent) : sent'[i] = sent[i]
            /\ sent'[Len(sent) + 1] = FrameOf(w)
            /\ \A i \in 1..Len(sent) : sent[i] # FrameOf(w)
        BY <2>3, WriteSent
      <3> QED
        BY <3>1 DEF SentOnce
    <2> QED
      BY <2>1, <2>2, <2>3
  <1>7. GotIsPrefix'
    <2>1. Len(got) \in Nat
      BY DEF Types
    <2> QED
      BY <1>3, <2>1, WriteSent DEF GotIsPrefix
  <1> QED
    BY <1>4, <1>5, <1>6, <1>7

\* A stream in step is in step after a write.
LEMMA WriteKeepsStep ==
    ASSUME IInv, InStep, NEW w \in Writers, NEW n, Written(w, n)
    PROVE  InStep'
  <1> DEFINE f == FrameOf(w)
             m == NextOf(w)
             L == Len(Stream)
             K == Len(sent)
  <1>1. Types /\ RestsOfFrames /\ FramesApart /\ up /\ out[w] # <<>>
    BY DEF IInv, Written
  <1>2. /\ f \in Frames /\ m \in Nat \ {0} /\ n \in Nat \ {0} /\ L \in Nat
        /\ Len(got) \in Nat /\ K \in Nat /\ want \in Nat
    <2>1. /\ f \in Frames /\ m \in Nat \ {0} /\ n \in Nat \ {0}
      BY <1>1, RestFacts, HeaderAssumption DEF Written
    <2> QED
      BY <1>1, <2>1, StreamFacts DEF Types
  <1>3. /\ Len(Stream') = L + n
        /\ \A i \in 1..L : Stream'[i] = Stream[i]
        /\ \A i \in L + 1..L + n : Stream'[i] = <<f, m + i - L - 1>>
    BY <1>1, WriteStream
  <1>4. /\ K <= Len(sent') /\ Len(sent') \in Nat
        /\ \A i \in 1..K : sent'[i] = sent[i]
        /\ m > 1 => sent' = sent
        /\ m = 1 => /\ Len(sent') = K + 1 /\ sent'[K + 1] = f
                    /\ \A i \in 1..K : sent[i] # f
    BY <1>1, WriteSent
  <1>5. /\ stage' = stage /\ got' = got /\ want' = want /\ buf' = buf
        /\ up' = up
    BY DEF Written
  <1>6. /\ Counted /\ Unique /\ BytesInOrder /\ WritersGoOn
        /\ NotYetGot /\ FramesInOrder /\ NoneMissing
    BY DEF InStep
  <1>7. stage = "payload" => /\ Len(got) + 1 \in 1..K
                             /\ sent'[Len(got) + 1] = sent[Len(got) + 1]
    BY <1>2, <1>4, <1>6 DEF Counted
  <1>8. \A g : FirstLeft(g)' = FirstLeft(g)
    BY <1>5, <1>7 DEF FirstLeft
  <1>9. Opened' = Opened /\ Opened \in Nat
    BY <1>2, <1>5 DEF Opened
  <1>10. Counted'
    BY <1>2, <1>4, <1>5, <1>6, <1>7 DEF Counted
  <1>11. \A j \in 1..L :
            /\ Stream[j][1] \in Frames /\ Stream[j][2] \in Nat \ {0}
            /\ Stream[j] = <<Stream[j][1], Stream[j][2]>>
    BY <1>1, StreamFacts
  \* What is new is behind all there was of the same frame.
  <1>12. ASSUME NEW j \in 1..L, Stream[j][1] = f
         PROVE  Stream[j][2] < m
    <2>1. CASE m > 1
      BY <1>1, <1>6, <1>12, <2>1 DEF WritersGoOn
    <2>2. CASE m = 1
      <3>1. PICK l \in Len(got) + 1..K : f = sent[l]
        BY <1>6, <1>12 DEF NotYetGot
      <3>2. l \in 1..K
        BY <1>2
      <3> QED
        BY <1>4, <2>2, <3>1, <3>2
    <2> QED
      BY <1>2, <2>1, <2>2
  <1>13. /\ m >= FirstLeft(f) /\ FirstLeft(f) \in Nat
         /\ m > FirstLeft(f) => \E j \in 1..L : Stream[j] = <<f, m - 1>>
    <2>1. FirstLeft(f) \in {1, Header + 1} /\ Header + 1 \in Nat
      BY HeaderAssumption DEF FirstLeft
    <2>2. CASE m = 1
      <3>1. FirstLeft(f) = 1
        BY <1>4, <1>7, <2>2 DEF FirstLeft
      <3> QED
        BY <2>2, <3>1
    <2>3. CASE m > 1 /\ m # FirstLeft(f)
      <3>1. PICK j \in 1..L : Stream[j] = <<f, m - 1>>
        BY <1>1, <1>6, <2>3 DEF WritersGoOn
      <3>2. m - 1 >= FirstLeft(f)
        BY <1>6, <3>1 DEF BytesInOrder
      <3> QED
        BY <1>2, <2>1, <3>1, <3>2
    <2> QED
      BY <1>2, <2>1, <2>2, <2>3
  <1> HIDE DEF f, m, L, K
  <1>14. Unique'
    <2> SUFFICES ASSUME NEW i \in 1..L + n, NEW j \in 1..L + n, i < j
                 PROVE  Stream'[i] # Stream'[j]
      BY <1>2, <1>3 DEF Unique
    <2>1. CASE j \in 1..L
      BY <1>2, <1>3, <1>6, <2>1 DEF Unique, L
    <2>2. CASE i \in 1..L /\ j \in L + 1..L + n
      <3>1. m + j - L - 1 >= m
        BY <1>2, <2>2
      <3> QED
        <4>1. /\ Stream'[i] = <<Stream[i][1], Stream[i][2]>>
              /\ Stream[i][2] \in Nat
          BY <1>3, <1>11, <2>2
        <4>2. Stream'[j] = <<f, m + j - L - 1>>
          BY <1>3, <2>2
        <4>3. Stream[i][1] = f => Stream[i][2] < m + j - L - 1
          BY <1>2, <1>12, <2>2, <3>1, <4>1
        <4>4. Stream[i][1] # f \/ Stream[i][2] # m + j - L - 1
          BY <1>2, <2>2, <4>1, <4>3
        <4> QED
          BY <4>1, <4>2, <4>4
    <2>3. CASE i \in L + 1..L + n /\ j \in L + 1..L + n
      <3>1. m + i - L - 1 # m + j - L - 1
        BY <1>2, <2>3
      <3> QED
        BY <1>3, <2>3, <3>1
    <2> QED
      BY <1>2, <2>1, <2>2, <2>3
  <1>15. BytesInOrder'
    <2> SUFFICES ASSUME NEW i \in 1..L + n
                 PROVE  /\ Stream'[i][2] >= FirstLeft(Stream'[i][1])
                        /\ Stream'[i][2] > FirstLeft(Stream'[i][1])
                             => \E j \in 1..i - 1 :
                                   Stream'[j] = <<Stream'[i][1],
                                                  Stream'[i][2] - 1>>
      BY <1>3, <1>8 DEF BytesInOrder
    <2>1. CASE i \in 1..L
      <3>1. \A j \in 1..i - 1 : Stream'[j] = Stream[j]
        BY <1>2, <1>3, <2>1
      <3> QED
        BY <1>3, <1>6, <2>1, <3>1 DEF BytesInOrder, L
    <2>2. CASE i = L + 1
      <3>1. Stream'[i] = <<f, m>>
        BY <1>2, <1>3, <2>2
      <3>2. \A j \in 1..L : Stream'[j] = Stream[j] /\ j \in 1..i - 1
        BY <1>2, <1>3, <2>2
      <3> QED
        BY <1>13, <3>1, <3>2
    <2>3. CASE i \in L + 2..L + n
      <3> DEFINE b == m + i - L - 1
      <3>1. /\ i \in L + 1..L + n /\ i - 1 \in L + 1..L + n
            /\ i - 1 \in 1..i - 1
            /\ m + (i - 1) - L - 1 = b - 1
            /\ b > m /\ b \in Nat
        BY <1>2, <2>3
      <3>2. Stream'[i] = <<f, b>>
        BY <1>3, <3>1
      <3>3. Stream'[i - 1] = <<f, m + (i - 1) - L - 1>>
        BY <1>3, <3>1
      <3>4. Stream'[i - 1] = <<f, b - 1>>
        BY <3>1, <3>3
      <3> HIDE DEF b
      <3>5. b > FirstLeft(f) /\ b >= FirstLeft(f)
        <4>1. m \in Nat /\ FirstLeft(f) \in Nat /\ m >= FirstLeft(f)
          BY <1>2, <1>13
        <4>2. b \in Nat /\ b > m
          BY <3>1
        <4> QED
          BY <4>1, <4>2
      <3>6. Stream'[i][1] = f /\ Stream'[i][2] = b
        BY <3>2
      <3>7. Stream'[i - 1] = <<Stream'[i][1], Stream'[i][2] - 1>>
        BY <3>4, <3>6
      <3>8. \E j \in 1..i - 1 :
               Stream'[j] = <<Stream'[i][1], Stream'[i][2] - 1>>
        BY <3>1, <3>7
      <3>9. Stream'[i][2] >= FirstLeft(Stream'[i][1])
        BY <3>5, <3>6
      <3> QED
        BY <3>8, <3>9
    <2> QED
      BY <1>2, <2>1, <2>2, <2>3
  <1>16. WritersGoOn'
    <2> SUFFICES ASSUME NEW v \in Writers, out'[v] # <<>>, NextOf(v)' > 1
                 PROVE  /\ \/ NextOf(v)' = FirstLeft(FrameOf(v))'
                           \/ \E j \in 1..L + n :
                                 Stream'[j] = <<FrameOf(v)', NextOf(v)' - 1>>
                        /\ \A j \in 1..L + n :
                              Stream'[j][1] = FrameOf(v)'
                                 => Stream'[j][2] < NextOf(v)'
      BY <1>3 DEF WritersGoOn
    <2>1. CASE v # w
      <3>1. /\ out[v] = out'[v] /\ FrameOf(v)' = FrameOf(v)
            /\ NextOf(v)' = NextOf(v)
        BY <1>1, <2>1, WriteRest
      <3>2. FrameOf(v) # f
        BY <1>1, <2>1, <3>1 DEF FramesApart, f
      <3>3. FirstLeft(FrameOf(v))' = FirstLeft(FrameOf(v))
        BY <1>5, <1>7, <3>1 DEF FirstLeft
      <3>4. /\ \/ NextOf(v) = FirstLeft(FrameOf(v))
               \/ \E j \in 1..L : Stream[j] = <<FrameOf(v), NextOf(v) - 1>>
            /\ \A j \in 1..L :
                  Stream[j][1] = FrameOf(v) => Stream[j][2] < NextOf(v)
        BY <1>6, <3>1 DEF WritersGoOn, L
      <3>5. \A j \in L + 1..L + n : Stream'[j][1] # FrameOf(v)
        BY <1>3, <3>2
      <3>6. \A j \in 1..L : j \in 1..L + n /\ Stream'[j] = Stream[j]
        BY <1>2, <1>3
      <3>7. \A j \in 1..L + n : j \in 1..L \/ j \in L + 1..L + n
        BY <1>2
      <3>8. \A j \in 1..L + n :
               Stream'[j][1] = FrameOf(v) => Stream'[j][2] < NextOf(v)
        BY <3>4, <3>5, <3>6, <3>7
      <3>9. \/ NextOf(v) = FirstLeft(FrameOf(v))
            \/ \E j \in 1..L + n : Stream'[j] = <<FrameOf(v), NextOf(v) - 1>>
        BY <3>4, <3>6
      <3> QED
        BY <3>1, <3>3, <3>8, <3>9
    <2>2. CASE v = w
      <3>1. FrameOf(w)' = f /\ NextOf(w)' = m + n
        BY <1>1, <2>2, WriteRest DEF f, m
      <3>2. Stream'[L + n] = <<f, (m + n) - 1>> /\ L + n \in 1..L + n
        <4>1. m + (L + n) - L - 1 = (m + n) - 1 /\ L + n \in L + 1..L + n
          BY <1>2
        <4> QED
          BY <1>2, <1>3, <4>1
      <3>3. ASSUME NEW j \in 1..L + n, Stream'[j][1] = f
            PROVE  Stream'[j][2] < m + n
        <4>1. CASE j \in 1..L
          <5>1. Stream'[j] = Stream[j] /\ Stream[j][2] < m
            BY <1>3, <1>12, <3>3, <4>1
          <5> QED
            BY <1>2, <1>11, <4>1, <5>1
        <4>2. CASE j \in L + 1..L + n
          <5>1. Stream'[j][2] = m + j - L - 1
            BY <1>3, <4>2
          <5> QED
            BY <1>2, <4>2, <5>1
        <4> QED
          BY <1>2, <4>1, <4>2
      <3> QED
        BY <2>2, <3>1, <3>2, <3>3
    <2> QED
      BY <2>1, <2>2
  <1>17. NotYetGot'
    <2> SUFFICES ASSUME NEW i \in 1..L + n
                 PROVE  \E l \in Len(got) + 1..Len(sent') :
                           Stream'[i][1] = sent'[l]
      BY <1>3, <1>5 DEF NotYetGot
    <2>1. \A l \in Len(got) + 1..K :
             l \in Len(got) + 1..Len(sent') /\ sent'[l] = sent[l]
      BY <1>2, <1>4
    <2>2. CASE i \in 1..L
      BY <1>3, <1>6, <2>1, <2>2 DEF NotYetGot, L, K
    <2>3. CASE i \in L + 1..L + n
      <3>1. Stream'[i][1] = f
        BY <1>3, <2>3
      <3>2. CASE m = 1
        <4>1. Len(got) <= K
          BY DEF IInv, GotIsPrefix, K
        <4> QED
          BY <1>2, <1>4, <3>1, <3>2, <4>1
      <3>3. CASE m > FirstLeft(f)
        <4>1. PICK j \in 1..L : Stream[j] = <<f, m - 1>>
          BY <1>13, <3>3
        <4>2. PICK l \in Len(got) + 1..K : f = sent[l]
          BY <1>6, <4>1 DEF NotYetGot, L, K
        <4> QED
          BY <2>1, <3>1, <4>2
      <3>4. CASE m = FirstLeft(f) /\ m > 1
        <4>1. stage = "payload" /\ f = sent[Len(got) + 1]
          BY <3>4 DEF FirstLeft
        <4> QED
          BY <1>2, <1>7, <2>1, <3>1, <4>1
      <3> QED
        BY <1>2, <1>13, <3>2, <3>3, <3>4
    <2> QED
      BY <1>2, <2>2, <2>3
  <1>18. FramesInOrder'
    <2> SUFFICES ASSUME NEW j \in 1..L + n, NEW l \in 1..Len(sent'),
                        Stream'[j] = <<sent'[l], 1>>,
                        NEW k \in Opened + 1..l - 1
                 PROVE  \E i \in 1..j - 1 : Stream'[i] = <<sent'[k], 1>>
      <3>1. Len(Stream') = L + n /\ Opened' = Opened
        BY <1>3, <1>9
      <3> QED
        BY <3>1 DEF FramesInOrder
    <2>1. CASE j \in 1..L
      <3>1. Stream[j] = <<sent'[l], 1>>
        BY <1>3, <2>1
      <3>2. l \in 1..K
        <4> SUFFICES ASSUME l \notin 1..K PROVE FALSE
          OBVIOUS
        <4>1. m = 1 /\ sent'[l] = f
          BY <1>2, <1>4 DEF K
        <4>2. Stream[j][1] = f /\ Stream[j][2] = 1
          BY <3>1, <4>1
        <4> QED
          BY <1>12, <2>1, <4>1, <4>2
      <3>3. \E i \in 1..j - 1 : Stream[i] = <<sent[k], 1>>
        BY <1>4, <1>6, <2>1, <3>1, <3>2 DEF FramesInOrder, L, K
      <3>4. /\ \A i \in 1..j - 1 : Stream'[i] = Stream[i]
            /\ sent'[k] = sent[k]
        BY <1>2, <1>3, <1>4, <1>9, <2>1, <3>2
      <3> QED
        BY <3>3, <3>4
    <2>2. CASE j \in L + 1..L + n
      <3>1. f = sent'[l] /\ m + j - L - 1 = 1
        BY <1>3, <2>2
      <3>2. m = 1 /\ j = L + 1
        BY <1>2, <2>2, <3>1
      <3>3. k \in Opened + 1..K
        BY <1>2, <1>4, <1>9, <3>2
      <3>4. sent'[k] = sent[k]
        BY <1>2, <1>4, <1>9, <3>3
      <3>5. PICK i \in 1..L : Stream[i] = <<sent[k], 1>>
        BY <1>1, <1>6, <3>3 DEF NoneMissing, K, L
      <3>6. Stream'[i] = <<sent'[k], 1>>
        BY <1>3, <3>4, <3>5
      <3>7. i \in 1..j - 1
        BY <1>2, <3>2
      <3> QED
        BY <3>6, <3>7
    <2> QED
      BY <1>2, <2>1, <2>2
  <1>19. NoneMissing'
    <2> SUFFICES ASSUME NEW k \in Opened + 1..Len(sent')
                 PROVE  \E i \in 1..L + n : Stream'[i] = <<sent'[k], 1>>
      BY <1>3, <1>9 DEF NoneMissing
    <2>1. CASE k \in Opened + 1..K
      <3>1. \E i \in 1..L : Stream[i] = <<sent[k], 1>>
        BY <1>1, <1>6, <2>1 DEF NoneMissing, K, L
      <3>2. sent'[k] = sent[k]
        BY <1>2, <1>4, <1>9, <2>1
      <3>3. \A i \in 1..L : i \in 1..L + n /\ Stream'[i] = Stream[i]
        BY <1>2, <1>3
      <3> QED
        BY <3>1, <3>2, <3>3
    <2>2. CASE m = 1 /\ k = K + 1
      <3>1. Stream'[L + 1] = <<f, 1>> /\ L + 1 \in 1..L + n
        <4>1. L + 1 \in L + 1..L + n /\ m + (L + 1) - L - 1 = 1
          BY <1>2, <2>2
        <4> QED
          BY <1>2, <1>3, <4>1
      <3>2. sent'[k] = f
        BY <1>4, <2>2
      <3> QED
        BY <3>1, <3>2
    <2> QED
      BY <1>2, <1>4, <1>9, <2>1, <2>2 DEF K
  <1> QED
    BY <1>10, <1>14, <1>15, <1>16, <1>17, <1>18, <1>19 DEF InStep

\* A stream out of step is out of step after a write: what is written behind
\* it does not change its first byte, and what is written when it is empty
\* begins with one of a length.
LEMMA WriteKeepsOutOfStep ==
    ASSUME IInv, OutOfStep, NEW w \in Writers, NEW n, Written(w, n)
    PROVE  OutOfStep'
  <1>1. Types /\ RestsOfFrames /\ out[w] # <<>> /\ stage' = stage
    BY DEF IInv, Written
  <1>2. /\ Len(Stream) \in Nat /\ n \in Nat \ {0}
        /\ NextOf(w) \in Nat /\ Stream \in Seq(Bytes)
    BY <1>1, StreamFacts, RestFacts, HeaderAssumption DEF Written
  <1>3. /\ Len(Stream') = Len(Stream) + n
        /\ \A i \in 1..Len(Stream) : Stream'[i] = Stream[i]
        /\ \A i \in Len(Stream) + 1..Len(Stream) + n :
              Stream'[i] = <<FrameOf(w), NextOf(w) + i - Len(Stream) - 1>>
    BY <1>1, WriteStream
  <1>4. Stream' # <<>>
    BY <1>2, <1>3
  <1>5. CASE Stream # <<>>
    <2>1. Stream'[1] = Stream[1]
      BY <1>2, <1>3, <1>5
    <2> QED
      BY <1>1, <1>4, <1>5, <2>1 DEF OutOfStep
  <1>6. CASE Stream = <<>>
    <2>1. Len(Stream) = 0
      BY <1>6
    <2>2. Stream'[1] = <<FrameOf(w), NextOf(w)>>
      BY <1>2, <1>3, <2>1
    <2>3. NextOf(w) <= Header
      BY <1>1, <1>6 DEF OutOfStep
    <2> QED
      BY <1>1, <1>4, <2>2, <2>3 DEF OutOfStep
  <1> QED
    BY <1>5, <1>6

LEMMA WriteKeeps ==
    ASSUME IInv, NEW w \in Writers, Write(w)
    PROVE  IInv'
  <1>1. PICK n : Written(w, n)
    BY DEF Write, Written, readerVars
  <1>2. Types' /\ Len(wire') <= Capacity
    BY <1>1, WriteStream DEF IInv
  <1>3. RestsOfFrames' /\ FramesApart' /\ SentOnce' /\ GotIsPrefix'
    BY <1>1, WriteKeepsRests
  <1>4. InStep => InStep'
    BY <1>1, WriteKeepsStep
  <1>5. OutOfStep => OutOfStep'
    BY <1>1, WriteKeepsOutOfStep
  <1>6. Reading' => Reading
    BY <1>1 DEF Reading, Written
  <1> QED
    BY <1>2, <1>3, <1>4, <1>5, <1>6 DEF IInv

-----------------------------------------------------------------------------
\* The connection breaks: the end of what is on its way is lost, and a stream
\* that was in step is in step up to there.
LEMMA BreakKeeps ==
    ASSUME IInv, Break
    PROVE  IInv'
  <1>1. /\ up' = FALSE /\ out' = [w \in Writers |-> <<>>]
        /\ UNCHANGED <<stage, want, buf, got, sent, torn>>
    BY DEF Break, readerVars
  <1>2. Types
    BY DEF IInv
  <1>3. PICK n \in 0..Len(wire) : wire' = SubSeq(wire, 1, n)
    BY DEF Break
  <1>4. /\ wire' \in Seq(Bytes) /\ Len(wire') = n
        /\ \A i \in 1..n : wire'[i] = wire[i]
    <2>1. /\ wire \in Seq(Bytes) /\ Len(wire) \in Nat
          /\ \A i \in 1..n : wire[i] \in Bytes /\ 1 + i - 1 = i
          /\ n - 1 + 1 = n /\ n \in Int /\ (1 <= n \/ n = 0)
      BY <1>2, <1>3 DEF Types
    <2> QED
      BY <1>3, <2>1, SubSeqProperties
  <1>5. Types' /\ Len(wire') <= Capacity
    <2>1. out' \in [Writers -> Seq(Bytes)]
      <3>1. <<>> \in Seq(Bytes)
        OBVIOUS
      <3> QED
        BY <1>1, <3>1
    <2>2. Len(wire) \in Nat /\ Len(wire) <= Capacity
      BY <1>2 DEF Types, IInv
    <2>3. Len(wire') <= Capacity
      BY <1>3, <1>4, <2>2, LimitsAssumption
    <2>4. Types'
      BY <1>1, <1>2, <1>4, <2>1 DEF Types
    <2> QED
      BY <2>3, <2>4
  <1>6. \A w \in Writers : out'[w] = <<>>
    BY <1>1
  <1>7. RestsOfFrames' /\ FramesApart'
    BY <1>6 DEF RestsOfFrames, FramesApart
  <1>8. SentOnce' /\ GotIsPrefix'
    BY <1>1 DEF IInv, SentOnce, GotIsPrefix
  <1>9. /\ Len(Stream') \in 0..Len(Stream) /\ Len(Stream) \in Nat
        /\ \A i \in 1..Len(Stream') : /\ i \in 1..Len(Stream)
                                      /\ Stream'[i] = Stream[i]
        /\ Stream \in Seq(Bytes) /\ Stream' \in Seq(Bytes)
    <2>1. /\ Stream' = buf \o wire' /\ buf \in Seq(Bytes)
          /\ wire' \in Seq(Bytes) /\ wire \in Seq(Bytes)
      BY <1>1, <1>2, <1>4 DEF Stream, Types
    <2>2. Stream' \in Seq(Bytes) /\ Len(Stream') = Len(buf) + Len(wire')
      BY <2>1, ConcatFacts
    <2>3. /\ \A i \in 1..Len(buf) : Stream'[i] = buf[i]
          /\ \A i \in Len(buf) + 1..Len(buf) + Len(wire') :
                Stream'[i] = wire'[i - Len(buf)]
      <3>1. /\ \A i \in 1..Len(buf) : (buf \o wire')[i] = buf[i]
            /\ \A i \in Len(buf) + 1..Len(buf) + Len(wire') :
                  (buf \o wire')[i] = wire'[i - Len(buf)]
        BY <2>1, ConcatFacts
      <3> QED
        BY <2>1, <3>1
    <2>4. /\ Stream \in Seq(Bytes) /\ Len(Stream) = Len(buf) + Len(wire)
          /\ \A i \in 1..Len(buf) : Stream[i] = buf[i]
          /\ \A i \in Len(buf) + 1..Len(Stream) :
                Stream[i] = wire[i - Len(buf)]
      BY <1>2, StreamFacts
    <2>5. Len(buf) \in Nat /\ Len(wire) \in Nat
      BY <2>1
    <2>6. ASSUME NEW i \in 1..Len(Stream')
          PROVE  i \in 1..Len(Stream) /\ Stream'[i] = Stream[i]
      <3>1. CASE i \in 1..Len(buf)
        BY <2>3, <2>4, <2>5, <3>1
      <3>2. CASE i \in Len(buf) + 1..Len(buf) + n
        <4>1. i \in Len(buf) + 1..Len(Stream) /\ i - Len(buf) \in 1..n
          BY <1>3, <2>4, <2>5, <3>2
        <4> QED
          BY <1>4, <2>3, <2>4, <2>5, <3>2, <4>1
      <3> QED
        BY <1>4, <2>2, <2>5, <3>1, <3>2
    <2> QED
      BY <1>3, <1>4, <2>2, <2>4, <2>5, <2>6
  <1>10. InStep => InStep'
    <2> SUFFICES ASSUME InStep PROVE InStep'
      OBVIOUS
    <2>1. /\ Counted /\ Unique /\ BytesInOrder /\ WritersGoOn
          /\ NotYetGot /\ FramesInOrder /\ NoneMissing
      BY DEF InStep
    <2>2. Counted'
      BY <1>1, <2>1 DEF Counted
    <2>3. Unique'
      BY <1>9, <2>1 DEF Unique
    <2>4. BytesInOrder'
      <3> SUFFICES ASSUME NEW i \in 1..Len(Stream')
                   PROVE  /\ Stream'[i][2] >= FirstLeft(Stream'[i][1])
                          /\ Stream'[i][2] > FirstLeft(Stream'[i][1])
                               => \E j \in 1..i - 1 :
                                     Stream'[j] = <<Stream'[i][1],
                                                    Stream'[i][2] - 1>>
        <4>1. \A g : FirstLeft(g)' = FirstLeft(g)
          BY <1>1 DEF FirstLeft
        <4> QED
          BY <4>1 DEF BytesInOrder
      <3>1. \A j \in 1..i - 1 : Stream'[j] = Stream[j]
        BY <1>9
      <3> QED
        BY <1>9, <2>1, <3>1 DEF BytesInOrder
    <2>5. WritersGoOn'
      BY <1>6 DEF WritersGoOn
    <2>6. NotYetGot'
      <3> SUFFICES ASSUME NEW i \in 1..Len(Stream')
                   PROVE  \E l \in Len(got) + 1..Len(sent) :
                             Stream'[i][1] = sent[l]
        BY <1>1 DEF NotYetGot
      <3>1. i \in 1..Len(Stream) /\ Stream'[i] = Stream[i]
        BY <1>9
      <3> QED
        BY <2>1, <3>1 DEF NotYetGot
    <2>7. FramesInOrder'
      <3> SUFFICES ASSUME NEW j \in 1..Len(Stream'), NEW l \in 1..Len(sent'),
                          Stream'[j] = <<sent'[l], 1>>,
                          NEW k \in Opened' + 1..l - 1
                   PROVE  \E i \in 1..j - 1 : Stream'[i] = <<sent'[k], 1>>
        BY DEF FramesInOrder
      <3>1. Opened' = Opened
        BY <1>1 DEF Opened
      <3>2. /\ j \in 1..Len(Stream) /\ l \in 1..Len(sent)
            /\ k \in Opened + 1..l - 1 /\ Stream[j] = <<sent[l], 1>>
        BY <1>1, <1>9, <3>1
      <3>3. \E i \in 1..j - 1 : Stream[i] = <<sent[k], 1>>
        BY <2>1, <3>2 DEF FramesInOrder
      <3>4. \A i \in 1..j - 1 : Stream'[i] = Stream[i]
        BY <1>9
      <3> QED
        BY <1>1, <3>3, <3>4
    <2>8. NoneMissing'
      BY <1>1 DEF NoneMissing
    <2> QED
      BY <2>2, <2>3, <2>4, <2>5, <2>6, <2>7, <2>8 DEF InStep
  <1>11. OutOfStep => OutOfStep'
    <2>1. Stream' # <<>> => Stream # <<>> /\ Stream'[1] = Stream[1]
      BY <1>9
    <2> QED
      BY <1>1, <1>6, <2>1 DEF OutOfStep
  <1> QED
    BY <1>1, <1>5, <1>7, <1>8, <1>10, <1>11 DEF IInv, Reading

-----------------------------------------------------------------------------
(* The reader.                                                             *)

\* Receiving moves bytes from the wire to the buffer: the stream is the same.
LEMMA ReceiveKeeps ==
    ASSUME IInv, Receive
    PROVE  IInv'
  <1>1. PICK n \in 1..Len(wire) : /\ n <= want
                                  /\ buf' = buf \o SubSeq(wire, 1, n)
                                  /\ want' = want - n
                                  /\ wire' = SubSeq(wire, n + 1, Len(wire))
    BY DEF Receive
  <1>2. UNCHANGED <<stage, got, out, sent, torn, up>>
    BY DEF Receive, writerVars
  <1>3. Types /\ Len(wire) <= Capacity
    BY DEF IInv
  <1>4. /\ wire \in Seq(Bytes) /\ buf \in Seq(Bytes) /\ want \in Nat
        /\ Len(wire) \in Nat /\ Len(buf) \in Nat /\ n \in Nat
    BY <1>3 DEF Types
  <1> DEFINE part == SubSeq(wire, 1, n)
             rest == SubSeq(wire, n + 1, Len(wire))
  <1>5. /\ part \in Seq(Bytes) /\ Len(part) = n
        /\ rest \in Seq(Bytes) /\ Len(rest) = Len(wire) - n
        /\ part \o rest = wire
    <2>1. \A i \in 1..Len(wire) : wire[i] \in Bytes
      BY <1>4
    <2>2. part \in Seq(Bytes) /\ Len(part) = n
      <3>1. /\ 1 <= n /\ n - 1 + 1 = n /\ \A i \in 1..n : wire[i] \in Bytes
        BY <1>4, <2>1
      <3> QED
        BY <1>4, <3>1, SubSeqProperties
    <2>3. rest \in Seq(Bytes) /\ Len(rest) = Len(wire) - n
      <3>1. /\ \A i \in n + 1..Len(wire) : wire[i] \in Bytes
            /\ n + 1 \in Int /\ Len(wire) \in Int
        BY <1>4, <2>1
      <3>2. /\ rest \in Seq(Bytes)
            /\ Len(rest) = IF n + 1 <= Len(wire)
                           THEN Len(wire) - (n + 1) + 1 ELSE 0
        BY <3>1, SubSeqProperties
      <3> QED
        BY <1>4, <3>2
    <2>4. part \o rest = SubSeq(wire, 1, Len(wire))
      BY <1>4, ConcatAdjacentSubSeq
    <2>5. SubSeq(wire, 1, Len(wire)) = wire
      BY <1>4, SubSeqFull
    <2> QED
      BY <2>2, <2>3, <2>4, <2>5
  <1> HIDE DEF part, rest
  <1>6. buf' = buf \o part /\ wire' = rest
    BY <1>1 DEF part, rest
  <1>7. buf' \in Seq(Bytes) /\ Len(buf') = Len(buf) + n
    BY <1>4, <1>5, <1>6, ConcatFacts
  <1>8. Types' /\ Len(wire') <= Capacity
    <2>1. want' \in Nat
      BY <1>1, <1>4
    <2>2. Len(wire') <= Capacity
      BY <1>3, <1>4, <1>5, <1>6, LimitsAssumption
    <2> QED
      BY <1>2, <1>3, <1>5, <1>6, <1>7, <2>1, <2>2 DEF Types
  <1>9. Stream' = Stream
    <2>1. (buf \o part) \o rest = buf \o (part \o rest)
      <3>1. buf \in Seq(Bytes) /\ part \in Seq(Bytes) /\ rest \in Seq(Bytes)
        BY <1>4, <1>5
      <3> QED
        BY <3>1, ConcatAssociative
    <2> QED
      BY <1>5, <1>6, <2>1 DEF Stream
  <1>10. \A w : FrameOf(w)' = FrameOf(w) /\ NextOf(w)' = NextOf(w)
    BY <1>2 DEF FrameOf, NextOf
  <1>11. RestsOfFrames' /\ FramesApart' /\ SentOnce' /\ GotIsPrefix'
    <2>1. RestsOfFrames'
      BY <1>2, <1>10 DEF IInv, RestsOfFrames
    <2>2. FramesApart'
      BY <1>2, <1>10 DEF IInv, FramesApart
    <2>3. SentOnce' /\ GotIsPrefix'
      BY <1>2 DEF IInv, SentOnce, GotIsPrefix
    <2> QED
      BY <2>1, <2>2, <2>3
  <1>12. InStep => InStep'
    <2> SUFFICES ASSUME InStep PROVE InStep'
      OBVIOUS
    <2>1. Counted'
      <3>1. want' + Len(buf') = want + Len(buf)
        BY <1>1, <1>4, <1>7
      <3> QED
        BY <1>2, <3>1 DEF InStep, Counted
    <2>2. WritersGoOn'
      <3>1. \A w : FirstLeft(FrameOf(w))' = FirstLeft(FrameOf(w))
        BY <1>2, <1>10 DEF FirstLeft
      <3> QED
        BY <1>2, <1>9, <1>10, <3>1 DEF InStep, WritersGoOn
    <2> QED
      BY <1>2, <1>9, <2>1, <2>2, SameStream DEF InStep
  <1>13. OutOfStep => OutOfStep'
    BY <1>2, <1>9, <1>10 DEF OutOfStep
  <1> QED
    BY <1>2, <1>8, <1>11, <1>12, <1>13 DEF IInv, Reading

\* A reader that has ended has nothing to be in step with.
LEMMA EndKeeps ==
    ASSUME IInv, NEW reason \in {"eof", "truncated", "oversized", "invalid"},
           End(reason)
    PROVE  IInv' /\ ~Reading'
  <1>1. /\ stage' = reason /\ want' = 0 /\ buf' = <<>>
        /\ UNCHANGED <<got, out, sent, torn, wire, up>>
    BY DEF End, writerVars
  <1>2. Types' /\ Len(wire') <= Capacity
    <2>1. buf' \in Seq(Bytes)
      BY <1>1
    <2> QED
      BY <1>1, <2>1 DEF IInv, Types
  <1>3. \A w : FrameOf(w)' = FrameOf(w) /\ NextOf(w)' = NextOf(w)
    BY <1>1 DEF FrameOf, NextOf
  <1>4. RestsOfFrames'
    BY <1>1, <1>3 DEF IInv, RestsOfFrames
  <1>5. FramesApart'
    BY <1>1, <1>3 DEF IInv, FramesApart
  <1>6. SentOnce' /\ GotIsPrefix'
    BY <1>1 DEF IInv, SentOnce, GotIsPrefix
  <1>7. ~Reading'
    BY <1>1 DEF Reading
  <1> QED
    BY <1>2, <1>4, <1>5, <1>6, <1>7 DEF IInv

\* What the stream is once the reader has used what it has.
LEMMA DropFacts ==
    ASSUME Types, buf' = <<>>, wire' = wire
    PROVE  /\ Stream' = wire /\ Stream \in Seq(Bytes)
           /\ Len(buf) \in Nat /\ Len(Stream) \in Nat /\ Len(Stream') \in Nat
           /\ Len(Stream) = Len(buf) + Len(Stream')
           /\ \A i \in 1..Len(Stream') :
                 /\ i + Len(buf) \in Len(buf) + 1..Len(Stream)
                 /\ Stream'[i] = Stream[i + Len(buf)]
  <1>1. /\ wire \in Seq(Bytes) /\ buf \in Seq(Bytes)
        /\ Len(buf) \in Nat /\ Len(wire) \in Nat
    BY DEF Types
  <1>2. Stream' = wire
    BY <1>1, ConcatEmptySeq DEF Stream
  <1>3. /\ Stream \in Seq(Bytes) /\ Len(Stream) = Len(buf) + Len(wire)
        /\ \A i \in Len(buf) + 1..Len(Stream) : Stream[i] = wire[i - Len(buf)]
    BY StreamFacts
  <1>4. ASSUME NEW i \in 1..Len(wire)
        PROVE  /\ i + Len(buf) \in Len(buf) + 1..Len(Stream)
               /\ wire[i] = Stream[i + Len(buf)]
    <2>1. /\ i + Len(buf) \in Len(buf) + 1..Len(Stream)
          /\ i + Len(buf) - Len(buf) = i
      BY <1>1, <1>3
    <2> QED
      BY <1>3, <2>1
  <1> QED
    BY <1>1, <1>2, <1>3, <1>4

LEMMA StreamEndsKeeps ==
    ASSUME IInv, StreamEnds
    PROVE  IInv' /\ ~Reading'
  BY EndKeeps DEF StreamEnds

\* A length is the first bytes of an encoding, byte by byte.
LEMMA LengthFacts ==
    ASSUME NEW f \in Frames
    PROVE  /\ SubSeq(Encoding(f), 1, Header) \in Seq(Bytes)
           /\ Len(SubSeq(Encoding(f), 1, Header)) = Header
           /\ \A i \in 1..Header : SubSeq(Encoding(f), 1, Header)[i] = <<f, i>>
  <1>1. /\ Header \in Nat \ {0}
        /\ \A i \in 1..Header :
              Encoding(f)[i] = <<f, i>> /\ Encoding(f)[i] \in Bytes
    <2>1. \A i \in 1..Header : i \in 1..Header + Size[f]
      BY EncodingFacts, HeaderAssumption
    <2>2. /\ Encoding(f) \in Seq(Bytes) /\ Len(Encoding(f)) = Header + Size[f]
          /\ \A i \in 1..Header + Size[f] : Encoding(f)[i] = <<f, i>>
      BY EncodingFacts
    <2> QED
      BY <2>1, <2>2, ElementOfSeq, HeaderAssumption
  <1>2. \A i \in 1..Header : 1 + i - 1 = i
    OBVIOUS
  <1>3. 1 \in Int /\ Header \in Int /\ 1 <= Header /\ Header - 1 + 1 = Header
    BY <1>1
  <1>4. /\ SubSeq(Encoding(f), 1, Header) \in Seq(Bytes)
        /\ Len(SubSeq(Encoding(f), 1, Header)) = Header - 1 + 1
        /\ \A i \in 1..Header - 1 + 1 :
              SubSeq(Encoding(f), 1, Header)[i] = Encoding(f)[1 + i - 1]
    BY <1>1, <1>3, SubSeqProperties
  <1> QED
    BY <1>1, <1>2, <1>3, <1>4

\* In step, a length that is all there is the beginning of the next frame's
\* encoding, whenever it is the beginning of one.
LEMMA HeaderIsOfNext ==
    ASSUME Types, InStep, SentOnce, stage = "header", want = 0,
           NEW f \in Frames, IsHeader(buf, f)
    PROVE  /\ Len(got) < Len(sent) /\ f = sent[Len(got) + 1]
           /\ \A m \in 1..Header : Stream[m] = <<f, m>>
           /\ Len(buf) = Header /\ Len(Stream) \in Nat /\ Header <= Len(Stream)
  <1>1. Len(buf) \in Nat /\ Len(wire) \in Nat /\ Len(buf) = Header
    BY HeaderAssumption DEF Types, InStep, Counted
  <1>2. \A m \in 1..Header : buf[m] = <<f, m>>
    BY LengthFacts DEF IsHeader
  <1>3. /\ \A m \in 1..Header : Stream[m] = <<f, m>>
        /\ Len(Stream) \in Nat /\ Header <= Len(Stream)
    BY <1>1, <1>2, StreamFacts
  <1>3a. 1 \in 1..Len(Stream) /\ Stream[1] = <<f, 1>>
    BY <1>3, HeaderAssumption
  <1>4. PICK l \in Len(got) + 1..Len(sent) : f = sent[l]
    BY <1>3a DEF InStep, NotYetGot
  <1>5. Len(got) \in Nat /\ Len(sent) \in Nat
    BY DEF Types
  <1>6. l = Len(got) + 1
    <2> SUFFICES ASSUME l # Len(got) + 1 PROVE FALSE
      OBVIOUS
    <2>1. Opened = Len(got)
      BY DEF Opened
    <2>2. Len(got) + 1 \in Opened + 1..l - 1 /\ l \in 1..Len(sent)
      BY <1>4, <1>5, <2>1
    <2>3. \E i \in 1..1 - 1 : Stream[i] = <<sent[Len(got) + 1], 1>>
      BY <1>3a, <1>4, <2>2 DEF InStep, FramesInOrder
    <2> QED
      BY <2>3
  <1> QED
    BY <1>1, <1>3, <1>4, <1>5, <1>6

\* Before a byte come all the earlier bytes of its frame, each in time.
LEMMA BytesBefore ==
    ASSUME Types, InStep, stage = "header"
    PROVE  \A d \in Nat : \A i \in 1..Len(Stream) : \A g \in Frames, n \in Nat :
              Stream[i] = <<g, n>> /\ d < n =>
                  \E j \in 1..i - d : Stream[j] = <<g, n - d>>
  <1> DEFINE L == Len(Stream)
             Back(d) == \A i \in 1..L : \A g \in Frames, n \in Nat :
                           Stream[i] = <<g, n>> /\ d < n =>
                               \E j \in 1..i - d : Stream[j] = <<g, n - d>>
             T == {d \in Nat : Back(d)}
  <1>1. L \in Nat
    BY StreamFacts DEF Types
  <1>2. \A i \in 1..L : \A g \in Frames, n \in Nat :
           Stream[i] = <<g, n>> /\ n > 1 =>
               \E j \in 1..i - 1 : Stream[j] = <<g, n - 1>>
    <2> SUFFICES ASSUME NEW i \in 1..L, NEW g \in Frames, NEW n \in Nat,
                        Stream[i] = <<g, n>>, n > 1
                 PROVE  \E j \in 1..i - 1 : Stream[j] = <<g, n - 1>>
      OBVIOUS
    <2>1. Stream[i][1] = g /\ Stream[i][2] = n /\ FirstLeft(g) = 1
      BY DEF FirstLeft
    <2> QED
      BY <2>1 DEF InStep, BytesInOrder
  <1> HIDE DEF L
  <1>3. Back(0)
    <2> SUFFICES ASSUME NEW i \in 1..L, NEW g \in Frames, NEW n \in Nat,
                        Stream[i] = <<g, n>>
                 PROVE  \E j \in 1..i - 0 : Stream[j] = <<g, n - 0>>
      OBVIOUS
    <2>1. i \in 1..i - 0 /\ n - 0 = n
      OBVIOUS
    <2> QED
      BY <2>1
  <1>4. ASSUME NEW d \in Nat, Back(d) PROVE Back(d + 1)
    <2> SUFFICES ASSUME NEW i \in 1..L, NEW g \in Frames, NEW n \in Nat,
                        Stream[i] = <<g, n>>, d + 1 < n
                 PROVE  \E j \in 1..i - (d + 1) : Stream[j] = <<g, n - (d + 1)>>
      OBVIOUS
    <2>1. d < n /\ n - d \in Nat /\ n - d > 1
      OBVIOUS
    <2>2. PICK j \in 1..i - d : Stream[j] = <<g, n - d>>
      BY <1>4, <2>1
    <2>3. j \in 1..L
      BY <1>1
    <2>4. PICK k \in 1..j - 1 : Stream[k] = <<g, (n - d) - 1>>
      BY <1>2, <2>1, <2>2, <2>3
    <2>5. k \in 1..i - (d + 1) /\ (n - d) - 1 = n - (d + 1)
      OBVIOUS
    <2> QED
      BY <2>4, <2>5
  <1> HIDE DEF Back
  <1>5. 0 \in T /\ \A d \in Nat : d \in T => d + 1 \in T
    BY <1>3, <1>4
  <1>6. \A d \in Nat : d \in T
    BY <1>5, InductionOnSet
  <1> QED
    BY <1>6 DEF Back, L

\* A byte has at least as many bytes before it as its frame has; when it has
\* just these, they are those of its frame.
LEMMA NoSooner ==
    ASSUME Types, InStep, stage = "header",
           NEW i \in 1..Len(Stream), NEW g \in Frames, NEW n \in Nat \ {0},
           Stream[i] = <<g, n>>
    PROVE  n <= i /\ (n = i => \A m \in 1..i : Stream[m] = <<g, m>>)
  <1> DEFINE L == Len(Stream)
  <1>1. L \in Nat
    BY StreamFacts DEF Types
  <1>2. \A d \in Nat : \A k \in 1..L : \A q \in Nat :
           Stream[k] = <<g, q>> /\ d < q =>
               \E j \in 1..k - d : Stream[j] = <<g, q - d>>
    BY BytesBefore
  <1> HIDE DEF L
  <1>3. ASSUME NEW k \in 1..L, NEW q \in Nat \ {0}, Stream[k] = <<g, q>>
        PROVE  q <= k
    <2>1. q - 1 \in Nat /\ q - 1 < q /\ q \in Nat
      OBVIOUS
    <2>2. PICK j \in 1..k - (q - 1) : Stream[j] = <<g, q - (q - 1)>>
      BY <1>2, <1>3, <2>1
    <2> QED
      BY <1>1
  <1>4. n <= i
    BY <1>3 DEF L
  <1>5. ASSUME n = i, NEW m \in 1..i PROVE Stream[m] = <<g, m>>
    <2>1. i - m \in Nat /\ i - m < n /\ n - (i - m) = m /\ i - (i - m) = m
      BY <1>5
    <2>2. PICK j \in 1..m : Stream[j] = <<g, m>>
      <3> DEFINE d == i - m
      <3>1. i \in 1..L /\ n \in Nat /\ Stream[i] = <<g, n>>
        BY DEF L
      <3>2. d \in Nat /\ d < n /\ n - d = m /\ i - d = m
        BY <2>1
      <3> HIDE DEF d
      <3>3. \E j \in 1..i - d : Stream[j] = <<g, n - d>>
        BY <1>2, <3>1, <3>2
      <3> QED
        BY <3>2, <3>3
    <2>3. j \in 1..L /\ m \in Nat \ {0}
      BY <1>1 DEF L
    <2>4. m <= j
      BY <1>3, <2>2, <2>3
    <2>5. j = m
      BY <2>4
    <2> QED
      BY <2>2, <2>5
  <1> QED
    BY <1>4, <1>5

\* A length that is not the beginning of an encoding has bytes of two frames,
\* and no byte behind it is one of a text.
LEMMA BehindMixed ==
    ASSUME Types, InStep, stage = "header", want = 0,
           \A f \in Frames : ~IsHeader(buf, f)
    PROVE  /\ Len(Stream) > Header => Stream[Header + 1][2] <= Header
           /\ Len(Stream) = Header =>
                 \A w \in Writers : out[w] # <<>> => NextOf(w) <= Header
  <1> USE HeaderAssumption
  <1>1. Len(buf) \in Nat /\ Len(wire) \in Nat /\ Len(buf) = Header
    BY DEF Types, InStep, Counted
  <1>2. /\ Len(Stream) \in Nat /\ Len(Stream) >= Header
        /\ \A i \in 1..Header : Stream[i] = buf[i]
        /\ \A i \in 1..Len(Stream) :
              /\ Stream[i][1] \in Frames /\ Stream[i][2] \in Nat \ {0}
              /\ Stream[i] = <<Stream[i][1], Stream[i][2]>>
    BY <1>1, StreamFacts
  <1>3. \A g : FirstLeft(g) = 1
    BY DEF FirstLeft
  <1>4. ASSUME NEW g \in Frames, \A m \in 1..Header : Stream[m] = <<g, m>>
        PROVE  FALSE
    <2> DEFINE h == SubSeq(Encoding(g), 1, Header)
    <2>1. /\ h \in Seq(Bytes) /\ Len(h) = Header
          /\ \A i \in 1..Header : h[i] = <<g, i>>
      BY LengthFacts
    <2> HIDE DEF h
    <2>2. /\ buf \in Seq(Bytes)
          /\ \A i \in 1..Len(buf) : buf[i] = h[i]
      BY <1>1, <1>2, <1>4, <2>1 DEF Types
    <2>3. buf = h
      BY <1>1, <2>1, <2>2, SeqEqual
    <2> QED
      BY <2>3 DEF IsHeader, h
  \* The last byte of a length or one of a text has its whole length before it.
  <1>5. ASSUME NEW g \in Frames, NEW n \in Nat, n >= Header,
               NEW j \in 1..Header, Stream[j] = <<g, n>>
        PROVE  FALSE
    <2>1. j \in 1..Len(Stream) /\ n \in Nat \ {0}
      BY <1>2, <1>5
    <2>2. n <= j /\ (n = j => \A m \in 1..j : Stream[m] = <<g, m>>)
      BY <1>5, <2>1, NoSooner
    <2>3. n = j /\ j = Header
      BY <1>5, <2>2
    <2> QED
      BY <1>4, <2>2, <2>3
  <1>6. ASSUME Len(Stream) > Header PROVE Stream[Header + 1][2] <= Header
    <2> DEFINE g == Stream[Header + 1][1]
               n == Stream[Header + 1][2]
    <2>1. /\ Header + 1 \in 1..Len(Stream) /\ g \in Frames /\ n \in Nat
      BY <1>2, <1>6
    <2> SUFFICES ASSUME n > Header PROVE FALSE
      BY <2>1
    <2>2. PICK j \in 1..Header : Stream[j] = <<g, n - 1>>
      <3>1. n > FirstLeft(g) /\ (Header + 1) - 1 = Header
        BY <1>3, <2>1
      <3> QED
        BY <2>1, <3>1 DEF InStep, BytesInOrder
    <2> HIDE DEF g, n
    <2>3. n - 1 \in Nat /\ n - 1 >= Header
      BY <2>1
    <2> QED
      BY <1>5, <2>1, <2>2, <2>3
  <1>7. ASSUME Len(Stream) = Header, NEW w \in Writers, out[w] # <<>>
        PROVE  NextOf(w) <= Header
    <2>1. FrameOf(w) \in Frames /\ NextOf(w) \in Nat
      BY <1>7, RestFacts
    <2> SUFFICES ASSUME NextOf(w) > Header PROVE FALSE
      BY <2>1
    <2>2. PICK j \in 1..Header : Stream[j] = <<FrameOf(w), NextOf(w) - 1>>
      <3>1. NextOf(w) > 1 /\ NextOf(w) # FirstLeft(FrameOf(w))
        BY <1>3, <2>1
      <3> QED
        BY <1>7, <3>1 DEF InStep, WritersGoOn
    <2>3. NextOf(w) - 1 \in Nat /\ NextOf(w) - 1 >= Header
      BY <2>1
    <2> QED
      BY <1>5, <2>1, <2>2, <2>3
  <1> QED
    BY <1>6, <1>7

\* Behind the length of the next frame the stream is in step: the first byte
\* the reader expects of that frame is one of its text.
LEMMA LengthKeepsStep ==
    ASSUME Types, SentOnce, InStep, stage = "header", want = 0,
           NEW f \in Frames, IsHeader(buf, f),
           stage' = "payload", want' = Size[f], buf' = <<>>,
           UNCHANGED <<got, out, sent, wire, up>>
    PROVE  InStep'
  <1> DEFINE P == Len(got) + 1
             First(g) == IF g = f THEN Header + 1 ELSE 1
  <1> USE HeaderAssumption
  <1>1. /\ Len(got) < Len(sent) /\ f = sent[P]
        /\ \A m \in 1..Header : Stream[m] = <<f, m>>
        /\ Len(buf) = Header /\ Len(Stream) \in Nat /\ Header <= Len(Stream)
    BY HeaderIsOfNext
  <1>2. /\ Len(Stream') \in Nat /\ Len(Stream) = Len(Stream') + Header
        /\ \A i \in 1..Len(Stream') :
              /\ i + Header \in Header + 1..Len(Stream)
              /\ Stream'[i] = Stream[i + Header]
    BY <1>1, DropFacts
  <1>3. /\ Counted /\ Unique /\ BytesInOrder /\ WritersGoOn
        /\ NotYetGot /\ FramesInOrder /\ NoneMissing
    BY DEF InStep
  <1>4. Len(got) \in Nat /\ Len(sent) \in Nat /\ Size[f] \in Nat
    BY SizeAssumption DEF Types
  <1>5. /\ \A g : FirstLeft(g)' = First(g) /\ FirstLeft(g) = 1
        /\ First(f) = Header + 1 /\ \A g : g # f => First(g) = 1
    BY <1>1, HeaderAssumption DEF FirstLeft
  <1>6. Opened = Len(got) /\ Opened' = Len(got) + 1
    BY DEF Opened
  <1>7. ASSUME NEW i \in 1..Len(Stream')
        PROVE  /\ Stream'[i][1] = f => Stream'[i][2] > Header
               /\ Stream'[i][2] \in Nat \ {0}
               /\ Stream'[i] = <<Stream'[i][1], Stream'[i][2]>>
    <2>1. Stream'[i] = Stream[i + Header] /\ i + Header \in 1..Len(Stream)
      BY <1>1, <1>2
    <2>2. /\ Stream[i + Header][2] \in Nat \ {0}
          /\ Stream[i + Header] =
                <<Stream[i + Header][1], Stream[i + Header][2]>>
      BY <2>1, StreamFacts
    <2>3. ASSUME NEW m \in 1..Header PROVE Stream[i + Header] # <<f, m>>
      <3>1. m \in 1..Len(Stream) /\ m # i + Header
        BY <1>1
      <3>2. Stream[i + Header] # Stream[m]
        BY <1>3, <2>1, <3>1 DEF Unique
      <3> QED
        BY <1>1, <3>2
    <2>4. ASSUME Stream[i + Header][1] = f PROVE Stream[i + Header][2] > Header
      <3> SUFFICES ASSUME ~(Stream[i + Header][2] > Header) PROVE FALSE
        OBVIOUS
      <3>1. Stream[i + Header][2] \in 1..Header
        BY <2>2
      <3> QED
        BY <2>2, <2>3, <2>4, <3>1
    <2> QED
      BY <2>1, <2>2, <2>4
  \* A byte that is not of the length is still in the stream.
  <1>8. ASSUME NEW j \in 1..Len(Stream), j > Header
        PROVE  /\ j - Header \in 1..Len(Stream')
               /\ Stream'[j - Header] = Stream[j]
    <2>1. j - Header \in 1..Len(Stream') /\ (j - Header) + Header = j
      BY <1>1, <1>2, <1>8
    <2> QED
      BY <1>2, <2>1
  <1> HIDE DEF P, First
  <1>9. Counted'
    <2>1. Len(buf') = 0
      OBVIOUS
    <2> QED
      BY <1>1, <1>4, <2>1 DEF Counted, P
  <1>10. Unique'
    <2> SUFFICES ASSUME NEW i \in 1..Len(Stream'), NEW j \in 1..Len(Stream'),
                        Stream'[i] = Stream'[j]
                 PROVE  i = j
      BY DEF Unique
    <2>1. /\ i + Header \in 1..Len(Stream) /\ j + Header \in 1..Len(Stream)
          /\ Stream[i + Header] = Stream[j + Header]
      BY <1>1, <1>2
    <2>2. i + Header = j + Header
      BY <1>3, <2>1 DEF Unique
    <2> QED
      BY <2>2
  <1>11. BytesInOrder'
    <2> SUFFICES ASSUME NEW i \in 1..Len(Stream')
                 PROVE  /\ Stream'[i][2] >= First(Stream'[i][1])
                        /\ Stream'[i][2] > First(Stream'[i][1])
                             => \E j \in 1..i - 1 :
                                   Stream'[j] = <<Stream'[i][1],
                                                  Stream'[i][2] - 1>>
      BY <1>5 DEF BytesInOrder
    <2> DEFINE g == Stream'[i][1]
               n == Stream'[i][2]
    <2>1. /\ i + Header \in 1..Len(Stream) /\ Stream[i + Header] = <<g, n>>
          /\ n \in Nat \ {0}
          /\ g = f => n > Header
      BY <1>1, <1>2, <1>7
    <2> HIDE DEF g, n
    <2>2. n >= First(g)
      BY <1>5, <2>1
    <2>3. ASSUME n > First(g)
          PROVE  \E j \in 1..i - 1 : Stream'[j] = <<g, n - 1>>
      <3>1. n > 1 /\ FirstLeft(g) = 1
        BY <1>5, <2>1, <2>3
      <3>2. PICK j \in 1..(i + Header) - 1 : Stream[j] = <<g, n - 1>>
        <4>1. Stream[i + Header][1] = g /\ Stream[i + Header][2] = n
          BY <2>1
        <4> QED
          BY <1>3, <2>1, <3>1, <4>1 DEF BytesInOrder
      <3>3. j > Header
        <4> SUFFICES ASSUME ~(j > Header) PROVE FALSE
          OBVIOUS
        <4>1. g = f => n > Header + 1
          BY <1>5, <2>3
        <4>2. j \in 1..Header
          BY <3>2
        <4>3. <<g, n - 1>> = <<f, j>>
          BY <1>1, <3>2, <4>2
        <4>4. g = f /\ n - 1 = j
          BY <4>3
        <4> QED
          BY <2>1, <4>1, <4>2, <4>4
      <3>4. j \in 1..Len(Stream) /\ j - Header \in 1..i - 1 /\ j > Header
        BY <1>1, <2>1, <3>2, <3>3
      <3> QED
        BY <1>8, <3>2, <3>4
    <2> QED
      BY <2>2, <2>3 DEF g, n
  <1>12. WritersGoOn'
    <2>1. \A w : /\ FrameOf(w)' = FrameOf(w) /\ NextOf(w)' = NextOf(w)
                 /\ FirstLeft(FrameOf(w))' = First(FrameOf(w))
      BY <1>1, HeaderAssumption DEF FrameOf, NextOf, FirstLeft, First, P
    <2> SUFFICES ASSUME NEW w \in Writers, out[w] # <<>>, NextOf(w) > 1
                 PROVE  /\ \/ NextOf(w) = First(FrameOf(w))
                           \/ \E j \in 1..Len(Stream') :
                                 Stream'[j] = <<FrameOf(w), NextOf(w) - 1>>
                        /\ \A j \in 1..Len(Stream') :
                              Stream'[j][1] = FrameOf(w)
                                 => Stream'[j][2] < NextOf(w)
      BY <2>1 DEF WritersGoOn
    <2>2. NextOf(w) \in Nat
      BY RestFacts, HeaderAssumption
    <2>3. \A j \in 1..Len(Stream) :
             Stream[j][1] = FrameOf(w) => Stream[j][2] < NextOf(w)
      BY <1>3 DEF WritersGoOn
    <2>4. \A j \in 1..Len(Stream') :
             Stream'[j][1] = FrameOf(w) => Stream'[j][2] < NextOf(w)
      BY <1>2, <2>3
    <2>5. PICK j \in 1..Len(Stream) : Stream[j] = <<FrameOf(w), NextOf(w) - 1>>
      <3>1. NextOf(w) # FirstLeft(FrameOf(w))
        BY <1>5, <2>2
      <3> QED
        BY <1>3, <3>1 DEF WritersGoOn
    <2>6. CASE j > Header
      BY <1>8, <2>4, <2>5, <2>6
    <2>7. CASE ~(j > Header)
      <3>1. FrameOf(w) = f /\ NextOf(w) - 1 = j
        <4>1. j \in 1..Header
          BY <2>7
        <4>2. <<FrameOf(w), NextOf(w) - 1>> = <<f, j>>
          BY <1>1, <2>5, <4>1
        <4> QED
          BY <4>2
      <3>2. Header < NextOf(w)
        <4>1. Header \in 1..Len(Stream) /\ Stream[Header] = <<f, Header>>
          BY <1>1
        <4> QED
          BY <2>3, <3>1, <4>1
      <3>3. NextOf(w) = First(FrameOf(w))
        BY <1>5, <2>2, <2>7, <3>1, <3>2
      <3> QED
        BY <2>4, <3>3
    <2> QED
      BY <2>6, <2>7
  <1>13. NotYetGot'
    <2> SUFFICES ASSUME NEW i \in 1..Len(Stream')
                 PROVE  \E l \in Len(got) + 1..Len(sent) :
                           Stream'[i][1] = sent[l]
      BY DEF NotYetGot
    <2>1. i + Header \in 1..Len(Stream) /\ Stream'[i] = Stream[i + Header]
      BY <1>1, <1>2
    <2> QED
      BY <1>3, <2>1 DEF NotYetGot
  \* The first byte of a frame behind the next one is still in the stream.
  <1>14. ASSUME NEW k \in Len(got) + 2..Len(sent),
                NEW j \in 1..Len(Stream), Stream[j] = <<sent[k], 1>>
         PROVE  j > Header
    <2>1. /\ k \in 1..Len(sent) /\ P \in 1..Len(sent) /\ k # P
      BY <1>1, <1>4 DEF P
    <2>2. sent[k] # f
      BY <1>1, <2>1 DEF SentOnce
    <2>3. ~(j \in 1..Header)
      BY <1>1, <1>14, <2>2
    <2> QED
      BY <2>3
  <1>15. FramesInOrder'
    <2> SUFFICES ASSUME NEW j \in 1..Len(Stream'), NEW l \in 1..Len(sent),
                        Stream'[j] = <<sent[l], 1>>,
                        NEW k \in Len(got) + 2..l - 1
                 PROVE  \E i \in 1..j - 1 : Stream'[i] = <<sent[k], 1>>
      <3>1. Opened' + 1 = Len(got) + 2
        BY <1>4, <1>6
      <3> SUFFICES ASSUME NEW j \in 1..Len(Stream'),
                          NEW l \in 1..Len(sent'),
                          Stream'[j] = <<sent'[l], 1>>,
                          NEW k \in Opened' + 1..l - 1
                   PROVE  \E i \in 1..j - 1 : Stream'[i] = <<sent'[k], 1>>
        BY DEF FramesInOrder
      <3> QED
        BY <3>1
    <2>1. j + Header \in 1..Len(Stream) /\ Stream[j + Header] = <<sent[l], 1>>
      <3>1. /\ Stream'[j] = Stream[j + Header]
            /\ j + Header \in Header + 1..Len(Stream) /\ Len(Stream) \in Nat
        BY <1>1, <1>2
      <3>2. j + Header \in 1..Len(Stream)
        BY <3>1
      <3>3. Stream'[j] = <<sent[l], 1>>
        OBVIOUS
      <3> QED
        BY <3>1, <3>2, <3>3
    <2>2. k \in Opened + 1..l - 1 /\ k \in Len(got) + 2..Len(sent)
      BY <1>4, <1>6
    <2>3. PICK i \in 1..(j + Header) - 1 : Stream[i] = <<sent[k], 1>>
      BY <1>3, <2>1, <2>2 DEF FramesInOrder
    <2>4. i \in 1..Len(Stream)
      BY <1>1, <2>1
    <2>5. i > Header
      BY <1>14, <2>2, <2>3, <2>4
    <2>6. i - Header \in 1..j - 1
      BY <2>3, <2>5
    <2> QED
      BY <1>8, <2>3, <2>4, <2>5, <2>6
  <1>16. NoneMissing'
    <2> SUFFICES ASSUME up, NEW k \in Len(got) + 2..Len(sent)
                 PROVE  \E i \in 1..Len(Stream') : Stream'[i] = <<sent[k], 1>>
      <3>1. sent' = sent /\ Opened' + 1 = Len(got) + 2
        BY <1>4, <1>6
      <3> QED
        BY <3>1 DEF NoneMissing
    <2>1. k \in Opened + 1..Len(sent)
      BY <1>4, <1>6
    <2>2. PICK i \in 1..Len(Stream) : Stream[i] = <<sent[k], 1>>
      BY <1>3, <2>1 DEF NoneMissing
    <2> QED
      BY <1>8, <1>14, <2>2
  <1> QED
    BY <1>9, <1>10, <1>11, <1>12, <1>13, <1>15, <1>16 DEF InStep

\* A length: of the next frame, or of bytes of two frames.
LEMMA ReadLengthKeeps ==
    ASSUME IInv, ReadLength
    PROVE  IInv' /\ (Reading' => UNCHANGED <<got, sent>>)
  <1>1. stage = "header" /\ want = 0
    BY DEF ReadLength
  <1>2. PICK length \in Lengths(buf) :
           IF length > MaxFrame
           THEN End("oversized")
           ELSE /\ stage' = "payload" /\ want' = length /\ buf' = <<>>
                /\ UNCHANGED <<got, writerVars, wire, up>>
    BY DEF ReadLength
  <1>3. CASE length > MaxFrame
    BY <1>2, <1>3, EndKeeps
  <1>4. CASE ~(length > MaxFrame)
    <2>1. /\ stage' = "payload" /\ want' = length /\ buf' = <<>>
          /\ UNCHANGED <<got, out, sent, torn, wire, up>>
      BY <1>2, <1>4 DEF writerVars
    <2>2. /\ Types /\ Len(wire) <= Capacity /\ RestsOfFrames /\ FramesApart
          /\ SentOnce /\ GotIsPrefix /\ InStep
      BY <1>1 DEF IInv, Reading, OutOfStep
    <2>3. length \in Nat
      BY SizeAssumption, LimitsAssumption DEF Lengths
    <2>4. Types' /\ Len(wire') <= Capacity
      <3>1. buf' \in Seq(Bytes)
        BY <2>1
      <3> QED
        BY <2>1, <2>2, <2>3, <3>1 DEF Types
    <2>5. \A w : FrameOf(w)' = FrameOf(w) /\ NextOf(w)' = NextOf(w)
      BY <2>1 DEF FrameOf, NextOf
    <2>6. RestsOfFrames'
      BY <2>1, <2>2, <2>5 DEF RestsOfFrames
    <2>7. FramesApart'
      BY <2>1, <2>2, <2>5 DEF FramesApart
    <2>8. SentOnce' /\ GotIsPrefix'
      BY <2>1, <2>2 DEF SentOnce, GotIsPrefix
    <2>9. CASE \E f \in Frames : IsHeader(buf, f)
      <3>1. PICK f \in Frames : IsHeader(buf, f)
        BY <2>9
      <3>2. \A g \in Frames : IsHeader(buf, g) => g = f
        BY <1>1, <2>2, <3>1, HeaderIsOfNext
      <3>3. length = Size[f]
        BY <2>9, <3>2 DEF Lengths
      <3>4. InStep'
        BY <1>1, <2>1, <2>2, <3>1, <3>3, LengthKeepsStep
      <3> QED
        BY <2>1, <2>4, <2>6, <2>7, <2>8, <3>4 DEF IInv
    <2>10. CASE \A f \in Frames : ~IsHeader(buf, f)
      <3>1. /\ Len(Stream) > Header => Stream[Header + 1][2] <= Header
            /\ Len(Stream) = Header =>
                  \A w \in Writers : out[w] # <<>> => NextOf(w) <= Header
        BY <1>1, <2>2, <2>10, BehindMixed
      <3>2. Len(buf) = Header
        BY <1>1, <2>2, HeaderAssumption DEF InStep, Counted, Types
      <3>3. /\ Len(Stream') \in Nat /\ Len(Stream) = Header + Len(Stream')
            /\ \A i \in 1..Len(Stream') : Stream'[i] = Stream[i + Header]
            /\ Stream' \in Seq(Bytes)
        BY <2>1, <2>2, <3>2, DropFacts DEF Types
      <3>4. Stream' # <<>> => Stream'[1][2] <= Header
        <4> SUFFICES ASSUME Stream' # <<>> PROVE Stream'[1][2] <= Header
          OBVIOUS
        <4>1. Len(Stream') > 0
          BY <3>3
        <4>2. Stream'[1] = Stream[Header + 1] /\ Len(Stream) > Header
          <5>1. 1 \in 1..Len(Stream') /\ 1 + Header = Header + 1
            BY <3>3, <4>1, HeaderAssumption
          <5> QED
            BY <3>3, <4>1, <5>1, HeaderAssumption
        <4> QED
          BY <3>1, <4>2
      <3>5. Stream' = <<>> =>
               \A w \in Writers : out[w] # <<>> => NextOf(w) <= Header
        BY <3>1, <3>3, HeaderAssumption
      <3>6. OutOfStep'
        BY <2>1, <2>5, <3>4, <3>5, HeaderAssumption DEF OutOfStep
      <3> QED
        BY <2>1, <2>4, <2>6, <2>7, <2>8, <3>6 DEF IInv
    <2> QED
      BY <2>1, <2>9, <2>10
  <1> QED
    BY <1>3, <1>4

-----------------------------------------------------------------------------
\* What a text is, byte by byte.
LEMMA PayloadFacts ==
    ASSUME Types, NEW f \in Frames, IsPayload(buf, f)
    PROVE  /\ Size[f] \in Nat \ {0} /\ Len(buf) = Size[f]
           /\ Len(Stream) \in Nat /\ Len(buf) <= Len(Stream)
           /\ \A i \in 1..Len(buf) : Stream[i] = <<f, i + Header>>
  <1>1. /\ Encoding(f) \in Seq(Bytes) /\ Len(Encoding(f)) = Header + Size[f]
        /\ Size[f] \in Nat \ {0}
        /\ \A i \in 1..Header + Size[f] : Encoding(f)[i] = <<f, i>>
    BY EncodingFacts, HeaderAssumption
  <1>2. buf = SubSeq(Encoding(f), Header + 1, Header + Size[f])
    BY HeaderAssumption DEF IsPayload
  <1>3. /\ Len(buf) = Size[f]
        /\ \A i \in 1..Size[f] : buf[i] = Encoding(f)[i + Header]
    <2> DEFINE n == Header + Size[f]
               m == Header + 1
    <2>1. /\ \A i \in m..n : Encoding(f)[i] \in Bytes
          /\ m \in Int /\ n \in Int /\ m <= n /\ n - m + 1 = Size[f]
          /\ \A i \in 1..Size[f] : m + i - 1 = i + Header
      BY <1>1, HeaderAssumption
    <2>2. buf = SubSeq(Encoding(f), m, n)
      BY <1>2
    <2> HIDE DEF n, m
    <2>3. /\ Len(buf) = n - m + 1
          /\ \A i \in 1..n - m + 1 : buf[i] = Encoding(f)[m + i - 1]
      BY <2>1, <2>2, SubSeqProperties
    <2> QED
      BY <2>1, <2>3
  <1>4. ASSUME NEW i \in 1..Size[f] PROVE buf[i] = <<f, i + Header>>
    <2>1. i + Header \in 1..Header + Size[f]
      BY <1>1, HeaderAssumption
    <2> QED
      BY <1>1, <1>3, <2>1
  <1>5. /\ Len(Stream) = Len(buf) + Len(wire)
        /\ \A i \in 1..Len(buf) : Stream[i] = buf[i]
    BY StreamFacts
  <1>6. Len(wire) \in Nat
    BY DEF Types
  <1>7. Len(Stream) \in Nat /\ Len(buf) <= Len(Stream)
    BY <1>1, <1>3, <1>5, <1>6
  <1> QED
    BY <1>1, <1>3, <1>4, <1>5, <1>7

\* In step, a text is that of the next frame.
LEMMA PayloadIsOfNext ==
    ASSUME Types, InStep, stage = "payload", NEW f \in Frames,
           IsPayload(buf, f)
    PROVE  Len(got) < Len(sent) /\ f = sent[Len(got) + 1]
  <1>1. 1 \in 1..Len(Stream) /\ Stream[1] = <<f, Header + 1>>
    BY PayloadFacts, HeaderAssumption
  <1>2. Header + 1 > FirstLeft(f)
           => \E j \in 1..1 - 1 : Stream[j] = <<f, (Header + 1) - 1>>
    BY <1>1 DEF InStep, BytesInOrder
  <1>3. ~(Header + 1 > FirstLeft(f))
    BY <1>2
  <1> QED
    BY <1>3, HeaderAssumption DEF FirstLeft, InStep, Counted

\* Out of step, nothing is a text.
LEMMA NoPayloadOutOfStep ==
    ASSUME Types, OutOfStep, NEW f \in Frames
    PROVE  ~IsPayload(buf, f)
  <1> SUFFICES ASSUME IsPayload(buf, f) PROVE FALSE
    OBVIOUS
  <1>1. 1 \in 1..Len(Stream) /\ Stream[1] = <<f, Header + 1>>
    BY PayloadFacts, HeaderAssumption
  <1>2. Stream # <<>>
    BY <1>1
  <1> QED
    BY <1>1, <1>2, HeaderAssumption DEF OutOfStep

\* Behind the text of the next frame the stream is in step: nothing of that
\* frame is left, on its way or with a writer.
LEMMA PayloadKeepsStep ==
    ASSUME Types, RestsOfFrames, InStep, stage = "payload", want = 0,
           NEW f \in Frames, IsPayload(buf, f), got' = Append(got, f),
           stage' = "header", want' = Header, buf' = <<>>,
           UNCHANGED <<out, sent, wire, up>>
    PROVE  InStep'
  <1> DEFINE d == Len(buf)
  <1> USE HeaderAssumption
  <1>1. /\ Len(got) < Len(sent) /\ f = sent[Len(got) + 1]
        /\ d = Size[f] /\ d \in Nat \ {0}
        /\ Len(Stream) \in Nat /\ d <= Len(Stream)
        /\ \A i \in 1..d : Stream[i] = <<f, i + Header>>
    BY PayloadIsOfNext, PayloadFacts
  <1>2. /\ Len(Stream') \in Nat /\ Len(Stream) = d + Len(Stream')
        /\ \A i \in 1..Len(Stream') : /\ i + d \in d + 1..Len(Stream)
                                      /\ Stream'[i] = Stream[i + d]
    BY DropFacts
  <1>3. /\ Counted /\ Unique /\ BytesInOrder /\ WritersGoOn
        /\ NotYetGot /\ FramesInOrder /\ NoneMissing
    BY DEF InStep
  <1>4. /\ Len(got) \in Nat /\ Len(sent) \in Nat /\ got \in Seq(Frames)
        /\ Len(got') = Len(got) + 1
    BY AppendProperties DEF Types
  <1>5. /\ \A g : FirstLeft(g)' = 1
        /\ \A g : g # f => FirstLeft(g) = 1
        /\ FirstLeft(f) = Header + 1
    BY <1>1, HeaderAssumption DEF FirstLeft
  <1>6. Opened = Len(got) + 1 /\ Opened' = Len(got) + 1
    BY <1>4 DEF Opened
  <1>6a. /\ d \in Nat \ {0} /\ Len(Stream) \in Nat /\ Len(Stream') \in Nat
        /\ Len(Stream) = d + Len(Stream')
    BY <1>1, <1>2
  <1>6b. d <= Len(Stream)
    BY <1>6a
  <1> HIDE DEF d
  <1>7. ASSUME NEW i \in 1..Len(Stream')
        PROVE  /\ i + d \in 1..Len(Stream) /\ Stream'[i] = Stream[i + d]
               /\ Stream'[i][1] # f /\ Stream'[i][2] \in Nat \ {0}
               /\ Stream'[i] = <<Stream'[i][1], Stream'[i][2]>>
    <2>1. i + d \in 1..Len(Stream) /\ Stream'[i] = Stream[i + d] /\ i + d > d
      <3>1. i + d \in d + 1..Len(Stream) /\ Stream'[i] = Stream[i + d]
        BY <1>2
      <3>2. i + d \in 1..Len(Stream) /\ i + d > d
        BY <1>6a, <3>1
      <3> QED
        BY <3>1, <3>2
    <2>2. /\ Stream[i + d][2] \in Nat \ {0}
          /\ Stream[i + d] = <<Stream[i + d][1], Stream[i + d][2]>>
          /\ Stream[i + d][2] <= Header + Size[Stream[i + d][1]]
      BY <2>1, StreamFacts
    <2>3. ASSUME Stream[i + d][1] = f PROVE FALSE
      <3> DEFINE n == Stream[i + d][2]
      <3>1. Stream[i + d] = <<f, n>> /\ n <= Header + d /\ n \in Nat
        BY <1>1, <2>2, <2>3, HeaderAssumption
      <3>2. n >= Header + 1
        BY <1>3, <1>5, <2>1, <2>3 DEF BytesInOrder
      <3> HIDE DEF n
      <3>3. /\ n - Header \in 1..d /\ n - Header \in 1..Len(Stream)
            /\ (n - Header) + Header = n
        BY <1>6a, <1>6b, <3>1, <3>2
      <3>4. Stream[n - Header] = Stream[i + d]
        BY <1>1, <3>1, <3>3
      <3>5. n - Header = i + d
        BY <1>3, <2>1, <3>3, <3>4 DEF Unique
      <3> QED
        BY <1>1, <2>1, <3>3, <3>5
    <2> QED
      BY <2>1, <2>2, <2>3
  \* A byte that is not of the frame is still in the stream.
  <1>8. ASSUME NEW j \in 1..Len(Stream), Stream[j][1] # f
        PROVE  /\ j > d /\ j - d \in 1..Len(Stream')
               /\ Stream'[j - d] = Stream[j]
    <2>1. j > d
      BY <1>1, <1>8
    <2>2. j - d \in 1..Len(Stream') /\ (j - d) + d = j
      BY <1>6a, <2>1
    <2> QED
      BY <1>2, <2>1, <2>2
  <1>9. Counted'
    <2>1. Len(buf') = 0
      OBVIOUS
    <2> QED
      BY <2>1, HeaderAssumption DEF Counted
  <1>10. Unique'
    <2> SUFFICES ASSUME NEW i \in 1..Len(Stream'), NEW j \in 1..Len(Stream'),
                        Stream'[i] = Stream'[j]
                 PROVE  i = j
      BY DEF Unique
    <2>1. /\ i + d \in 1..Len(Stream) /\ j + d \in 1..Len(Stream)
          /\ Stream[i + d] = Stream[j + d]
      BY <1>7
    <2>2. i + d = j + d
      BY <1>3, <2>1 DEF Unique
    <2> QED
      BY <1>1, <2>2
  <1>11. BytesInOrder'
    <2> SUFFICES ASSUME NEW i \in 1..Len(Stream')
                 PROVE  /\ Stream'[i][2] >= 1
                        /\ Stream'[i][2] > 1
                             => \E j \in 1..i - 1 :
                                   Stream'[j] = <<Stream'[i][1],
                                                  Stream'[i][2] - 1>>
      BY <1>5 DEF BytesInOrder
    <2> DEFINE g == Stream'[i][1]
               n == Stream'[i][2]
    <2>1. /\ i + d \in 1..Len(Stream) /\ Stream[i + d] = <<g, n>>
          /\ n \in Nat \ {0} /\ g # f
          /\ Stream[i + d][1] = g /\ Stream[i + d][2] = n
      BY <1>7
    <2> HIDE DEF g, n
    <2>2. ASSUME n > 1
          PROVE  \E j \in 1..i - 1 : Stream'[j] = <<g, n - 1>>
      <3>1. FirstLeft(g) = 1
        BY <1>5, <2>1
      <3>2. PICK j \in 1..(i + d) - 1 : Stream[j] = <<g, n - 1>>
        BY <1>3, <2>1, <2>2, <3>1 DEF BytesInOrder
      <3>3. j \in 1..Len(Stream) /\ Stream[j][1] # f
        <4>1. j \in 1..Len(Stream)
          BY <1>6a, <2>1
        <4> QED
          BY <2>1, <3>2, <4>1
      <3>4. j - d \in 1..i - 1
        <4>1. j > d
          BY <1>8, <3>3
        <4> QED
          BY <1>6a, <3>2, <4>1
      <3> QED
        BY <1>8, <3>2, <3>3, <3>4
    <2> QED
      BY <2>1, <2>2 DEF g, n
  <1>12. WritersGoOn'
    <2>1. \A w : /\ FrameOf(w)' = FrameOf(w) /\ NextOf(w)' = NextOf(w)
                 /\ FirstLeft(FrameOf(w))' = 1
      BY <1>5 DEF FrameOf, NextOf, FirstLeft
    <2> SUFFICES ASSUME NEW w \in Writers, out[w] # <<>>, NextOf(w) > 1
                 PROVE  /\ \E j \in 1..Len(Stream') :
                              Stream'[j] = <<FrameOf(w), NextOf(w) - 1>>
                        /\ \A j \in 1..Len(Stream') :
                              Stream'[j][1] = FrameOf(w)
                                 => Stream'[j][2] < NextOf(w)
      BY <2>1 DEF WritersGoOn
    <2>2. /\ NextOf(w) \in Nat
          /\ NextOf(w) <= Header + Size[FrameOf(w)]
      BY RestFacts, HeaderAssumption
    <2>3. \A j \in 1..Len(Stream) :
             Stream[j][1] = FrameOf(w) => Stream[j][2] < NextOf(w)
      BY <1>3 DEF WritersGoOn
    <2>4. \A j \in 1..Len(Stream') :
             Stream'[j][1] = FrameOf(w) => Stream'[j][2] < NextOf(w)
      BY <1>7, <2>3
    <2>5. FrameOf(w) # f
      <3> SUFFICES ASSUME FrameOf(w) = f PROVE FALSE
        OBVIOUS
      <3>1. d \in 1..Len(Stream) /\ d \in 1..d
        BY <1>1
      <3>2. Stream[d][1] = f /\ Stream[d][2] = d + Header
        BY <1>1, <3>1
      <3>3. d + Header < NextOf(w)
        BY <2>3, <3>1, <3>2
      <3> QED
        BY <1>1, <2>2, <3>3
    <2>6. PICK j \in 1..Len(Stream) : Stream[j] = <<FrameOf(w), NextOf(w) - 1>>
      <3>1. NextOf(w) # FirstLeft(FrameOf(w))
        BY <1>5, <2>2, <2>5
      <3> QED
        BY <1>3, <3>1 DEF WritersGoOn
    <2>7. Stream[j][1] # f
      BY <2>5, <2>6
    <2> QED
      BY <1>8, <2>4, <2>6, <2>7
  <1>13. NotYetGot'
    <2> SUFFICES ASSUME NEW i \in 1..Len(Stream')
                 PROVE  \E l \in Len(got) + 2..Len(sent) :
                           Stream'[i][1] = sent[l]
      <3>1. Len(got') + 1 = Len(got) + 2 /\ sent' = sent
        BY <1>4
      <3> QED
        BY <3>1 DEF NotYetGot
    <2>1. PICK l \in Len(got) + 1..Len(sent) : Stream'[i][1] = sent[l]
      <3>1. i + d \in 1..Len(Stream) /\ Stream'[i][1] = Stream[i + d][1]
        BY <1>7
      <3> QED
        BY <1>3, <3>1 DEF NotYetGot
    <2>2. l # Len(got) + 1
      BY <1>1, <1>7, <2>1
    <2>3. l \in Len(got) + 2..Len(sent)
      BY <1>4, <2>1, <2>2
    <2> QED
      BY <2>1, <2>3
  \* The first byte of a frame is not of this text.
  <1>14. ASSUME NEW g, NEW j \in 1..Len(Stream), Stream[j] = <<g, 1>>
         PROVE  /\ j > d /\ j - d \in 1..Len(Stream')
                /\ Stream'[j - d] = Stream[j]
    <2>1. ~(j \in 1..d)
      <3> SUFFICES ASSUME j \in 1..d PROVE FALSE
        OBVIOUS
      <3>1. Stream[j][2] = j + Header /\ Stream[j][2] = 1
        BY <1>1, <1>14
      <3> QED
        BY <3>1
    <2>2. /\ j > d /\ j - d \in 1..Len(Stream') /\ (j - d) + d = j
      BY <1>6a, <2>1
    <2> QED
      BY <1>2, <2>2
  <1>15. FramesInOrder'
    <2> SUFFICES ASSUME NEW j \in 1..Len(Stream'), NEW l \in 1..Len(sent),
                        Stream'[j] = <<sent[l], 1>>,
                        NEW k \in Opened + 1..l - 1
                 PROVE  \E i \in 1..j - 1 : Stream'[i] = <<sent[k], 1>>
      <3> SUFFICES ASSUME NEW j \in 1..Len(Stream'),
                          NEW l \in 1..Len(sent'),
                          Stream'[j] = <<sent'[l], 1>>,
                          NEW k \in Opened' + 1..l - 1
                   PROVE  \E i \in 1..j - 1 : Stream'[i] = <<sent'[k], 1>>
        BY DEF FramesInOrder
      <3> QED
        BY <1>6
    <2>1. j + d \in 1..Len(Stream) /\ Stream[j + d] = <<sent[l], 1>>
      BY <1>7
    <2> DEFINE e == j + d
    <2> HIDE DEF e
    <2>2. PICK i \in 1..e - 1 : Stream[i] = <<sent[k], 1>>
      <3>1. e \in 1..Len(Stream) /\ Stream[e] = <<sent[l], 1>>
        BY <2>1 DEF e
      <3> QED
        BY <1>3, <3>1 DEF FramesInOrder
    <2>3. i \in 1..Len(Stream)
      BY <1>6a, <2>1, <2>2 DEF e
    <2>4. i > d /\ Stream'[i - d] = Stream[i]
      BY <1>14, <2>2, <2>3
    <2>5. i - d \in 1..j - 1
      <3>1. i \in Nat /\ j \in Nat /\ i <= j + d - 1 /\ i > d
        BY <1>6a, <2>2, <2>4 DEF e
      <3> QED
        BY <1>6a, <3>1
    <2> QED
      BY <2>2, <2>4, <2>5
  <1>16. NoneMissing'
    <2> SUFFICES ASSUME up, NEW k \in Opened + 1..Len(sent)
                 PROVE  \E i \in 1..Len(Stream') : Stream'[i] = <<sent[k], 1>>
      <3>1. sent' = sent /\ Opened' = Opened
        BY <1>6
      <3> QED
        BY <3>1 DEF NoneMissing
    <2>1. PICK i \in 1..Len(Stream) : Stream[i] = <<sent[k], 1>>
      BY <1>3 DEF NoneMissing
    <2> QED
      BY <1>14, <2>1
  <1> QED
    BY <1>9, <1>10, <1>11, <1>12, <1>13, <1>15, <1>16 DEF InStep

\* A text: that of the next frame, or none.
LEMMA ReadPayloadKeeps ==
    ASSUME IInv, ReadPayload
    PROVE  /\ IInv'
           /\ \/ ~Reading' /\ got' = got
              \/ /\ Reading' /\ Len(got) < Len(sent)
                 /\ got' = Append(got, sent[Len(got) + 1])
           /\ sent' = sent
  <1>1. stage = "payload" /\ want = 0
    BY DEF ReadPayload
  <1>2. /\ Types /\ Len(wire) <= Capacity /\ RestsOfFrames /\ FramesApart
        /\ SentOnce /\ GotIsPrefix /\ (InStep \/ OutOfStep)
    BY <1>1 DEF IInv, Reading
  <1>3. ASSUME End("invalid")
        PROVE  IInv' /\ ~Reading' /\ got' = got /\ sent' = sent
    BY <1>3, EndKeeps DEF End, writerVars
  <1>4. ASSUME NEW f \in Frames, IsPayload(buf, f), got' = Append(got, f),
               stage' = "header", want' = Header, buf' = <<>>,
               UNCHANGED <<writerVars, wire, up>>
        PROVE  /\ IInv' /\ Reading' /\ Len(got) < Len(sent)
               /\ got' = Append(got, sent[Len(got) + 1]) /\ sent' = sent
    <2>1. UNCHANGED <<out, sent, torn, wire, up>>
      BY <1>4 DEF writerVars
    <2>2. InStep
      BY <1>2, <1>4, NoPayloadOutOfStep
    <2>3. Len(got) < Len(sent) /\ f = sent[Len(got) + 1]
      BY <1>1, <1>2, <1>4, <2>2, PayloadIsOfNext
    <2>4. InStep'
      BY <1>1, <1>2, <1>4, <2>1, <2>2, PayloadKeepsStep
    <2>5. /\ got \in Seq(Frames) /\ Len(got) \in Nat /\ Len(sent) \in Nat
          /\ got' \in Seq(Frames) /\ Len(got') = Len(got) + 1
          /\ got'[Len(got) + 1] = f
          /\ \A i \in 1..Len(got) : got'[i] = got[i]
      BY <1>2, <1>4, AppendProperties DEF Types
    <2>6. Types' /\ Len(wire') <= Capacity
      <3>1. buf' \in Seq(Bytes)
        BY <1>4
      <3> QED
        BY <1>2, <1>4, <2>1, <2>5, <3>1, HeaderAssumption DEF Types
    <2>7. \A w : FrameOf(w)' = FrameOf(w) /\ NextOf(w)' = NextOf(w)
      BY <2>1 DEF FrameOf, NextOf
    <2>8. RestsOfFrames'
      BY <1>2, <2>1, <2>7 DEF RestsOfFrames
    <2>9. FramesApart'
      BY <1>2, <2>1, <2>7 DEF FramesApart
    <2>10. SentOnce'
      BY <1>2, <2>1 DEF SentOnce
    <2>11. GotIsPrefix'
      BY <1>2, <2>1, <2>3, <2>5 DEF GotIsPrefix
    <2>12. Reading'
      BY <1>4 DEF Reading
    <2> QED
      BY <1>4, <2>1, <2>3, <2>4, <2>6, <2>8, <2>9, <2>10, <2>11, <2>12
         DEF IInv
  <1> QED
    BY <1>3, <1>4 DEF ReadPayload

-----------------------------------------------------------------------------
(* The theorems.                                                           *)

\* Every step keeps the invariant.
LEMMA NextKeeps == IInv /\ [Next]_vars => IInv'
  <1> SUFFICES ASSUME IInv, [Next]_vars PROVE IInv'
    OBVIOUS
  <1>1. CASE UNCHANGED vars
    <2>1. UNCHANGED <<out, wire, up, stage, want, buf, sent, got, torn>>
      BY <1>1 DEF vars, readerVars, writerVars
    <2>2. /\ Stream' = Stream /\ Opened' = Opened
          /\ \A w : FrameOf(w)' = FrameOf(w) /\ NextOf(w)' = NextOf(w)
          /\ \A w : FirstLeft(FrameOf(w))' = FirstLeft(FrameOf(w))
      BY <2>1 DEF Stream, Opened, FrameOf, NextOf, FirstLeft
    <2>3. Types' /\ Len(wire') <= Capacity /\ SentOnce' /\ GotIsPrefix'
      BY <2>1 DEF IInv, Types, SentOnce, GotIsPrefix
    <2>4. RestsOfFrames'
      BY <2>1, <2>2 DEF IInv, RestsOfFrames
    <2>5. FramesApart'
      BY <2>1, <2>2 DEF IInv, FramesApart
    <2>6. InStep => InStep'
      <3>1. Counted => Counted'
        BY <2>1 DEF Counted
      <3>2. WritersGoOn => WritersGoOn'
        BY <2>1, <2>2 DEF WritersGoOn
      <3> QED
        BY <2>1, <2>2, <3>1, <3>2, SameStream DEF InStep
    <2>7. OutOfStep => OutOfStep'
      BY <2>1, <2>2 DEF OutOfStep
    <2> QED
      BY <2>1, <2>3, <2>4, <2>5, <2>6, <2>7 DEF IInv, Reading
  <1>2. ASSUME NEW w \in Writers, Write(w) PROVE IInv'
    BY <1>2, WriteKeeps
  <1>3. ASSUME NEW w \in Writers, NEW f \in Frames, StartSend(w, f) PROVE IInv'
    BY <1>3, StartSendKeeps
  <1>4. CASE Break
    BY <1>4, BreakKeeps
  <1>5. CASE Receive
    BY <1>5, ReceiveKeeps
  <1>6. CASE StreamEnds
    BY <1>6, StreamEndsKeeps
  <1>7. CASE ReadLength
    BY <1>7, ReadLengthKeeps
  <1>8. CASE ReadPayload
    BY <1>8, ReadPayloadKeeps
  <1> QED
    BY <1>1, <1>2, <1>3, <1>4, <1>5, <1>6, <1>7, <1>8
       DEF Next, WriterStep, ReaderStep

\* What the reader and the writers hold is in step, or nothing more is yielded.
THEOREM InvariantHolds == Spec => []IInv
  BY InitHolds, NextKeeps, PTL DEF Spec

\* What the reader waits for of a text is within the limit.
Limited == stage = "payload" => want + Len(buf) <= MaxFrame

\* A text begins with a length that was looked at, and recv gives no more than
\* was asked for.
LEMMA StaysLimited == IInv /\ Limited /\ [Next]_vars => Limited'
  <1> SUFFICES ASSUME IInv, Limited, [Next]_vars, stage' = "payload"
               PROVE  want' + Len(buf') <= MaxFrame
    BY DEF Limited
  <1>1. CASE UNCHANGED <<stage, want, buf>>
    BY <1>1 DEF Limited
  <1>2. CASE Receive
    <2>1. /\ wire \in Seq(Bytes) /\ buf \in Seq(Bytes) /\ want \in Nat
          /\ stage = "payload" /\ want + Len(buf) <= MaxFrame
      BY <1>2 DEF Receive, IInv, Types, Limited
    <2>2. PICK n \in 1..Len(wire) :
             buf' = buf \o SubSeq(wire, 1, n) /\ want' = want - n
      BY <1>2 DEF Receive
    <2>3. /\ SubSeq(wire, 1, n) \in Seq(Bytes)
          /\ Len(SubSeq(wire, 1, n)) = n
      BY <2>1, <2>2, SubSeqProperties
    <2>4. Len(buf') = Len(buf) + n
      BY <2>1, <2>2, <2>3, ConcatProperties
    <2> QED
      BY <2>1, <2>2, <2>4, LimitsAssumption
  <1>3. CASE ReadLength
    <2>1. PICK length \in Lengths(buf) :
             ~(length > MaxFrame) /\ want' = length /\ buf' = <<>>
      BY <1>3 DEF ReadLength, End
    <2>2. length \in Nat
      BY <2>1, SizeAssumption, LimitsAssumption DEF Lengths
    <2> QED
      BY <2>1, <2>2, LimitsAssumption
  <1>4. CASE StreamEnds \/ ReadPayload
    BY <1>4 DEF StreamEnds, ReadPayload, End
  <1> QED
    BY <1>1, <1>2, <1>3, <1>4
       DEF Next, WriterStep, ReaderStep, Write, StartSend, Break, vars,
           readerVars

\* What is on its way never exceeds what the network holds, and what the
\* reader waits for is a length, or a text that is not too long.
THEOREM TypeCorrect == Spec => []TypeOK
  <1>1. IInv /\ Limited => TypeOK
    BY DEF IInv, Types, TypeOK, Limited, InStep, Counted, OutOfStep, Reading
  <1>2. Init => Limited
    BY DEF Init, Limited
  <1> QED
    BY <1>1, <1>2, StaysLimited, InitHolds, NextKeeps, PTL DEF Spec

\* Whatever the writers do to each other, and wherever the connection breaks,
\* the reader has yielded the first of the frames that were sent, in order.
THEOREM YieldsInOrder == Spec => []GotIsPrefix
  <1>1. IInv => GotIsPrefix
    BY DEF IInv
  <1> QED
    BY <1>1, InvariantHolds, PTL

\* A step is a step of FrameChannel or none: the write of a first byte sends,
\* a text is the next frame sent and is yielded, and what is no text ends.
LEMMA ChannelStep ==
    IInv /\ [Next]_vars => [Channel!Next]_Channel!vars
  <1> SUFFICES ASSUME IInv, [Next]_vars PROVE [Channel!Next]_Channel!vars
    OBVIOUS
  <1> USE DEF Channel!Next, Channel!vars
  <1>1. CASE UNCHANGED vars
    <2>1. UNCHANGED <<sent, got, stage>>
      BY <1>1 DEF vars, readerVars, writerVars
    <2> QED
      BY <2>1 DEF Reading
  <1>2. ASSUME NEW w \in Writers, Write(w) PROVE [Channel!Next]_Channel!vars
    <2>1. UNCHANGED <<got, stage>> /\ out[w] # <<>>
      BY <1>2 DEF Write, readerVars
    <2>2. Head(out[w])[1] \in Frames
      BY <2>1, RestFacts DEF IInv
    <2>3. sent' = sent \/ sent' = Append(sent, Head(out[w])[1])
      BY <1>2 DEF Write
    <2> QED
      BY <2>1, <2>2, <2>3 DEF Channel!Send, Reading
  <1>3. ASSUME NEW w \in Writers, NEW f \in Frames, StartSend(w, f)
        PROVE  [Channel!Next]_Channel!vars
    <2>1. UNCHANGED <<sent, got, stage>>
      BY <1>3 DEF StartSend, readerVars
    <2> QED
      BY <2>1 DEF Reading
  <1>4. CASE Break
    <2>1. UNCHANGED <<sent, got, stage>>
      BY <1>4 DEF Break, readerVars
    <2> QED
      BY <2>1 DEF Reading
  <1>5. CASE Receive
    <2>1. UNCHANGED <<sent, got, stage>>
      BY <1>5 DEF Receive, writerVars
    <2> QED
      BY <2>1 DEF Reading
  <1>6. CASE StreamEnds
    <2>1. sent' = sent /\ got' = got /\ ~Reading'
      BY <1>6, StreamEndsKeeps DEF StreamEnds, End, writerVars
    <2> QED
      BY <2>1 DEF Channel!End
  <1>7. CASE ReadLength
    <2>1. Reading /\ sent' = sent /\ got' = got
      BY <1>7 DEF ReadLength, End, Reading, writerVars
    <2> QED
      BY <2>1 DEF Channel!End
  <1>8. CASE ReadPayload
    <2>1. Reading
      BY <1>8 DEF ReadPayload, Reading
    <2> QED
      BY <1>8, <2>1, ReadPayloadKeeps DEF Channel!End, Channel!Yield
  <1> QED
    BY <1>1, <1>2, <1>3, <1>4, <1>5, <1>6, <1>7, <1>8
       DEF Next, WriterStep, ReaderStep

\* One direction of a connection implements FrameChannel: the reader yields
\* the frames that were sent, whole, in order and none twice, until it ends.
THEOREM ChannelImplemented == Spec => ImplementsChannel
  <1>1. Init => Channel!Init
    BY DEF Init, Channel!Init, Reading
  <1> QED
    BY <1>1, ChannelStep, InvariantHolds, PTL
       DEF Spec, ImplementsChannel, Channel!Spec
=============================================================================
