----------------------------- MODULE WireProofs -----------------------------
(***************************************************************************)
(* Messages arrive whole, one by one and in order, for any number of       *)
(* threads, any messages and any size of the buffers, and are understood    *)
(* as they were meant.                                                     *)
(***************************************************************************)
EXTENDS Wire, SequenceTheorems, FiniteSetTheorems, TLAPS

\* LF and Sep are strings, which the provers have to be told
Byte == STRING \union {LF, Sep}

(* What a thread may say is a single line: the server's fields are pieces of *)
(* lines that it received, the client's come from one fgets() each, and no  *)
(* format of the protocol has a line feed but its last byte, which is not   *)
(* part of the message here.  Line adds it.                                *)
SingleLines == \A m \in Messages : Joined(m) \in Seq(Byte \ {LF})

-----------------------------------------------------------------------------
(* Lines                                                                   *)

(* what read_message relies on: a line feed or a full buffer ends a line,  *)
(* and nothing else does                                                   *)
LineOK(line) ==
  /\ line \in Seq(Byte) /\ Len(line) \in 1 .. BufSize - 1
  /\ \A i \in 1 .. Len(line) : Complete(SubSeq(line, 1, i)) <=> i = Len(line)

LEMMA LineShape == ASSUME SingleLines, NEW m \in Messages PROVE LineOK(Line(m))
  <1> DEFINE s == Joined(m) \o <<LF>>
             n == BufSize - 1
  <1>1. Joined(m) \in Seq(Byte \ {LF}) /\ BufSize \in Nat \ {0, 1}
    BY WireAssumption DEF SingleLines
  <1>2. /\ s \in Seq(Byte) /\ Len(s) = Len(Joined(m)) + 1 /\ Len(s) \in Nat
        /\ \A i \in 1 .. Len(s) : s[i] = LF <=> i = Len(s)
    <2> SUFFICES ASSUME NEW j \in Seq(Byte \ {LF})
                 PROVE  LET t == j \o <<LF>>
                        IN /\ t \in Seq(Byte) /\ Len(t) = Len(j) + 1 /\ Len(t) \in Nat
                           /\ \A i \in 1 .. Len(t) : t[i] = LF <=> i = Len(t)
      BY <1>1
    <2> DEFINE t == j \o <<LF>>
    <2>1. LF \in Byte
      BY DEF Byte
    <2>2. j \in Seq(Byte) /\ \A i \in 1 .. Len(j) : j[i] # LF
      OBVIOUS
    <2>3. t \in Seq(Byte) /\ Len(t) = Len(j) + 1 /\ Len(t) \in Nat
      BY <2>1, <2>2
    <2>4. ASSUME NEW i \in 1 .. Len(t) PROVE t[i] = LF <=> i = Len(t)
      BY <2>2, <2>3
    <2> QED BY <2>3, <2>4
  <1>3. n \in Nat \ {0}
    BY <1>1
  <1> HIDE DEF s, n
  <1> DEFINE line == Line(m)
             l == IF n < Len(s) THEN n ELSE Len(s)
  <1>4. line = SubSeq(s, 1, l)
    BY DEF Line, FirstOf, s, n
  <1>5. l \in 1 .. Len(s) /\ l <= n /\ (l = n \/ l = Len(s))
    BY <1>2, <1>3
  <1> HIDE DEF l
  <1>6. /\ line \in Seq(Byte) /\ Len(line) = l
        /\ \A i \in 1 .. l : line[i] = s[i]
    BY <1>2, <1>4, <1>5
  <1> HIDE DEF line
  <1>7. ASSUME NEW i \in 1 .. l PROVE Complete(SubSeq(line, 1, i)) <=> i = l
    <2>1. Len(SubSeq(line, 1, i)) = i /\ SubSeq(line, 1, i)[i] = s[i]
      BY <1>5, <1>6, <1>7
    <2>2. Complete(SubSeq(line, 1, i)) <=> i = n \/ s[i] = LF
      BY <2>1 DEF Complete, n
    <2> QED BY <1>2, <1>3, <1>5, <1>7, <2>2
  <1>8. LineOK(line)
    BY <1>3, <1>5, <1>6, <1>7 DEF LineOK, n
  <1> QED BY <1>8 DEF line

-----------------------------------------------------------------------------
(* The invariant                                                           *)

Writer == [pc : {"idle", "lock", "write"}, fields : Messages \union {<<>>}, rest : Seq(Byte)]

Typed ==
  /\ writer \in [Sender -> Writer]
  /\ \A s \in Sender : writer[s].pc = "lock" => writer[s].fields \in Messages
  /\ stream \in Seq(Byte) /\ buffer \in Seq(Byte)
  /\ got \in Seq(Seq(Byte)) /\ sent \in Seq(Messages)
  /\ open \in BOOLEAN

Writing(s) == writer[s].pc = "write"

(* send_lock is held by the thread that writes *)
Exclusive == \A s \in Sender : Writing(s) => lock = {s}

(* Tape is all that has been or will be written while the connection is up: *)
(* one line after the other, line j from cut[j - 1] to cut[j].              *)
Lines(tape, cut) ==
  /\ tape \in Seq(Byte) /\ cut \in [0 .. Len(sent) -> Nat]
  /\ cut[0] = 0 /\ cut[Len(sent)] = Len(tape)
  /\ \A j \in 0 .. Len(sent) : cut[j] <= Len(tape)
  /\ \A j \in 1 .. Len(sent) :
       LET line == Line(sent[j])
       IN /\ cut[j] = cut[j - 1] + Len(line)
          /\ \A i \in 1 .. Len(line) : tape[cut[j - 1] + i] = line[i]

(* bytes is the part of the tape after position at *)
PartOf(tape, bytes, at) ==
  at + Len(bytes) <= Len(tape) /\ \A i \in 1 .. Len(bytes) : bytes[i] = tape[at + i]

(* got, the buffer, the stream and what is left to write follow each other *)
(* on the tape; the buffer holds the beginning of a line.                  *)
Positions(tape, cut, rest) ==
  LET k  == Len(got)
      b  == cut[k] + Len(buffer)
      f  == b + Len(stream)
  IN /\ k <= Len(sent) /\ \A j \in 1 .. k : got[j] = Line(sent[j])
     /\ k < Len(sent) => Len(buffer) < Len(Line(sent[k + 1]))
     /\ PartOf(tape, buffer, cut[k]) /\ PartOf(tape, stream, b) /\ PartOf(tape, rest, f)
     /\ open => f + Len(rest) = Len(tape)

(* what the writer of an open connection has left to write *)
Left(rest) ==
  /\ rest \in Seq(Byte)
  /\ open => \A s \in Sender : Writing(s) => writer[s].rest = rest
  /\ ~open \/ (\A s \in Sender : ~Writing(s)) => rest = <<>>

WireInv ==
  /\ Typed /\ Exclusive
  /\ \E tape, cut, rest : Lines(tape, cut) /\ Left(rest) /\ Positions(tape, cut, rest)

(* Bytes move along the tape: some of what is left into the stream, ...     *)
LEMMA Written ==
  ASSUME NEW tape \in Seq(Byte), NEW out \in Seq(Byte), NEW rest \in Seq(Byte),
         NEW b \in Nat, NEW n \in 1 .. Len(rest),
         PartOf(tape, out, b), PartOf(tape, rest, b + Len(out))
  PROVE  LET more == out \o SubSeq(rest, 1, n)
             left == SubSeq(rest, n + 1, Len(rest))
         IN /\ more \in Seq(Byte) /\ left \in Seq(Byte)
            /\ PartOf(tape, more, b) /\ PartOf(tape, left, b + Len(more))
            /\ Len(more) + Len(left) = Len(out) + Len(rest)
  <1> DEFINE l == Len(out)    r == Len(rest)    t == Len(tape)
             gone == SubSeq(rest, 1, n)
             more == out \o gone
             left == SubSeq(rest, n + 1, r)
  <1>1. l \in Nat /\ r \in Nat /\ t \in Nat /\ n \in Nat /\ n >= 1 /\ n <= r
    OBVIOUS
  <1>2. /\ b + l <= t /\ \A i \in 1 .. l : out[i] = tape[b + i]
        /\ b + l + r <= t /\ \A i \in 1 .. r : rest[i] = tape[b + l + i]
    BY DEF PartOf
  <1>3. gone \in Seq(Byte) /\ Len(gone) = n /\ \A i \in 1 .. n : gone[i] = rest[i]
    BY <1>1
  <1>4. left \in Seq(Byte) /\ Len(left) = r - n /\ \A i \in 1 .. r - n : left[i] = rest[n + i]
    BY <1>1
  <1> HIDE DEF gone, left
  <1>5. /\ more \in Seq(Byte) /\ Len(more) = l + n
        /\ \A i \in 1 .. l + n : more[i] = IF i <= l THEN out[i] ELSE gone[i - l]
    BY <1>1, <1>3, ConcatProperties
  <1> HIDE DEF more, l, r, t
  <1>6. ASSUME NEW i \in 1 .. l + n PROVE more[i] = tape[b + i]
    <2>1. CASE i <= l
      <3>1. i \in 1 .. l
        BY <1>1, <2>1
      <3> QED BY <1>2, <1>5, <2>1, <3>1
    <2>2. CASE ~(i <= l)
      <3>1. i - l \in 1 .. n /\ i - l \in 1 .. r /\ b + l + (i - l) = b + i
        BY <1>1, <2>2
      <3>2. more[i] = rest[i - l]
        BY <1>3, <1>5, <2>2, <3>1
      <3> QED BY <1>2, <3>1, <3>2
    <2> QED BY <2>1, <2>2
  <1>7. ASSUME NEW i \in 1 .. r - n PROVE left[i] = tape[b + (l + n) + i]
    <2>1. n + i \in 1 .. r /\ b + l + (n + i) = b + (l + n) + i
      BY <1>1
    <2> QED BY <1>2, <1>4, <2>1
  <1>8. b + (l + n) <= t /\ b + (l + n) + (r - n) <= t /\ l + n + (r - n) = l + r
    BY <1>1, <1>2
  <1>9. PartOf(tape, more, b)
    BY <1>5, <1>6, <1>8 DEF PartOf, t
  <1>10. PartOf(tape, left, b + Len(more))
    BY <1>4, <1>5, <1>7, <1>8 DEF PartOf, t
  <1>11. Len(more) + Len(left) = l + r
    BY <1>4, <1>5, <1>8
  <1> QED BY <1>4, <1>5, <1>9, <1>10, <1>11 DEF more, left, gone, l, r

(* ... and one byte from the stream into the buffer. *)
LEMMA Consumed ==
  ASSUME NEW tape \in Seq(Byte), NEW held \in Seq(Byte), NEW out \in Seq(Byte),
         NEW c \in Nat, out # <<>>,
         PartOf(tape, held, c), PartOf(tape, out, c + Len(held))
  PROVE  LET bytes == Append(held, Head(out))
         IN /\ bytes \in Seq(Byte) /\ Tail(out) \in Seq(Byte)
            /\ Len(bytes) = Len(held) + 1
            /\ PartOf(tape, bytes, c) /\ PartOf(tape, Tail(out), c + Len(bytes))
            /\ Len(bytes) + Len(Tail(out)) = Len(held) + Len(out)
  <1> DEFINE h == Len(held)    l == Len(out)    t == Len(tape)
             bytes == Append(held, Head(out))
             later == Tail(out)
  <1>1. h \in Nat /\ l \in Nat /\ t \in Nat /\ l >= 1
    OBVIOUS
  <1>2. /\ c + h <= t /\ \A i \in 1 .. h : held[i] = tape[c + i]
        /\ c + h + l <= t /\ \A i \in 1 .. l : out[i] = tape[c + h + i]
    BY DEF PartOf
  <1>3. Head(out) = out[1] /\ Head(out) \in Byte
    OBVIOUS
  <1>4. later \in Seq(Byte) /\ Len(later) = l - 1 /\ \A i \in 1 .. l - 1 : later[i] = out[i + 1]
    <2>1. later \in Seq(Byte) /\ Len(later) = l - 1
      BY HeadTailProperties
    <2>2. ASSUME NEW i \in 1 .. l - 1 PROVE later[i] = out[i + 1]
      BY <2>1
    <2> QED BY <2>1, <2>2
  <1>5. /\ bytes \in Seq(Byte) /\ Len(bytes) = h + 1
        /\ \A i \in 1 .. h : bytes[i] = held[i]
        /\ bytes[h + 1] = out[1]
    BY <1>3, AppendProperties
  <1> HIDE DEF h, l, t, bytes, later
  <1>6. ASSUME NEW i \in 1 .. h + 1 PROVE bytes[i] = tape[c + i]
    <2>1. CASE i \in 1 .. h
      BY <1>2, <1>5, <2>1
    <2>2. CASE i = h + 1
      <3>1. 1 \in 1 .. l /\ c + h + 1 = c + i
        BY <1>1, <2>2
      <3> QED BY <1>2, <1>5, <2>2, <3>1
    <2> QED BY <1>1, <2>1, <2>2
  <1>7. ASSUME NEW i \in 1 .. l - 1 PROVE later[i] = tape[c + (h + 1) + i]
    <2>1. i + 1 \in 1 .. l /\ c + h + (i + 1) = c + (h + 1) + i
      BY <1>1
    <2> QED BY <1>2, <1>4, <2>1
  <1>8. c + (h + 1) <= t /\ c + (h + 1) + (l - 1) <= t /\ h + 1 + (l - 1) = h + l
    BY <1>1, <1>2
  <1>9. PartOf(tape, bytes, c)
    BY <1>5, <1>6, <1>8 DEF PartOf, t
  <1>10. PartOf(tape, later, c + Len(bytes))
    BY <1>4, <1>5, <1>7, <1>8 DEF PartOf, t
  <1>11. Len(bytes) + Len(later) = h + l
    BY <1>4, <1>5, <1>8
  <1> QED BY <1>4, <1>5, <1>9, <1>10, <1>11 DEF bytes, later, h, l

LEMMA IdleWriter == Idle \in Writer /\ Idle.pc = "idle"
  BY DEF Idle, Writer

LEMMA WireStart == Init => WireInv
  <1> SUFFICES ASSUME Init PROVE WireInv
    OBVIOUS
  <1>1. Typed /\ Exclusive
    BY IdleWriter DEF Init, Typed, Exclusive, Writing
  <1> DEFINE cut == [j \in 0 .. 0 |-> 0]
  <1>2. Lines(<<>>, cut)
    BY DEF Init, Lines
  <1>3. Left(<<>>) /\ Positions(<<>>, cut, <<>>)
    BY DEF Init, Left, Writing, Idle, Positions, PartOf
  <1> QED BY <1>1, <1>2, <1>3 DEF WireInv

-----------------------------------------------------------------------------
(* The steps                                                               *)

LEMMA WriterUpdate ==
  ASSUME Typed, NEW s \in Sender, NEW w, writer' = [writer EXCEPT ![s] = w]
  PROVE  /\ writer'[s] = w /\ \A t \in Sender \ {s} : writer'[t] = writer[t]
         /\ w \in Writer => writer' \in [Sender -> Writer]
  <1>1. writer \in [Sender -> Writer]
    BY DEF Typed
  <1>2. writer'[s] = w /\ \A t \in Sender \ {s} : writer'[t] = writer[t]
    BY <1>1
  <1>3. ASSUME w \in Writer PROVE writer' \in [Sender -> Writer]
    BY <1>1, <1>3
  <1> QED BY <1>2, <1>3

(* Calls, returns and a failure leave the tape as it is and move no byte;   *)
(* after a failure what was left to write is forgotten.                    *)
LEMMA CallStep == ASSUME WireInv, NEW s \in Sender, Call(s) PROVE WireInv'
  <1>0. Typed /\ Exclusive
    BY DEF WireInv
  <1>1. PICK m \in Messages : writer' = [writer EXCEPT ![s] = [Idle EXCEPT !.pc = "lock", !.fields = m]]
    BY DEF Call
  <1>2. /\ writer'[s].pc = "lock" /\ writer'[s].fields = m
        /\ writer' \in [Sender -> Writer] /\ \A t \in Sender \ {s} : writer'[t] = writer[t]
        /\ writer[s].pc = "idle" /\ UNCHANGED <<lock, stream, buffer, got, sent, open>>
    <2> DEFINE w == [Idle EXCEPT !.pc = "lock", !.fields = m]
    <2>1. writer'[s] = w /\ \A t \in Sender \ {s} : writer'[t] = writer[t]
      BY <1>0, <1>1, WriterUpdate
    <2>2. w.pc = "lock" /\ w.fields = m /\ w \in Writer
      BY IdleWriter DEF Writer
    <2> QED BY <1>0, <1>1, <2>1, <2>2, WriterUpdate DEF Call
  <1>3. Typed'
    BY <1>0, <1>2 DEF Typed
  <1>4. \A t \in Sender : (Writing(t)' <=> Writing(t)) /\ (Writing(t) => writer'[t] = writer[t])
    BY <1>2 DEF Writing
  <1>5. Exclusive'
    BY <1>2, <1>4 DEF WireInv, Exclusive
  <1>6. PICK tape, cut, rest : Lines(tape, cut) /\ Left(rest) /\ Positions(tape, cut, rest)
    BY DEF WireInv
  <1>7. Lines(tape, cut)' /\ Positions(tape, cut, rest)'
    BY <1>2, <1>6 DEF Lines, Positions, PartOf
  <1>8. Left(rest)'
    <2>1. rest \in Seq(Byte)
      BY <1>6 DEF Left
    <2>2. open' => \A t \in Sender : Writing(t)' => writer'[t].rest = rest
      BY <1>2, <1>4, <1>6 DEF Left
    <2>3. ~open' \/ (\A t \in Sender : ~Writing(t)') => rest = <<>>
      BY <1>2, <1>4, <1>6 DEF Left
    <2> QED BY <2>1, <2>2, <2>3 DEF Left
  <1> QED BY <1>3, <1>5, <1>7, <1>8 DEF WireInv

LEMMA ReturnStep == ASSUME WireInv, NEW s \in Sender, Return(s) PROVE WireInv'
  <1>0. Typed /\ Exclusive
    BY DEF WireInv
  <1>1. PICK tape, cut, rest : Lines(tape, cut) /\ Left(rest) /\ Positions(tape, cut, rest)
    BY DEF WireInv
  <1>2. /\ writer'[s] = Idle /\ writer' \in [Sender -> Writer]
        /\ \A t \in Sender \ {s} : writer'[t] = writer[t]
        /\ lock' = {} /\ UNCHANGED <<stream, buffer, got, sent, open>>
        /\ Writing(s) /\ (writer[s].rest = <<>> \/ ~open)
    BY <1>0, IdleWriter, WriterUpdate DEF Return, Writing, Nobody
  <1>3. \A t \in Sender : Writing(t) => t = s
    BY <1>0, <1>2 DEF Exclusive
  <1>4. \A t \in Sender : ~Writing(t)'
    BY <1>2, <1>3, IdleWriter DEF Writing
  <1>5. rest = <<>>
    BY <1>0, <1>1, <1>2 DEF Left, Typed
  <1>6. Typed' /\ Exclusive'
    BY <1>0, <1>2, <1>4, IdleWriter DEF Typed, Exclusive
  <1>7. Lines(tape, cut)' /\ Positions(tape, cut, rest)'
    BY <1>1, <1>2 DEF Lines, Positions, PartOf
  <1>8. Left(rest)'
    BY <1>4, <1>5, <1>1 DEF Left
  <1> QED BY <1>6, <1>7, <1>8 DEF WireInv

LEMMA BreakStep == ASSUME WireInv, Break PROVE WireInv'
  <1>1. PICK tape, cut, rest : Lines(tape, cut) /\ Left(rest) /\ Positions(tape, cut, rest)
    BY DEF WireInv
  <1>2. open' = FALSE /\ UNCHANGED <<writer, lock, stream, buffer, got, sent>>
    BY DEF Break
  <1>3. Typed' /\ Exclusive'
    BY <1>2 DEF WireInv, Typed, Exclusive, Writing
  <1>4. Lines(tape, cut)'
    BY <1>1, <1>2 DEF Lines
  <1>5. Left(<<>>)'
    BY <1>2 DEF Left
  <1>6. Positions(tape, cut, <<>>)'
    <2> DEFINE at == cut[Len(got)] + Len(buffer) + Len(stream)
    <2>1. PartOf(tape, rest, at)
      BY <1>1 DEF Positions
    <2>2. at \in Nat /\ Len(rest) \in Nat /\ Len(tape) \in Nat
      <3>1. Len(got) \in 0 .. Len(sent) /\ Len(buffer) \in Nat /\ Len(stream) \in Nat
        BY <1>1 DEF Positions, WireInv, Typed
      <3>2. cut[Len(got)] \in Nat /\ rest \in Seq(Byte) /\ tape \in Seq(Byte)
        BY <1>1, <3>1 DEF Lines, Left
      <3> QED BY <3>1, <3>2
    <2> HIDE DEF at
    <2>3. PartOf(tape, <<>>, at)
      BY <2>1, <2>2 DEF PartOf
    <2> QED BY <1>1, <1>2, <2>3 DEF Positions, at
  <1> QED BY <1>3, <1>4, <1>5, <1>6 DEF WireInv

LEMMA WriteStep == ASSUME WireInv, NEW s \in Sender, Write(s) PROVE WireInv'
  <1>0. Typed /\ Exclusive
    BY DEF WireInv
  <1>1. PICK tape, cut, rest : Lines(tape, cut) /\ Left(rest) /\ Positions(tape, cut, rest)
    BY DEF WireInv
  <1>2. /\ Writing(s) /\ open /\ UNCHANGED <<lock, buffer, got, sent, open>>
        /\ writer[s] \in Writer /\ writer[s].rest = rest /\ rest \in Seq(Byte)
    BY <1>0, <1>1 DEF Write, Left, Writing, Typed
  <1>3. PICK n \in 1 .. Len(rest) :
          /\ stream' = stream \o SubSeq(rest, 1, n)
          /\ writer' = [writer EXCEPT ![s] = [writer[s] EXCEPT !.rest = SubSeq(rest, n + 1, Len(rest))]]
    BY <1>2 DEF Write
  <1> DEFINE left == SubSeq(rest, n + 1, Len(rest))
             k == Len(got)
             b == cut[k] + Len(buffer)
  <1>4. /\ k \in 0 .. Len(sent) /\ Len(buffer) \in Nat /\ stream \in Seq(Byte)
        /\ tape \in Seq(Byte) /\ cut[k] \in Nat
    BY <1>0, <1>1 DEF Positions, Lines, Typed
  <1>5. b \in Nat
    BY <1>4
  <1>6. /\ PartOf(tape, stream, b) /\ PartOf(tape, rest, b + Len(stream))
        /\ b + Len(stream) + Len(rest) = Len(tape)
    BY <1>1, <1>2 DEF Positions
  <1>7. /\ stream' \in Seq(Byte) /\ left \in Seq(Byte)
        /\ PartOf(tape, stream', b) /\ PartOf(tape, left, b + Len(stream'))
        /\ Len(stream') + Len(left) = Len(stream) + Len(rest)
    <2> HIDE DEF b
    <2> QED BY <1>2, <1>3, <1>4, <1>5, <1>6, Written
  <1>8. b + Len(stream') + Len(left) = Len(tape)
    <2>1. /\ Len(stream') \in Nat /\ Len(left) \in Nat /\ Len(stream) \in Nat
          /\ Len(rest) \in Nat /\ Len(tape) \in Nat
      BY <1>2, <1>4, <1>7
    <2> HIDE DEF b, left
    <2> QED BY <1>5, <1>6, <1>7, <2>1
  <1>9. Positions(tape, cut, left)'
    BY <1>1, <1>2, <1>7, <1>8 DEF Positions
  <1>10. /\ writer'[s].pc = "write" /\ writer'[s].rest = left /\ writer' \in [Sender -> Writer]
         /\ \A t \in Sender \ {s} : writer'[t] = writer[t]
    <2> DEFINE w == [writer[s] EXCEPT !.rest = left]
    <2> HIDE DEF left
    <2>1. w \in Writer /\ w.pc = "write" /\ w.rest = left
      BY <1>2, <1>7 DEF Writer, Writing
    <2>2. writer' = [writer EXCEPT ![s] = w]
      BY <1>3 DEF left
    <2> QED BY <1>0, <2>1, <2>2, WriterUpdate
  <1> HIDE DEF left
  <1>11. Typed' /\ Exclusive'
    BY <1>0, <1>2, <1>7, <1>10 DEF Typed, Exclusive, Writing
  <1>12. Left(left)'
    <2>1. \A t \in Sender : Writing(t)' => t = s
      BY <1>0, <1>2, <1>10 DEF Exclusive, Writing
    <2>2. Writing(s)'
      BY <1>10 DEF Writing
    <2> QED BY <1>2, <1>7, <1>10, <2>1, <2>2 DEF Left
  <1>13. Lines(tape, cut)'
    BY <1>1, <1>2 DEF Lines
  <1> QED BY <1>9, <1>11, <1>12, <1>13 DEF WireInv

(* A beginning of a line is complete when it is the line. *)
LEMMA LineRead ==
  ASSUME NEW line, LineOK(line),
         NEW tape \in Seq(Byte), NEW bytes \in Seq(Byte), NEW c \in Nat, PartOf(tape, bytes, c), Len(bytes) \in 1 .. Len(line),
         \A i \in 1 .. Len(line) : tape[c + i] = line[i]
  PROVE  /\ Complete(bytes) <=> Len(bytes) = Len(line)
         /\ Complete(bytes) => bytes = line
  <1>1. line \in Seq(Byte) /\ Len(line) \in Nat
    BY DEF LineOK
  <1>2. \A i \in 1 .. Len(bytes) : bytes[i] = line[i]
    BY <1>1 DEF PartOf
  <1>3. SubSeq(line, 1, Len(bytes)) = bytes
    <2> DEFINE start == SubSeq(line, 1, Len(bytes))
    <2>1. start \in Seq(Byte) /\ Len(start) = Len(bytes) /\ \A i \in 1 .. Len(bytes) : start[i] = bytes[i]
      BY <1>1, <1>2
    <2> HIDE DEF start
    <2>2. start = bytes
      BY <2>1, SeqEqual
    <2> QED BY <2>2 DEF start
  <1>4. Complete(bytes) <=> Len(bytes) = Len(line)
    BY <1>3 DEF LineOK
  <1>5. Len(bytes) = Len(line) => bytes = line
    BY <1>1, <1>2, SeqEqual
  <1> QED BY <1>4, <1>5

LEMMA ReadStep == ASSUME SingleLines, WireInv, Read PROVE WireInv'
  <1>0. Typed /\ Exclusive
    BY DEF WireInv
  <1>1. PICK tape, cut, rest : Lines(tape, cut) /\ Left(rest) /\ Positions(tape, cut, rest)
    BY DEF WireInv
  <1> DEFINE k == Len(got)
             c == cut[k]
             bytes == Append(buffer, Head(stream))
             line == Line(sent[k + 1])
  <1>2. /\ stream # <<>> /\ stream' = Tail(stream) /\ UNCHANGED <<writer, lock, sent, open>>
        /\ IF Complete(bytes) THEN buffer' = <<>> /\ got' = Append(got, bytes)
                               ELSE buffer' = bytes /\ got' = got
    BY DEF Read
  <1>3. /\ k \in 0 .. Len(sent) /\ k \in Nat /\ Len(sent) \in Nat
        /\ buffer \in Seq(Byte) /\ stream \in Seq(Byte)
        /\ rest \in Seq(Byte) /\ tape \in Seq(Byte) /\ c \in Nat
        /\ got \in Seq(Seq(Byte)) /\ sent \in Seq(Messages)
    BY <1>0, <1>1 DEF Positions, Lines, Left, Typed
  <1>4. /\ PartOf(tape, buffer, c) /\ PartOf(tape, stream, c + Len(buffer))
        /\ PartOf(tape, rest, c + Len(buffer) + Len(stream))
        /\ open => c + Len(buffer) + Len(stream) + Len(rest) = Len(tape)
    BY <1>1 DEF Positions
  <1>5. /\ bytes \in Seq(Byte) /\ stream' \in Seq(Byte) /\ Len(bytes) = Len(buffer) + 1
        /\ PartOf(tape, bytes, c) /\ PartOf(tape, stream', c + Len(bytes))
        /\ Len(bytes) + Len(stream') = Len(buffer) + Len(stream)
    <2> HIDE DEF c
    <2> QED BY <1>2, <1>3, <1>4, Consumed
  <1>6. /\ Len(bytes) \in Nat /\ Len(stream') \in Nat /\ Len(buffer) \in Nat
        /\ Len(stream) \in Nat /\ Len(stream) >= 1 /\ Len(rest) \in Nat /\ Len(tape) \in Nat
    BY <1>2, <1>3, <1>5, EmptySeq
  <1> HIDE DEF bytes, c
  <1>7. /\ PartOf(tape, rest, c + Len(bytes) + Len(stream'))
        /\ open => c + Len(bytes) + Len(stream') + Len(rest) = Len(tape)
    <2>0. /\ c \in Nat /\ Len(bytes) \in Nat /\ Len(stream') \in Nat
          /\ Len(buffer) \in Nat /\ Len(stream) \in Nat
          /\ Len(bytes) + Len(stream') = Len(buffer) + Len(stream)
      BY <1>3, <1>5, <1>6
    <2>1. c + Len(bytes) + Len(stream') = c + Len(buffer) + Len(stream)
      BY <2>0
    <2>2. PartOf(tape, rest, c + Len(bytes) + Len(stream'))
      BY <1>4, <2>1
    <2>3. open => c + Len(bytes) + Len(stream') + Len(rest) = Len(tape)
      BY <1>4, <2>1
    <2> QED BY <2>2, <2>3
  <1>8. k < Len(sent)
    <2>1. c < Len(tape)
      BY <1>3, <1>4, <1>6 DEF PartOf
    <2>2. cut[Len(sent)] = Len(tape)
      BY <1>1 DEF Lines
    <2> QED BY <1>3, <1>6, <2>1, <2>2 DEF c
  <1>9. /\ k + 1 \in 1 .. Len(sent) /\ Len(buffer) < Len(line)
        /\ sent[k + 1] \in Messages
        /\ \A j \in 1 .. k : got[j] = Line(sent[j])
    BY <1>1, <1>3, <1>8 DEF Positions
  <1>10. LineOK(line)
    BY <1>9, LineShape
  <1>11. /\ cut[k + 1] = c + Len(line)
         /\ \A i \in 1 .. Len(line) : tape[c + i] = line[i]
    <2>1. k + 1 - 1 = k
      BY <1>3
    <2> QED BY <1>1, <1>9, <2>1 DEF Lines, c
  <1>12. line \in Seq(Byte) /\ Len(line) \in Nat /\ Len(bytes) \in 1 .. Len(line)
    BY <1>5, <1>6, <1>9, <1>10 DEF LineOK
  <1> HIDE DEF line
  <1>13. /\ Complete(bytes) <=> Len(bytes) = Len(line)
         /\ Complete(bytes) => bytes = line
    BY <1>3, <1>5, <1>10, <1>11, <1>12, LineRead
  <1>14. Exclusive' /\ Lines(tape, cut)' /\ Left(rest)'
    BY <1>0, <1>1, <1>2 DEF Exclusive, Writing, Lines, Left
  <1>15. ASSUME Complete(bytes) PROVE Typed' /\ Positions(tape, cut, rest)'
    <2>1. bytes = line /\ buffer' = <<>> /\ got' = Append(got, bytes)
      BY <1>2, <1>13, <1>15
    <2>2. /\ got' \in Seq(Seq(Byte)) /\ Len(got') = k + 1
          /\ \A j \in 1 .. k : got'[j] = got[j]
          /\ got'[k + 1] = line
      BY <1>3, <1>5, <2>1, AppendProperties
    <2>3. Typed'
      BY <1>0, <1>2, <1>5, <2>1, <2>2 DEF Typed
    <2>4. cut[Len(got')] + Len(buffer') = c + Len(bytes) /\ cut[Len(got')] = c + Len(bytes)
      BY <1>3, <1>6, <1>11, <2>1, <2>2, EmptySeq
    <2>5. ASSUME NEW j \in 1 .. Len(got') PROVE got'[j] = Line(sent'[j])
      <3>1. j \in 1 .. k \/ j = k + 1
        BY <1>3, <2>2
      <3> QED BY <1>2, <1>9, <2>2, <3>1 DEF line
    <2>6. ASSUME Len(got') < Len(sent') PROVE Len(buffer') < Len(Line(sent'[Len(got') + 1]))
      <3>1. sent[k + 2] \in Messages /\ k + 2 = Len(got') + 1
        BY <1>2, <1>3, <2>2, <2>6
      <3>2. LineOK(Line(sent[k + 2]))
        BY <3>1, LineShape
      <3> QED BY <1>2, <2>1, <3>1, <3>2 DEF LineOK
    <2>7. PartOf(tape, <<>>, c + Len(bytes))
      <3>1. c + Len(bytes) <= Len(tape) /\ c + Len(bytes) \in Nat
        BY <1>3, <1>5, <1>6 DEF PartOf
      <3> QED BY <3>1 DEF PartOf
    <2>8. Len(got') <= Len(sent')
      BY <1>2, <1>3, <1>8, <2>2
    <2> QED BY <1>2, <1>5, <1>7, <2>1, <2>3, <2>4, <2>5, <2>6, <2>7, <2>8 DEF Positions
  <1>16. ASSUME ~Complete(bytes) PROVE Typed' /\ Positions(tape, cut, rest)'
    <2>1. buffer' = bytes /\ got' = got
      BY <1>2, <1>16
    <2>2. Typed'
      BY <1>0, <1>2, <1>5, <2>1 DEF Typed
    <2>3. Len(bytes) < Len(line)
      BY <1>12, <1>13, <1>16
    <2>4. /\ Len(got') = k /\ cut[k] = c /\ sent' = sent /\ open' = open
          /\ Line(sent'[k + 1]) = line
      BY <1>2, <2>1 DEF c, line
    <2>5. \A j \in 1 .. k : got'[j] = Line(sent'[j])
      BY <1>9, <2>1, <2>4
    <2>6. Positions(tape, cut, rest)'
      <3>1. /\ Len(got') <= Len(sent')
            /\ Len(got') < Len(sent') => Len(buffer') < Len(Line(sent'[Len(got') + 1]))
        BY <1>3, <2>1, <2>3, <2>4
      <3>2. \A j \in 1 .. Len(got') : got'[j] = Line(sent'[j])
        BY <2>4, <2>5
      <3>3. /\ PartOf(tape, buffer', cut[Len(got')])
            /\ PartOf(tape, stream', cut[Len(got')] + Len(buffer'))
            /\ PartOf(tape, rest, cut[Len(got')] + Len(buffer') + Len(stream'))
            /\ open' => cut[Len(got')] + Len(buffer') + Len(stream') + Len(rest) = Len(tape)
        BY <1>5, <1>7, <2>1, <2>4
      <3> QED BY <3>1, <3>2, <3>3 DEF Positions
    <2> QED BY <2>2, <2>6
  <1> QED BY <1>14, <1>15, <1>16 DEF WireInv

(* The tape grows at its end. *)
LEMMA TapeGrows ==
  ASSUME NEW tape \in Seq(Byte), NEW line \in Seq(Byte)
  PROVE  /\ tape \o line \in Seq(Byte) /\ Len(tape \o line) = Len(tape) + Len(line)
         /\ PartOf(tape \o line, line, Len(tape))
         /\ \A bytes \in Seq(Byte), at \in Nat :
              PartOf(tape, bytes, at) => PartOf(tape \o line, bytes, at)
  <1> DEFINE t == Len(tape)    l == Len(line)    longer == tape \o line
  <1>1. t \in Nat /\ l \in Nat
    OBVIOUS
  <1>2. /\ longer \in Seq(Byte) /\ Len(longer) = t + l
        /\ \A i \in 1 .. t + l : longer[i] = IF i <= t THEN tape[i] ELSE line[i - t]
    BY ConcatProperties
  <1> HIDE DEF t, l, longer
  <1>3. ASSUME NEW i \in 1 .. l PROVE line[i] = longer[t + i]
    <2>1. PICK j : j = t + i
      OBVIOUS
    <2>2. j \in 1 .. t + l /\ ~(j <= t) /\ j - t = i
      BY <1>1, <2>1
    <2>3. longer[j] = line[j - t]
      BY <1>2, <2>2
    <2> QED BY <2>1, <2>2, <2>3
  <1>4. ASSUME NEW bytes \in Seq(Byte), NEW at \in Nat, PartOf(tape, bytes, at)
        PROVE  PartOf(longer, bytes, at)
    <2>1. /\ Len(bytes) \in Nat /\ at + Len(bytes) <= t
          /\ \A i \in 1 .. Len(bytes) : bytes[i] = tape[at + i]
      BY <1>4 DEF PartOf, t
    <2>2. ASSUME NEW i \in 1 .. Len(bytes) PROVE bytes[i] = longer[at + i]
      <3>1. at + i \in 1 .. t + l /\ at + i <= t
        BY <1>1, <2>1
      <3>2. longer[at + i] = tape[at + i]
        BY <1>2, <3>1
      <3> QED BY <2>1, <3>2
    <2>3. at + Len(bytes) <= Len(longer)
      BY <1>1, <1>2, <2>1
    <2> QED BY <2>2, <2>3 DEF PartOf
  <1>5. PartOf(longer, line, t)
    BY <1>1, <1>2, <1>3 DEF PartOf, l
  <1> QED BY <1>2, <1>4, <1>5 DEF t, l, longer

LEMMA AcquireStep == ASSUME SingleLines, WireInv, NEW s \in Sender, Acquire(s) PROVE WireInv'
  <1>0. Typed /\ Exclusive
    BY DEF WireInv
  <1>1. PICK tape, cut, rest : Lines(tape, cut) /\ Left(rest) /\ Positions(tape, cut, rest)
    BY DEF WireInv
  <1> DEFINE m == writer[s].fields
             line == Line(m)
             w == [pc |-> "write", fields |-> m, rest |-> line]
             l == Len(sent)
  <1>2. /\ m \in Messages /\ lock = {} /\ lock' = {s} /\ sent' = Append(sent, m)
        /\ writer' = [writer EXCEPT ![s] = w] /\ UNCHANGED <<stream, buffer, got, open>>
    BY <1>0 DEF Acquire, Nobody, Typed
  <1>3. LineOK(line) /\ line \in Seq(Byte) /\ Len(line) \in Nat \ {0}
    <2>1. LineOK(line)
      BY <1>2, LineShape
    <2> QED BY <2>1 DEF LineOK
  <1>4. w \in Writer /\ w.pc = "write" /\ w.rest = line /\ w.fields = m
    BY <1>2, <1>3 DEF Writer
  <1> HIDE DEF w
  <1>5. /\ writer'[s] = w /\ writer' \in [Sender -> Writer]
        /\ \A t \in Sender \ {s} : writer'[t] = writer[t]
    BY <1>0, <1>2, <1>4, WriterUpdate
  <1>6. \A t \in Sender : ~Writing(t)
    BY <1>0, <1>2 DEF Exclusive
  <1>7. \A t \in Sender : Writing(t)' <=> t = s
    BY <1>4, <1>5, <1>6 DEF Writing
  <1>8. rest = <<>>
    BY <1>1, <1>6 DEF Left
  <1>9. /\ sent' \in Seq(Messages) /\ Len(sent') = l + 1 /\ l \in Nat
        /\ \A j \in 1 .. l : sent'[j] = sent[j]
        /\ sent'[l + 1] = m
    <2>1. sent \in Seq(Messages)
      BY <1>0 DEF Typed
    <2> HIDE DEF m
    <2> QED BY <1>2, <2>1, AppendProperties
  <1> HIDE DEF m
  <1>10. Typed' /\ Exclusive'
    <2>1. \A t \in Sender : writer'[t].pc = "lock" => writer'[t].fields \in Messages
      BY <1>0, <1>4, <1>5 DEF Typed
    <2>2. Exclusive'
      BY <1>2, <1>7 DEF Exclusive
    <2> QED BY <1>0, <1>2, <1>5, <1>9, <2>1, <2>2 DEF Typed
  <1> HIDE DEF line
  <1>11. PICK longer, further, next :
           /\ longer = tape \o line
           /\ further = [j \in 0 .. l + 1 |-> IF j <= l THEN cut[j] ELSE Len(tape) + Len(line)]
           /\ next = IF open THEN line ELSE <<>>
    OBVIOUS
  <1>12. Left(next)'
    BY <1>2, <1>3, <1>4, <1>5, <1>7, <1>11 DEF Left
  <1>13. /\ tape \in Seq(Byte) /\ Len(tape) \in Nat /\ cut \in [0 .. l -> Nat]
         /\ cut[0] = 0 /\ cut[l] = Len(tape)
         /\ \A j \in 0 .. l : cut[j] <= Len(tape)
    BY <1>1 DEF Lines
  <1>14. /\ longer \in Seq(Byte) /\ Len(longer) = Len(tape) + Len(line)
         /\ PartOf(longer, line, Len(tape))
         /\ \A bytes \in Seq(Byte), at \in Nat : PartOf(tape, bytes, at) => PartOf(longer, bytes, at)
    BY <1>3, <1>13, <1>11, TapeGrows
  <1>15. /\ further \in [0 .. l + 1 -> Nat]
         /\ \A j \in 0 .. l : further[j] = cut[j]
         /\ further[l + 1] = Len(tape) + Len(line)
    BY <1>3, <1>9, <1>13, <1>11
  <1> HIDE DEF l
  <1>16. Lines(longer, further)'
    <2>1. ASSUME NEW j \in 0 .. l + 1 PROVE further[j] <= Len(longer)
      <3>1. j \in 0 .. l \/ j = l + 1
        BY <1>9
      <3> QED BY <1>3, <1>13, <1>14, <1>15, <3>1
    <2>2. ASSUME NEW j \in 1 .. l + 1
          PROVE  /\ further[j] = further[j - 1] + Len(Line(sent'[j]))
                 /\ \A i \in 1 .. Len(Line(sent'[j])) : longer[further[j - 1] + i] = Line(sent'[j])[i]
      <3>1. CASE j = l + 1
        <4>1. Line(sent'[j]) = line /\ further[j - 1] = Len(tape) /\ further[j] = Len(tape) + Len(line)
          <5>1. j - 1 = l /\ l \in 0 .. l
            BY <1>9, <3>1
          <5> QED BY <1>9, <1>13, <1>15, <3>1, <5>1 DEF line
        <4> QED BY <1>14, <4>1 DEF PartOf
      <3>2. CASE j \in 1 .. l
        <4> DEFINE old == Line(sent[j])
        <4>1. /\ Line(sent'[j]) = old /\ cut[j] = cut[j - 1] + Len(old)
              /\ \A i \in 1 .. Len(old) : tape[cut[j - 1] + i] = old[i]
          BY <1>1, <1>9, <3>2 DEF Lines, l
        <4>2. j - 1 \in 0 .. l /\ j \in 0 .. l
          BY <1>9, <3>2
        <4>3. further[j] = cut[j] /\ further[j - 1] = cut[j - 1] /\ cut[j] <= Len(tape)
          BY <1>13, <1>15, <4>2
        <4>4. LineOK(old)
          <5>1. sent[j] \in Messages
            BY <1>0, <3>2 DEF Typed, l
          <5> QED BY <5>1, LineShape
        <4>5. old \in Seq(Byte) /\ cut[j - 1] \in Nat
          BY <1>13, <4>2, <4>4 DEF LineOK
        <4> HIDE DEF old
        <4>6. PartOf(tape, old, cut[j - 1])
          BY <4>1, <4>3 DEF PartOf
        <4>7. PartOf(longer, old, cut[j - 1])
          BY <1>14, <4>5, <4>6
        <4>8. \A i \in 1 .. Len(old) : longer[cut[j - 1] + i] = old[i]
          BY <4>7 DEF PartOf
        <4> QED BY <4>1, <4>3, <4>8
      <3>3. j = l + 1 \/ j \in 1 .. l
        BY <1>9
      <3> QED BY <3>1, <3>2, <3>3
    <2>3. further[0] = 0
      BY <1>9, <1>13, <1>15
    <2>4. further \in [0 .. Len(sent') -> Nat] /\ further[Len(sent')] = Len(longer)
      BY <1>9, <1>14, <1>15
    <2>5. \A j \in 0 .. Len(sent') : further[j] <= Len(longer)
      BY <1>9, <2>1
    <2>6. \A j \in 1 .. Len(sent') :
             /\ further[j] = further[j - 1] + Len(Line(sent'[j]))
             /\ \A i \in 1 .. Len(Line(sent'[j])) : longer[further[j - 1] + i] = Line(sent'[j])[i]
      BY <1>9, <2>2
    <2> QED BY <1>14, <2>3, <2>4, <2>5, <2>6 DEF Lines
  <1>17. Positions(longer, further, next)'
    <2> DEFINE k == Len(got)
               b == cut[k] + Len(buffer)
               f == b + Len(stream)
    <2>1. /\ k \in 0 .. l /\ k \in Nat
          /\ buffer \in Seq(Byte) /\ Len(buffer) \in Nat
          /\ stream \in Seq(Byte) /\ Len(stream) \in Nat
      BY <1>0, <1>1, <1>9 DEF Positions, Typed, l
    <2>2. /\ \A j \in 1 .. k : got[j] = Line(sent[j])
          /\ k < l => Len(buffer) < Len(Line(sent[k + 1]))
          /\ PartOf(tape, buffer, cut[k]) /\ PartOf(tape, stream, b) /\ PartOf(tape, <<>>, f)
          /\ open => f = Len(tape)
      <3>1. open => f + Len(<<>>) = Len(tape)
        BY <1>1, <1>8 DEF Positions
      <3>2. f \in Nat /\ Len(<<>>) = 0
        BY <1>13, <2>1
      <3>3. open => f = Len(tape)
        BY <3>1, <3>2
      <3> QED BY <1>1, <1>8, <3>3 DEF Positions, l
    <2>3. cut[k] \in Nat /\ b \in Nat /\ f \in Nat /\ further[k] = cut[k] /\ <<>> \in Seq(Byte)
      BY <1>13, <1>15, <2>1
    <2> HIDE DEF k, b, f
    <2>4. PartOf(longer, buffer, cut[k]) /\ PartOf(longer, stream, b) /\ PartOf(longer, next, f)
      BY <1>14, <1>11, <2>1, <2>2, <2>3
    <2>5. ASSUME k < l + 1 PROVE Len(buffer) < Len(Line(sent'[k + 1]))
      <3>1. CASE k < l
        <4>1. k + 1 \in 1 .. l
          BY <1>9, <2>1, <3>1
        <4> QED BY <1>9, <2>2, <3>1, <4>1
      <3>2. CASE k = l
        <4>1. Len(buffer) = 0
          BY <1>13, <2>1, <2>2, <3>2 DEF PartOf
        <4> QED BY <1>3, <1>9, <3>2, <4>1 DEF line
      <3> QED BY <1>9, <2>1, <2>5, <3>1, <3>2
    <2>6. open => f + Len(next) = Len(longer)
      BY <1>14, <1>11, <2>2
    <2>7. ASSUME NEW j \in 1 .. k PROVE got[j] = Line(sent'[j])
      <3>1. j \in 1 .. l
        BY <1>9, <2>1
      <3> QED BY <1>9, <2>2, <3>1
    <2>8. k <= l + 1
      BY <1>9, <2>1
    <2>9. /\ Len(got') = k /\ Len(sent') = l + 1 /\ buffer' = buffer /\ stream' = stream
          /\ got' = got /\ open' = open
          /\ further[k] + Len(buffer) = b /\ b + Len(stream) = f
      BY <1>2, <1>9, <2>3 DEF k, b, f
    <2>10. /\ Len(got') <= Len(sent') /\ \A j \in 1 .. Len(got') : got'[j] = Line(sent'[j])
           /\ Len(got') < Len(sent') => Len(buffer') < Len(Line(sent'[Len(got') + 1]))
      BY <2>5, <2>7, <2>8, <2>9
    <2>11. /\ PartOf(longer, buffer', further[Len(got')])
           /\ PartOf(longer, stream', further[Len(got')] + Len(buffer'))
           /\ PartOf(longer, next, further[Len(got')] + Len(buffer') + Len(stream'))
           /\ open' => further[Len(got')] + Len(buffer') + Len(stream') + Len(next) = Len(longer)
      BY <2>3, <2>4, <2>6, <2>9
    <2> QED BY <2>10, <2>11 DEF Positions
  <1> QED BY <1>10, <1>12, <1>16, <1>17 DEF WireInv

-----------------------------------------------------------------------------
(* The theorem                                                             *)

LEMMA WireStep == ASSUME SingleLines, WireInv, [Next]_vars PROVE WireInv'
  <1>1. CASE Read
    BY <1>1, ReadStep
  <1>2. CASE Break
    BY <1>2, BreakStep
  <1>3. ASSUME NEW s \in Sender, Call(s) \/ Acquire(s) \/ Write(s) \/ Return(s)
        PROVE  WireInv'
    BY <1>3, CallStep, AcquireStep, WriteStep, ReturnStep
  <1>4. CASE UNCHANGED vars
    <2>1. PICK tape, cut, rest : Lines(tape, cut) /\ Left(rest) /\ Positions(tape, cut, rest)
      BY DEF WireInv
    <2>2. Lines(tape, cut)' /\ Left(rest)' /\ Positions(tape, cut, rest)'
      BY <1>4, <2>1 DEF Lines, Left, Positions, Writing, vars
    <2>3. Typed' /\ Exclusive'
      BY <1>4 DEF WireInv, Typed, Exclusive, Writing, vars
    <2> QED BY <2>2, <2>3 DEF WireInv
  <1> QED BY <1>1, <1>2, <1>3, <1>4 DEF Next

LEMMA FramedFromTape == ASSUME WireInv PROVE Framed
  <1> DEFINE whole == [i \in DOMAIN sent |-> Line(sent[i])]
             k == Len(got)
  <1>1. k <= Len(sent) /\ \A j \in 1 .. k : got[j] = Line(sent[j])
    BY DEF WireInv, Positions
  <1>2. /\ got \in Seq(Seq(Byte)) /\ sent \in Seq(Messages)
        /\ k \in Nat /\ Len(sent) \in Nat
    BY DEF WireInv, Typed
  <1>3. /\ DOMAIN whole = 1 .. Len(sent) /\ Len(whole) = Len(sent)
        /\ \A j \in 1 .. k : whole[j] = got[j]
    BY <1>1, <1>2
  <1>4. SubSeq(whole, 1, k) = got
    BY <1>1, <1>2, <1>3
  <1> QED BY <1>1, <1>3, <1>4 DEF Framed, IsPrefix

(* Framed: what client_receive returns are the lines that the threads sent, *)
(* whole, one message each and in order, whatever parts write() takes,      *)
(* wherever the connection breaks and however long a message is.            *)
THEOREM Framing == ASSUME SingleLines PROVE Spec => []Framed
  <1>1. Init => WireInv
    BY WireStart
  <1>2. WireInv /\ [Next]_vars => WireInv'
    BY WireStep
  <1>3. WireInv => Framed
    BY FramedFromTape
  <1> QED BY <1>1, <1>2, <1>3, PTL DEF Spec

-----------------------------------------------------------------------------
(* What a message is understood as.                                         *)
(*                                                                         *)
(* Joined puts the fields one after the other with the recursive function   *)
(* of FlattenSeq, Tokens finds them again.  The place of each field in the  *)
(* line is all that the two have in common, so it is what is shown by      *)
(* induction over the fields.                                              *)

(* Induction from 1 to n, on a set: the theorem is about any S. *)
LEMMA UpTo ==
  ASSUME NEW n \in Nat, NEW S, 1 \in S, \A i \in 1 .. n - 1 : i \in S => i + 1 \in S
  PROVE  1 .. n \subseteq S
  <1> SUFFICES ASSUME ~(1 .. n \subseteq S) PROVE FALSE
    OBVIOUS
  <1> DEFINE T == (1 .. n) \ S
  <1>1. T \subseteq Nat /\ T # {}
    OBVIOUS
  <1>2. PICK x \in T : \A y \in T : <<y, x>> \notin OpToRel(<, Nat)
    <2> HIDE DEF T
    <2> QED BY <1>1, NatLessThanWellFounded, WFMin
  <1>3. x \in 2 .. n /\ x - 1 \in 1 .. n - 1 /\ x - 1 \in Nat /\ x - 1 < x /\ (x - 1) + 1 = x
    OBVIOUS
  <1>4. <<x - 1, x>> \in OpToRel(<, Nat)
    BY <1>3 DEF OpToRel
  <1>5. x - 1 \in S
    <2>1. x - 1 \in 1 .. n
      BY <1>3
    <2>2. x - 1 \notin T
      BY <1>2, <1>4
    <2> QED BY <2>1, <2>2
  <1> QED BY <1>3, <1>5

(* What the recursive function of FlattenSeq is up to m: F[i] is the first  *)
(* i sequences, one after the other.                                        *)
Flattened(seqs, m, F) ==
  /\ F \in [1 .. m -> Seq(Byte)]
  /\ F[1] = seqs[1]
  /\ \A i \in 1 .. m - 1 : F[i + 1] = F[i] \o seqs[i + 1]

LEMMA FlattenDefined ==
  ASSUME NEW seqs \in Seq(Seq(Byte)), NEW n \in Nat \ {0}, Len(seqs) = n
  PROVE  \E F : Flattened(seqs, n, F) /\ FlattenSeq(seqs) = F[n]
  <1> DEFINE Step(g) == [i \in 1 .. n |-> IF i = 1 THEN seqs[i] ELSE g[i - 1] \o seqs[i]]
             flatten == CHOOSE g : g = Step(g)
             S == {m \in 1 .. n : \E g : Flattened(seqs, m, g)}
  <1>1. FlattenSeq(seqs) = flatten[n]
    BY DEF FlattenSeq
  <1>2. n \in Nat \ {0} /\ \A i \in 1 .. n : seqs[i] \in Seq(Byte)
    OBVIOUS
  <1>3. 1 \in S
    <2>1. Flattened(seqs, 1, [i \in 1 .. 1 |-> seqs[1]])
      BY <1>2 DEF Flattened
    <2>2. 1 \in 1 .. n
      BY <1>2
    <2> QED BY <2>1, <2>2
  <1>4. ASSUME NEW m \in 1 .. n - 1, m \in S PROVE m + 1 \in S
    <2>1. PICK g : Flattened(seqs, m, g)
      BY <1>4
    <2> DEFINE h == [i \in 1 .. m + 1 |-> IF i <= m THEN g[i] ELSE g[m] \o seqs[m + 1]]
    <2>2. m \in 1 .. m /\ m + 1 \in 1 .. n /\ 1 <= m /\ m \in Nat
          /\ m + 1 \in 1 .. m + 1 /\ ~(m + 1 <= m)
      BY <1>2
    <2>3. g[m] \o seqs[m + 1] \in Seq(Byte)
      <3>1. g[m] \in Seq(Byte) /\ seqs[m + 1] \in Seq(Byte)
        BY <1>2, <2>1, <2>2 DEF Flattened
      <3> QED BY <3>1, ConcatProperties
    <2>4. h \in [1 .. m + 1 -> Seq(Byte)]
      BY <2>1, <2>2, <2>3 DEF Flattened
    <2>5. \A i \in 1 .. m : h[i] = g[i]
      BY <2>2
    <2>6. h[m + 1] = g[m] \o seqs[m + 1]
      BY <2>2
    <2> HIDE DEF h
    <2>7. ASSUME NEW i \in 1 .. m PROVE h[i + 1] = h[i] \o seqs[i + 1]
      <3>1. CASE i = m
        BY <2>2, <2>5, <2>6, <3>1
      <3>2. CASE i # m
        <4>1. i \in 1 .. m - 1 /\ i + 1 \in 1 .. m
          BY <2>2, <3>2
        <4> QED BY <2>1, <2>5, <4>1 DEF Flattened
      <3> QED BY <3>1, <3>2
    <2>8. h[1] = seqs[1]
      BY <2>1, <2>2, <2>5 DEF Flattened
    <2>9. Flattened(seqs, m + 1, h)
      <3>1. ASSUME NEW i \in 1 .. (m + 1) - 1 PROVE h[i + 1] = h[i] \o seqs[i + 1]
        <4>1. i \in 1 .. m
          BY <2>2
        <4> QED BY <2>7, <4>1
      <3> QED BY <2>4, <2>8, <3>1 DEF Flattened
    <2> QED BY <2>2, <2>9
  <1>5. n \in S
    <2> HIDE DEF S
    <2>1. 1 .. n \subseteq S
      BY <1>2, <1>3, <1>4, UpTo
    <2> QED BY <1>2, <2>1
  <1>6. PICK g : Flattened(seqs, n, g)
    BY <1>5
  <1>7. g = Step(g)
    <2>1. ASSUME NEW i \in 1 .. n PROVE g[i] = IF i = 1 THEN seqs[i] ELSE g[i - 1] \o seqs[i]
      <3>1. CASE i = 1
        BY <1>6, <3>1 DEF Flattened
      <3>2. CASE i # 1
        <4>1. i - 1 \in 1 .. n - 1 /\ (i - 1) + 1 = i
          BY <1>2, <3>2
        <4>2. g[(i - 1) + 1] = g[i - 1] \o seqs[(i - 1) + 1]
          BY <1>6, <4>1 DEF Flattened
        <4> QED BY <3>2, <4>1, <4>2
      <3> QED BY <3>1, <3>2
    <2>2. g \in [1 .. n -> Seq(Byte)]
      BY <1>6 DEF Flattened
    <2> QED BY <2>1, <2>2
  <1>8. flatten = Step(flatten)
    BY <1>7
  <1> HIDE DEF flatten
  <1>9. flatten[1] = seqs[1]
    BY <1>2, <1>8
  <1>10. ASSUME NEW i \in 1 .. n - 1 PROVE flatten[i + 1] = flatten[i] \o seqs[i + 1]
    <2>1. i + 1 \in 1 .. n /\ i + 1 # 1 /\ (i + 1) - 1 = i
      BY <1>2
    <2>2. flatten[i + 1] = flatten[(i + 1) - 1] \o seqs[i + 1]
      BY <1>8, <2>1
    <2> QED BY <2>1, <2>2
  <1>11. \A i \in 1 .. n : flatten[i] \in Seq(Byte)
    <2> DEFINE P == {i \in 1 .. n : flatten[i] \in Seq(Byte)}
    <2>1. 1 \in P
      BY <1>2, <1>9
    <2>2. ASSUME NEW i \in 1 .. n - 1, i \in P PROVE i + 1 \in P
      <3>1. i + 1 \in 1 .. n /\ flatten[i] \in Seq(Byte)
        BY <1>2, <2>2
      <3>2. seqs[i + 1] \in Seq(Byte)
        BY <1>2, <3>1
      <3>3. flatten[i] \o seqs[i + 1] \in Seq(Byte)
        BY <3>1, <3>2, ConcatProperties
      <3> QED BY <1>10, <3>1, <3>3
    <2> HIDE DEF P
    <2>3. 1 .. n \subseteq P
      BY <1>2, <2>1, <2>2, UpTo
    <2> QED BY <2>3 DEF P
  <1>12. flatten \in [1 .. n -> Seq(Byte)]
    <2>1. flatten = [i \in 1 .. n |-> flatten[i]]
      BY <1>8
    <2> QED BY <1>11, <2>1
  <1>13. Flattened(seqs, n, flatten)
    BY <1>9, <1>10, <1>12 DEF Flattened
  <1> QED BY <1>1, <1>13

(* A function that increases from each number to the next does so from any  *)
(* number to any later one, and its steps cover what lies below its last.   *)
LEMMA Increasing ==
  ASSUME NEW n \in Nat \ {0}, NEW c \in [0 .. n -> Nat], c[0] = 0,
         \A i \in 1 .. n : c[i - 1] < c[i]
  PROVE  /\ \A j \in 1 .. n : \A i \in 0 .. j - 1 : c[i] < c[j]
         /\ \A p \in 1 .. c[n] : \E i \in 1 .. n : p \in c[i - 1] + 1 .. c[i]
  <1> DEFINE S == {j \in 1 .. n : \A i \in 0 .. j - 1 : c[i] < c[j]}
             T == {m \in 1 .. n : \A p \in 1 .. c[m] : \E i \in 1 .. m : p \in c[i - 1] + 1 .. c[i]}
  <1>1. 1 \in 1 .. n /\ 1 - 1 = 0 /\ 0 \in 0 .. n
    OBVIOUS
  <1>2. 1 \in S
    <2>1. ASSUME NEW i \in 0 .. 1 - 1 PROVE c[i] < c[1]
      <3>1. i = 0
        OBVIOUS
      <3>2. c[1 - 1] < c[1]
        BY <1>1
      <3> QED BY <1>1, <3>1, <3>2
    <2> QED BY <1>1, <2>1
  <1>3. ASSUME NEW j \in 1 .. n - 1, j \in S PROVE j + 1 \in S
    <2>1. j + 1 \in 1 .. n /\ (j + 1) - 1 = j /\ j \in 0 .. n /\ j + 1 \in 0 .. n
      OBVIOUS
    <2>2. c[j] < c[j + 1] /\ c[j] \in Nat /\ c[j + 1] \in Nat
      <3>1. c[(j + 1) - 1] < c[j + 1]
        BY <2>1
      <3> QED BY <2>1, <3>1
    <2>3. ASSUME NEW i \in 0 .. (j + 1) - 1 PROVE c[i] < c[j + 1]
      <3>1. i = j \/ i \in 0 .. j - 1
        OBVIOUS
      <3>2. c[i] \in Nat
        OBVIOUS
      <3>3. i \in 0 .. j - 1 => c[i] < c[j]
        BY <1>3
      <3> QED BY <2>2, <3>1, <3>2, <3>3
    <2> QED BY <2>1, <2>3
  <1>4. 1 .. n \subseteq S
    <2> HIDE DEF S
    <2> QED BY <1>2, <1>3, UpTo
  <1>5. 1 \in T
    <2>1. ASSUME NEW p \in 1 .. c[1] PROVE p \in c[1 - 1] + 1 .. c[1]
      BY <1>1
    <2> QED BY <1>1, <2>1
  <1>6. ASSUME NEW m \in 1 .. n - 1, m \in T PROVE m + 1 \in T
    <2>1. m + 1 \in 1 .. n /\ (m + 1) - 1 = m /\ c[m] \in Nat /\ c[m + 1] \in Nat
      OBVIOUS
    <2>2. ASSUME NEW p \in 1 .. c[m + 1]
          PROVE  \E i \in 1 .. m + 1 : p \in c[i - 1] + 1 .. c[i]
      <3>1. CASE p \in 1 .. c[m]
        <4>1. PICK i \in 1 .. m : p \in c[i - 1] + 1 .. c[i]
          BY <1>6, <3>1
        <4>2. i \in 1 .. m + 1
          OBVIOUS
        <4> QED BY <4>1, <4>2
      <3>2. CASE p \notin 1 .. c[m]
        <4>1. p \in c[(m + 1) - 1] + 1 .. c[m + 1]
          BY <2>1, <3>2
        <4>2. m + 1 \in 1 .. m + 1
          OBVIOUS
        <4> QED BY <4>1, <4>2
      <3> QED BY <3>1, <3>2
    <2> QED BY <2>1, <2>2
  <1>7. 1 .. n \subseteq T
    <2> HIDE DEF T
    <2> QED BY <1>5, <1>6, UpTo
  <1>8. \A p \in 1 .. c[n] : \E i \in 1 .. n : p \in c[i - 1] + 1 .. c[i]
    <2>1. n \in T
      BY <1>7
    <2> QED BY <2>1
  <1>9. \A j \in 1 .. n : \A i \in 0 .. j - 1 : c[i] < c[j]
    BY <1>4
  <1> QED BY <1>8, <1>9

(* Where n sequences lie in the one that FlattenSeq makes of them: number i *)
(* ends at c[i].                                                           *)
Placed(seqs, n, flat, c) ==
  /\ c \in [0 .. n -> Nat] /\ c[0] = 0 /\ c[n] = Len(flat)
  /\ \A i \in 1 .. n : c[i] = c[i - 1] + Len(seqs[i])
  /\ \A i \in 1 .. n : \A x \in 1 .. Len(seqs[i]) : flat[c[i - 1] + x] = seqs[i][x]

LEMMA FlatPlaces ==
  ASSUME NEW seqs \in Seq(Seq(Byte)), NEW n \in Nat \ {0}, Len(seqs) = n,
         NEW F, Flattened(seqs, n, F)
  PROVE  \E c : Placed(seqs, n, F[n], c)
  <1> DEFINE e == [i \in 0 .. n |-> IF i = 0 THEN 0 ELSE Len(F[i])]
             At(m, i, x) == e[i - 1] + x \in 1 .. e[m] /\ F[m][e[i - 1] + x] = seqs[i][x]
             S == {m \in 1 .. n : \A i \in 1 .. m : \A x \in 1 .. Len(seqs[i]) : At(m, i, x)}
  <1>1. n \in Nat \ {0} /\ \A i \in 1 .. n : seqs[i] \in Seq(Byte) /\ Len(seqs[i]) \in Nat
    OBVIOUS
  <1>2. /\ F[1] = seqs[1]
        /\ \A i \in 1 .. n : F[i] \in Seq(Byte) /\ Len(F[i]) \in Nat
        /\ \A i \in 1 .. n - 1 : F[i + 1] = F[i] \o seqs[i + 1]
    <2>1. /\ F \in [1 .. n -> Seq(Byte)] /\ F[1] = seqs[1]
          /\ \A i \in 1 .. n - 1 : F[i + 1] = F[i] \o seqs[i + 1]
      BY DEF Flattened
    <2>2. ASSUME NEW i \in 1 .. n PROVE F[i] \in Seq(Byte) /\ Len(F[i]) \in Nat
      <3>1. F[i] \in Seq(Byte)
        BY <2>1
      <3> QED BY <3>1
    <2> QED BY <2>1, <2>2
  <1>3. /\ e \in [0 .. n -> Nat] /\ e[0] = 0
        /\ \A i \in 1 .. n : e[i] = Len(F[i])
    BY <1>1, <1>2
  <1> HIDE DEF e
  <1>4. ASSUME NEW m \in 1 .. n - 1 PROVE e[m + 1] = e[m] + Len(seqs[m + 1])
    <2>1. m \in 1 .. n /\ m + 1 \in 1 .. n
      BY <1>1
    <2>2. Len(F[m] \o seqs[m + 1]) = Len(F[m]) + Len(seqs[m + 1])
      BY <1>1, <1>2, <2>1, ConcatProperties
    <2> QED BY <1>2, <1>3, <2>1, <2>2
  <1>5. ASSUME NEW i \in 1 .. n PROVE e[i] = e[i - 1] + Len(seqs[i])
    <2>1. CASE i = 1
      <3>1. i - 1 = 0
        BY <2>1
      <3> QED BY <1>1, <1>2, <1>3, <2>1, <3>1
    <2>2. CASE i # 1
      <3>1. i - 1 \in 1 .. n - 1 /\ (i - 1) + 1 = i
        BY <1>1, <2>2
      <3>2. e[(i - 1) + 1] = e[i - 1] + Len(seqs[(i - 1) + 1])
        BY <1>4, <3>1
      <3> QED BY <3>1, <3>2
    <2> QED BY <2>1, <2>2
  <1>6. 1 \in S
    <2>1. 1 \in 1 .. n
      BY <1>1
    <2>2. ASSUME NEW i \in 1 .. 1, NEW x \in 1 .. Len(seqs[i]) PROVE At(1, i, x)
      <3>1. i = 1 /\ i - 1 = 0 /\ e[1] = Len(seqs[1]) /\ Len(seqs[1]) \in Nat
        BY <1>1, <1>2, <1>3, <2>1
      <3>2. x \in 1 .. Len(seqs[1]) /\ e[i - 1] + x = x
        BY <1>3, <3>1
      <3> QED BY <1>2, <3>1, <3>2
    <2> QED BY <2>1, <2>2
  <1>7. ASSUME NEW m \in 1 .. n - 1, m \in S PROVE m + 1 \in S
    <2>1. m \in 1 .. n /\ m + 1 \in 1 .. n /\ m \in 0 .. n /\ (m + 1) - 1 = m
      BY <1>1
    <2> DEFINE t == seqs[m + 1]
    <2>2. /\ F[m] \in Seq(Byte) /\ t \in Seq(Byte) /\ F[m + 1] = F[m] \o t
          /\ e[m] = Len(F[m]) /\ e[m] \in Nat /\ Len(t) \in Nat
          /\ e[m + 1] = e[m] + Len(t)
      BY <1>1, <1>2, <1>3, <1>4, <2>1
    <2> HIDE DEF t
    <2>3. \A k \in 1 .. e[m] + Len(t) : F[m + 1][k] = IF k <= e[m] THEN F[m][k] ELSE t[k - e[m]]
      BY <2>2, ConcatProperties
    <2>4. ASSUME NEW i \in 1 .. m + 1, NEW x \in 1 .. Len(seqs[i]) PROVE At(m + 1, i, x)
      <3> DEFINE k == e[i - 1] + x
      <3>1. CASE i = m + 1
        <4>1. i - 1 = m /\ x \in 1 .. Len(t)
          BY <2>1, <3>1 DEF t
        <4>2. k \in 1 .. e[m] + Len(t) /\ ~(k <= e[m]) /\ k - e[m] = x
          BY <2>2, <4>1
        <4>3. F[m + 1][k] = t[x]
          BY <2>3, <4>2
        <4> QED BY <2>2, <3>1, <4>2, <4>3 DEF t
      <3>2. CASE i \in 1 .. m
        <4>1. k \in 1 .. e[m] /\ F[m][k] = seqs[i][x]
          BY <1>7, <3>2
        <4>2. k \in 1 .. e[m] + Len(t) /\ k <= e[m]
          BY <2>2, <4>1
        <4> HIDE DEF k
        <4>3. F[m + 1][k] = seqs[i][x]
          BY <2>3, <4>1, <4>2
        <4> QED BY <2>2, <4>2, <4>3 DEF k
      <3> QED BY <2>1, <3>1, <3>2
    <2> HIDE DEF At
    <2> QED BY <2>1, <2>4
  <1>8. n \in S
    <2> HIDE DEF S
    <2>1. 1 .. n \subseteq S
      BY <1>1, <1>6, <1>7, UpTo
    <2> QED BY <1>1, <2>1
  <1>9. \A i \in 1 .. n : \A x \in 1 .. Len(seqs[i]) : F[n][e[i - 1] + x] = seqs[i][x]
    BY <1>8
  <1>10. e[n] = Len(F[n])
    BY <1>1, <1>3
  <1>11. Placed(seqs, n, F[n], e)
    BY <1>3, <1>5, <1>9, <1>10 DEF Placed
  <1> QED BY <1>11

(* The fields of a message in the line s, each but the last followed by a   *)
(* separator: field i from c[i - 1] + 1 to c[i] - 1.                        *)
Spells(s, fields, c) ==
  LET n == Len(fields)
  IN /\ c \in [0 .. n -> Nat] /\ c[0] = 0
     /\ \A i \in 1 .. n : c[i] = c[i - 1] + Len(fields[i]) + 1
     /\ s \in Seq(Byte) /\ Len(s) = c[n] - 1
     /\ \A i \in 1 .. n : \A x \in 1 .. Len(fields[i]) : s[c[i - 1] + x] = fields[i][x]
     /\ \A i \in 1 .. n - 1 : s[c[i]] = Sep

LEMMA JoinedSpells ==
  ASSUME NEW fields \in Seq(Seq(Byte)), Len(fields) # 0
  PROVE  \E c : Spells(Joined(fields), fields, c)
  <1> DEFINE n == Len(fields)
             seqs == [i \in DOMAIN fields |-> <<Sep>> \o fields[i]]
             s == Joined(fields)
  <1>1. n \in Nat \ {0} /\ \A i \in 1 .. n : fields[i] \in Seq(Byte) /\ Len(fields[i]) \in Nat
    OBVIOUS
  <1>2. seqs = [i \in 1 .. n |-> seqs[i]] /\ \A i \in 1 .. n : seqs[i] = <<Sep>> \o fields[i]
    OBVIOUS
  <1>3. ASSUME NEW i \in 1 .. n
        PROVE  /\ seqs[i] \in Seq(Byte) /\ Len(seqs[i]) = Len(fields[i]) + 1
               /\ seqs[i][1] = Sep
               /\ \A x \in 1 .. Len(fields[i]) : seqs[i][x + 1] = fields[i][x]
    <2> DEFINE f == fields[i]
    <2>1. f \in Seq(Byte) /\ Len(f) \in Nat /\ seqs[i] = <<Sep>> \o f
      BY <1>1, <1>2
    <2>2. <<Sep>> \in Seq(Byte) /\ Len(<<Sep>>) = 1 /\ <<Sep>>[1] = Sep
      <3>1. Sep \in Byte
        BY DEF Byte, Sep
      <3> QED BY <3>1
    <2> HIDE DEF f
    <2>3. /\ <<Sep>> \o f \in Seq(Byte) /\ Len(<<Sep>> \o f) = 1 + Len(f)
          /\ \A x \in 1 .. 1 + Len(f) : (<<Sep>> \o f)[x] = IF x <= 1 THEN <<Sep>>[x] ELSE f[x - 1]
      BY <2>1, <2>2, ConcatProperties
    <2>4. ASSUME NEW x \in 1 .. Len(f) PROVE seqs[i][x + 1] = f[x]
      <3>1. x + 1 \in 1 .. 1 + Len(f) /\ ~(x + 1 <= 1) /\ (x + 1) - 1 = x
        BY <2>1
      <3> QED BY <2>1, <2>3, <3>1
    <2>5. seqs[i][1] = Sep
      BY <2>1, <2>2, <2>3
    <2> QED BY <2>1, <2>3, <2>4, <2>5 DEF f
  <1>4. seqs \in Seq(Seq(Byte)) /\ Len(seqs) = n
    <2>1. seqs = [i \in 1 .. n |-> seqs[i]] /\ \A i \in 1 .. n : seqs[i] \in Seq(Byte)
      BY <1>2, <1>3
    <2> HIDE DEF seqs, n
    <2>2. [i \in 1 .. n |-> seqs[i]] \in Seq(Seq(Byte)) /\ Len([i \in 1 .. n |-> seqs[i]]) = n
      BY <1>1, <2>1
    <2> QED BY <2>1, <2>2
  <1> HIDE DEF n, seqs
  <1>5. PICK F : Flattened(seqs, n, F) /\ FlattenSeq(seqs) = F[n]
    BY <1>1, <1>4, FlattenDefined
  <1>6. PICK c : Placed(seqs, n, F[n], c)
    BY <1>1, <1>4, <1>5, FlatPlaces
  <1>7. s = Tail(F[n])
    BY <1>5 DEF Joined, seqs
  <1> HIDE DEF s
  <1>8. F[n] \in Seq(Byte) /\ Len(F[n]) \in Nat
    <2>1. F[n] \in Seq(Byte)
      BY <1>1, <1>5 DEF Flattened
    <2> QED BY <2>1
  <1>9. ASSUME NEW i \in 1 .. n
        PROVE  /\ c[i] = c[i - 1] + Len(fields[i]) + 1
               /\ c[i] \in Nat /\ c[i - 1] \in Nat /\ Len(fields[i]) \in Nat
               /\ c[i - 1] < c[i]
    <2>1. i \in 0 .. n /\ i - 1 \in 0 .. n
      BY <1>1
    <2>2. c[i] \in Nat /\ c[i - 1] \in Nat /\ Len(fields[i]) \in Nat
      BY <1>1, <1>6, <2>1 DEF Placed
    <2>3. c[i] = c[i - 1] + Len(seqs[i]) /\ Len(seqs[i]) = Len(fields[i]) + 1
      BY <1>3, <1>6 DEF Placed
    <2> DEFINE a == c[i - 1]    b == c[i]    l == Len(fields[i])
    <2>4. a \in Nat /\ b \in Nat /\ l \in Nat /\ b = a + l + 1
      BY <2>2, <2>3
    <2> HIDE DEF a, b, l
    <2>5. a < b
      BY <2>4
    <2> QED BY <2>4, <2>5 DEF a, b, l
  <1>10. Len(F[n]) >= 1 /\ F[n] # <<>>
    <2>1. n \in 1 .. n
      BY <1>1
    <2>2. Len(F[n]) >= 1
      <3>1. c[n] = c[n - 1] + Len(fields[n]) + 1
        BY <1>9, <2>1
      <3>2. c[n] \in Nat /\ c[n - 1] \in Nat /\ Len(fields[n]) \in Nat
        BY <1>9, <2>1
      <3>3. c[n] = Len(F[n])
        BY <1>6 DEF Placed
      <3>4. c[n] >= 1
        BY <3>1, <3>2
      <3> QED BY <3>3, <3>4
    <2> QED BY <2>2
  <1>11. /\ s \in Seq(Byte) /\ Len(s) = c[n] - 1
         /\ \A p \in 1 .. c[n] - 1 : s[p] = F[n][p + 1]
    <2> DEFINE w == F[n]
    <2>1. w \in Seq(Byte) /\ w # <<>> /\ s = Tail(w) /\ c[n] = Len(w)
      BY <1>6, <1>7, <1>8, <1>10 DEF Placed
    <2> HIDE DEF w
    <2>2. s \in Seq(Byte) /\ Len(s) = Len(w) - 1 /\ \A p \in 1 .. Len(w) - 1 : s[p] = w[p + 1]
      BY <2>1
    <2> QED BY <2>1, <2>2 DEF w
  <1>12. \A i \in 0 .. n : c[i] <= c[n]
    <2>1. ASSUME NEW i \in 1 .. n PROVE c[i - 1] < c[i]
      BY <1>9
    <2>2. c \in [0 .. n -> Nat] /\ c[0] = 0 /\ n \in 1 .. n
      BY <1>1, <1>6 DEF Placed
    <2>3. \A i \in 0 .. n - 1 : c[i] < c[n]
      BY <1>1, <2>1, <2>2, Increasing
    <2>4. ASSUME NEW i \in 0 .. n PROVE c[i] <= c[n]
      <3>1. (i \in 0 .. n - 1 \/ i = n) /\ c[i] \in Nat /\ c[n] \in Nat
        BY <1>1, <2>2
      <3> QED BY <2>3, <3>1
    <2> QED BY <2>4
  <1>13. ASSUME NEW i \in 1 .. n, NEW x \in 1 .. Len(fields[i])
         PROVE  s[c[i - 1] + x] = fields[i][x]
    <2>1. /\ c[i - 1] \in Nat /\ c[i] \in Nat /\ c[i] <= c[n] /\ c[n] \in Nat
          /\ c[i] = c[i - 1] + Len(fields[i]) + 1 /\ Len(fields[i]) \in Nat
      <3>1. i \in 0 .. n /\ n \in 1 .. n
        BY <1>1
      <3> QED BY <1>1, <1>9, <1>12, <3>1
    <2>2. c[i - 1] + x \in 1 .. c[n] - 1 /\ (c[i - 1] + x) + 1 = c[i - 1] + (x + 1)
      <3> DEFINE a == c[i - 1]    l == Len(fields[i])    b == c[i]    t == c[n]
      <3>1. a \in Nat /\ l \in Nat /\ b = a + l + 1 /\ b <= t /\ t \in Nat /\ x \in 1 .. l
        BY <2>1
      <3> HIDE DEF a, l, b, t
      <3>2. a + x \in 1 .. t - 1 /\ (a + x) + 1 = a + (x + 1)
        BY <3>1
      <3> QED BY <3>2 DEF a, t
    <2>3. x + 1 \in 1 .. Len(seqs[i])
      BY <1>3, <2>1
    <2>4. s[c[i - 1] + x] = F[n][c[i - 1] + (x + 1)]
      BY <1>11, <2>2
    <2> QED BY <1>3, <1>6, <2>3, <2>4 DEF Placed
  <1>14. ASSUME NEW i \in 1 .. n - 1 PROVE s[c[i]] = Sep
    <2>1. i + 1 \in 1 .. n /\ i + 1 \in 0 .. n /\ i \in 1 .. n /\ n \in 1 .. n /\ (i + 1) - 1 = i
      BY <1>1
    <2>2. /\ c[i] \in Nat /\ c[i - 1] \in Nat /\ c[i + 1] \in Nat /\ c[n] \in Nat
          /\ c[i + 1] <= c[n]
          /\ c[i + 1] = c[i] + Len(fields[i + 1]) + 1 /\ Len(fields[i + 1]) \in Nat
          /\ c[i] = c[i - 1] + Len(fields[i]) + 1 /\ Len(fields[i]) \in Nat
      <3>1. /\ c[i] = c[i - 1] + Len(fields[i]) + 1 /\ c[i] \in Nat /\ c[i - 1] \in Nat
            /\ Len(fields[i]) \in Nat
        BY <1>9, <2>1
      <3>2. /\ c[i + 1] = c[(i + 1) - 1] + Len(fields[i + 1]) + 1 /\ c[i + 1] \in Nat
            /\ Len(fields[i + 1]) \in Nat
        BY <1>9, <2>1
      <3>3. c[n] \in Nat /\ c[i + 1] <= c[n]
        BY <1>9, <1>12, <2>1
      <3> QED BY <2>1, <3>1, <3>2, <3>3
    <2> DEFINE a == c[i - 1]    b == c[i]    d == c[i + 1]    t == c[n]
               l == Len(fields[i])    m == Len(fields[i + 1])
    <2>3. c[i] \in 1 .. c[n] - 1
      <3>1. /\ a \in Nat /\ b \in Nat /\ d \in Nat /\ t \in Nat /\ l \in Nat /\ m \in Nat
            /\ d <= t /\ d = b + m + 1 /\ b = a + l + 1
        BY <2>2
      <3> HIDE DEF a, b, d, t, l, m
      <3>2. b \in 1 .. t - 1
        BY <3>1
      <3> QED BY <3>2 DEF b, t
    <2>4. 1 \in 1 .. Len(seqs[i + 1])
      <3>1. Len(seqs[i + 1]) = m + 1 /\ m \in Nat
        BY <1>3, <2>1, <2>2
      <3> HIDE DEF m
      <3> QED BY <3>1
    <2>5. F[n][c[i] + 1] = seqs[i + 1][1]
      BY <1>6, <2>1, <2>4 DEF Placed
    <2> QED BY <1>3, <1>11, <2>1, <2>3, <2>5
  <1> QED BY <1>6, <1>9, <1>11, <1>13, <1>14 DEF Spells, n, s, Placed

Separable(fields) ==
  \A i \in 1 .. Len(fields) :
    Len(fields[i]) # 0 /\ \A x \in 1 .. Len(fields[i]) : fields[i][x] # Sep

(* Field i in the line: its bytes, the separators around it. *)
FieldAt(s, fields, c, i) ==
  /\ c[i - 1] \in Nat /\ c[i] \in Nat /\ Len(fields[i]) \in Nat \ {0}
  /\ Len(s) \in Nat
  /\ c[i] = c[i - 1] + Len(fields[i]) + 1 /\ c[i] <= Len(s) + 1
  /\ \A x \in 1 .. Len(fields[i]) : s[c[i - 1] + x] = fields[i][x]
  /\ \A p \in c[i - 1] + 1 .. c[i] - 1 : s[p] # Sep
  /\ c[i] <= Len(s) => s[c[i]] = Sep
  /\ c[i - 1] # 0 => s[c[i - 1]] = Sep

LEMMA FieldPlace ==
  ASSUME NEW s, NEW fields \in Seq(Seq(Byte)), Len(fields) # 0, NEW c, Spells(s, fields, c),
         Separable(fields),
         NEW i \in 1 .. Len(fields)
  PROVE  FieldAt(s, fields, c, i)
  <1> DEFINE n == Len(fields)    f == fields[i]    l == Len(f)
             a == c[i - 1]       b == c[i]
  <1>1. n \in Nat \ {0} /\ f \in Seq(Byte) /\ l \in Nat /\ l # 0
    BY DEF Separable
  <1>2. /\ c \in [0 .. n -> Nat] /\ c[0] = 0
        /\ \A j \in 1 .. n : c[j] = c[j - 1] + Len(fields[j]) + 1
        /\ s \in Seq(Byte) /\ Len(s) = c[n] - 1 /\ Len(s) \in Nat
        /\ \A x \in 1 .. l : s[a + x] = f[x]
        /\ \A j \in 1 .. n - 1 : s[c[j]] = Sep
    BY DEF Spells
  <1>3. \A x \in 1 .. l : f[x] # Sep
    BY DEF Separable
  <1> HIDE DEF n
  <1>4. /\ i \in 0 .. n /\ i - 1 \in 0 .. n /\ i \in 1 .. n /\ n \in 1 .. n
        /\ a \in Nat /\ b \in Nat /\ b = a + l + 1 /\ c[n] \in Nat
    <2>1. i \in 0 .. n /\ i - 1 \in 0 .. n /\ i \in 1 .. n /\ n \in 1 .. n /\ n \in 0 .. n
      BY <1>1 DEF n
    <2> QED BY <1>2, <2>1
  <1>5. b <= c[n]
    <2>1. ASSUME NEW j \in 1 .. n PROVE c[j - 1] < c[j]
      <3> DEFINE u == c[j - 1]    v == c[j]    m == Len(fields[j])
      <3>1. j \in 0 .. n /\ j - 1 \in 0 .. n
        BY <1>1
      <3>2. u \in Nat /\ v \in Nat /\ v = u + m + 1
        BY <1>2, <3>1
      <3>3. m \in Nat
        BY DEF n
      <3> HIDE DEF u, v, m
      <3>4. u < v
        BY <3>2, <3>3
      <3> QED BY <3>4 DEF u, v
    <2>2. \A j \in 0 .. n - 1 : c[j] < c[n]
      BY <1>1, <1>2, <1>4, <2>1, Increasing
    <2>3. i = n \/ i \in 0 .. n - 1
      BY <1>1, <1>4
    <2> QED BY <1>4, <2>2, <2>3
  <1>6. b <= Len(s) + 1
    BY <1>2, <1>4, <1>5
  <1>7. ASSUME NEW p \in a + 1 .. b - 1 PROVE s[p] # Sep
    <2> HIDE DEF f, l, a, b
    <2>1. p - a \in 1 .. l /\ a + (p - a) = p
      BY <1>1, <1>4
    <2>2. s[a + (p - a)] = f[p - a]
      BY <1>2, <2>1
    <2> QED BY <1>3, <2>1, <2>2
  <1>8. ASSUME b <= Len(s) PROVE s[b] = Sep
    <2>1. b # c[n]
      BY <1>2, <1>4, <1>8
    <2>2. i \in 1 .. n - 1
      BY <1>1, <1>4, <2>1
    <2> QED BY <1>2, <2>2
  <1>9. ASSUME a # 0 PROVE s[a] = Sep
    <2>1. i - 1 \in 1 .. n - 1
      BY <1>1, <1>2, <1>4, <1>9
    <2> QED BY <1>2, <2>1
  <1> HIDE DEF f, l, a, b
  <1> QED BY <1>1, <1>2, <1>4, <1>6, <1>7, <1>8, <1>9 DEF FieldAt, f, l, a, b

(* The tokens of the line begin where the fields do, ... *)
LEMMA StartsSpelled ==
  ASSUME NEW s, NEW fields \in Seq(Seq(Byte)), Len(fields) # 0, NEW c, Spells(s, fields, c),
         Separable(fields)
  PROVE  /\ TokenStarts(s) = {c[i - 1] + 1 : i \in 1 .. Len(fields)}
         /\ \A j \in 1 .. Len(fields) : \A i \in 0 .. j - 1 : c[i] < c[j]
  <1> DEFINE n == Len(fields)
             starts == {c[i - 1] + 1 : i \in 1 .. n}
  <1>1. n \in Nat \ {0}
    OBVIOUS
  <1>2. /\ c \in [0 .. n -> Nat] /\ c[0] = 0 /\ c[n] \in Nat
        /\ s \in Seq(Byte) /\ DOMAIN s = 1 .. Len(s) /\ Len(s) = c[n] - 1 /\ Len(s) \in Nat
    <2>1. c \in [0 .. n -> Nat] /\ c[0] = 0 /\ s \in Seq(Byte) /\ Len(s) = c[n] - 1
      BY DEF Spells
    <2>2. n \in 0 .. n
      BY <1>1
    <2>3. c[n] \in Nat
      BY <2>1, <2>2
    <2>4. DOMAIN s = 1 .. Len(s) /\ Len(s) \in Nat
      BY <2>1
    <2> QED BY <2>1, <2>3, <2>4
  <1>3. ASSUME NEW i \in 1 .. n
        PROVE  /\ c[i - 1] \in Nat /\ c[i] \in Nat
               /\ c[i - 1] + 1 < c[i] /\ c[i] <= Len(s) + 1
               /\ \A p \in c[i - 1] + 1 .. c[i] - 1 : s[p] # Sep
               /\ c[i] <= Len(s) => s[c[i]] = Sep
               /\ c[i - 1] # 0 => s[c[i - 1]] = Sep
    <2> DEFINE a == c[i - 1]    b == c[i]    l == Len(fields[i])
    <2>1. /\ a \in Nat /\ b \in Nat /\ l \in Nat \ {0} /\ b = a + l + 1 /\ b <= Len(s) + 1
          /\ \A p \in a + 1 .. b - 1 : s[p] # Sep
          /\ b <= Len(s) => s[b] = Sep
          /\ a # 0 => s[a] = Sep
      <3>1. FieldAt(s, fields, c, i)
        BY FieldPlace DEF n
      <3> QED BY <3>1 DEF FieldAt
    <2> HIDE DEF a, b, l
    <2>2. a + 1 < b
      BY <2>1
    <2> QED BY <2>1, <2>2 DEF a, b
  <1> HIDE DEF n
  <1>4. /\ \A j \in 1 .. n : \A i \in 0 .. j - 1 : c[i] < c[j]
        /\ \A p \in 1 .. c[n] : \E i \in 1 .. n : p \in c[i - 1] + 1 .. c[i]
    <2>1. \A i \in 1 .. n : c[i - 1] < c[i]
      BY <1>3
    <2> QED BY <1>1, <1>2, <2>1, Increasing
  <1>5. ASSUME NEW p \in TokenStarts(s) PROVE p \in starts
    <2>1. p \in 1 .. Len(s) /\ s[p] # Sep /\ (p > 1 => s[p - 1] = Sep)
      BY <1>2 DEF TokenStarts
    <2>2. PICK i \in 1 .. n : p \in c[i - 1] + 1 .. c[i]
      <3>1. p \in 1 .. c[n]
        BY <1>2, <2>1
      <3> QED BY <1>4, <3>1
    <2> DEFINE a == c[i - 1]    b == c[i]
    <2>3. /\ a \in Nat /\ b \in Nat /\ a + 1 < b /\ b <= Len(s) + 1
          /\ \A q \in a + 1 .. b - 1 : s[q] # Sep
          /\ b <= Len(s) => s[b] = Sep
          /\ p \in a + 1 .. b
      BY <1>3, <2>2
    <2> HIDE DEF a, b
    <2>4. p # b
      BY <1>2, <2>1, <2>3
    <2>5. p = a + 1
      <3> SUFFICES ASSUME p # a + 1 PROVE FALSE
        OBVIOUS
      <3>1. p - 1 \in a + 1 .. b - 1 /\ p > 1
        BY <2>3, <2>4
      <3> QED BY <2>1, <2>3, <3>1
    <2> QED BY <2>5 DEF a
  <1>6. ASSUME NEW i \in 1 .. n PROVE c[i - 1] + 1 \in TokenStarts(s)
    <2> DEFINE a == c[i - 1]    b == c[i]
    <2>1. /\ a \in Nat /\ b \in Nat /\ a + 1 < b /\ b <= Len(s) + 1
          /\ \A q \in a + 1 .. b - 1 : s[q] # Sep
          /\ a # 0 => s[a] = Sep
      BY <1>3
    <2> HIDE DEF a, b
    <2>2. a + 1 \in 1 .. Len(s) /\ a + 1 \in a + 1 .. b - 1 /\ (a + 1) - 1 = a
      BY <1>2, <2>1
    <2>3. s[a + 1] # Sep /\ (a + 1 > 1 => s[(a + 1) - 1] = Sep)
      BY <2>1, <2>2
    <2>4. a + 1 \in TokenStarts(s)
      BY <1>2, <2>2, <2>3 DEF TokenStarts
    <2> QED BY <2>4 DEF a
  <1>7. TokenStarts(s) = starts
    BY <1>5, <1>6
  <1> QED BY <1>4, <1>7 DEF n

(* ... end where they end, ... *)
LEMMA TokenSpelled ==
  ASSUME NEW s, NEW fields \in Seq(Seq(Byte)), Len(fields) # 0, NEW c, Spells(s, fields, c),
         Separable(fields),
         NEW i \in 1 .. Len(fields)
  PROVE  SubSeq(s, c[i - 1] + 1, TokenEnd(s, c[i - 1] + 1)) = fields[i]
  <1> DEFINE f == fields[i]    l == Len(f)    a == c[i - 1]    b == c[i]
             End(j) == /\ \A k \in a + 1 .. j : s[k] # Sep
                       /\ j < Len(s) => s[j + 1] = Sep
  <1>1. /\ a \in Nat /\ b \in Nat /\ l \in Nat \ {0} /\ b = a + l + 1
        /\ Len(s) \in Nat /\ b <= Len(s) + 1
        /\ \A x \in 1 .. l : s[a + x] = f[x]
        /\ \A p \in a + 1 .. b - 1 : s[p] # Sep
        /\ b <= Len(s) => s[b] = Sep
    <2>1. FieldAt(s, fields, c, i)
      BY FieldPlace
    <2> QED BY <2>1 DEF FieldAt
  <1>2. s \in Seq(Byte) /\ f \in Seq(Byte)
    BY DEF Spells
  <1> HIDE DEF f, l, a, b
  <1>3. b - 1 \in a + 1 .. Len(s) /\ End(b - 1)
    BY <1>1
  <1>4. ASSUME NEW j \in a + 1 .. Len(s), End(j) PROVE j = b - 1
    <2>1. CASE j < b - 1
      <3>1. j + 1 \in a + 1 .. b - 1 /\ j < Len(s)
        BY <1>1, <2>1
      <3> QED BY <1>1, <1>4, <3>1
    <2>2. CASE b - 1 < j
      <3>1. b \in a + 1 .. j /\ b <= Len(s)
        BY <1>1, <2>2
      <3> QED BY <1>1, <1>4, <3>1
    <2> QED BY <1>1, <2>1, <2>2
  <1>5. TokenEnd(s, a + 1) = b - 1
    <2>1. TokenEnd(s, a + 1) = CHOOSE j \in a + 1 .. Len(s) : End(j)
      BY DEF TokenEnd
    <2> HIDE DEF End
    <2> QED BY <1>3, <1>4, <2>1
  <1>6. SubSeq(s, a + 1, b - 1) = f
    <2> DEFINE w == SubSeq(s, a + 1, b - 1)
    <2>1. w \in Seq(Byte) /\ Len(w) = l /\ \A x \in 1 .. l : w[x] = s[a + x]
      <3>1. PICK u, v : u = a + 1 /\ v = b - 1
        OBVIOUS
      <3>2. /\ w = SubSeq(s, u, v) /\ u \in 1 .. v /\ v \in 1 .. Len(s) /\ (v - u) + 1 = l
        BY <1>1, <3>1
      <3> HIDE DEF w
      <3>3. /\ w \in Seq(Byte) /\ Len(w) = (v - u) + 1
            /\ \A x \in 1 .. (v - u) + 1 : w[x] = s[u + (x - 1)]
        <4>1. u \in Nat \ {0} /\ v \in Nat /\ u <= v /\ v <= Len(s)
          BY <1>1, <3>2
        <4> QED BY <1>2, <3>2, <4>1
      <3>4. ASSUME NEW x \in 1 .. l PROVE w[x] = s[a + x]
        <4>1. u + (x - 1) = a + x
          BY <1>1, <3>1
        <4> QED BY <3>2, <3>3, <4>1
      <3> QED BY <3>2, <3>3, <3>4
    <2> HIDE DEF w
    <2>2. Len(f) = l /\ \A x \in 1 .. l : w[x] = f[x]
      BY <1>1, <2>1 DEF l
    <2>3. w = f
      BY <1>2, <2>1, <2>2, SeqEqual
    <2> QED BY <2>3 DEF w
  <1> QED BY <1>5, <1>6 DEF a, f

(* ... and come in their order. *)
LEMMA InOrder ==
  ASSUME NEW n \in Nat, NEW q \in [1 .. n -> Nat],
         \A j \in 1 .. n : \A i \in 1 .. j - 1 : q[i] < q[j]
  PROVE  LET S == {q[i] : i \in 1 .. n}
         IN Cardinality(S) = n /\ \A k \in 1 .. n : Nth(S, k) = q[k]
  <1> DEFINE S == {q[i] : i \in 1 .. n}
             Below(p) == {j \in S : j < p}
  <1>1. ASSUME NEW m \in 0 .. n PROVE Cardinality({q[i] : i \in 1 .. m}) = m
    <2> DEFINE T == {q[i] : i \in 1 .. m}
               f == [i \in 1 .. m |-> q[i]]
    <2>1. f \in [1 .. m -> T]
      OBVIOUS
    <2>2. ASSUME NEW i \in 1 .. m, NEW j \in 1 .. m, f[i] = f[j] PROVE i = j
      <3>1. /\ i \in 1 .. n /\ j \in 1 .. n /\ q[i] = q[j] /\ q[i] \in Nat /\ q[j] \in Nat
        BY <2>2
      <3>2. ~(i < j)
        <4> SUFFICES ASSUME i < j PROVE FALSE
          OBVIOUS
        <4>1. i \in 1 .. j - 1
          BY <3>1
        <4>2. q[i] < q[j]
          BY <3>1, <4>1
        <4> QED BY <3>1, <4>2
      <3>3. ~(j < i)
        <4> SUFFICES ASSUME j < i PROVE FALSE
          OBVIOUS
        <4>1. j \in 1 .. i - 1
          BY <3>1
        <4>2. q[j] < q[i]
          BY <3>1, <4>1
        <4> QED BY <3>1, <4>2
      <3> QED BY <3>1, <3>2, <3>3
    <2>3. \A t \in T : \E i \in 1 .. m : f[i] = t
      OBVIOUS
    <2> HIDE DEF T, f
    <2>4. f \in Bijection(1 .. m, T)
      BY <2>1, <2>2, <2>3 DEF Bijection, Injection, Surjection, IsInjective
    <2>5. ExistsBijection(1 .. m, T) /\ m \in Nat
      BY <2>4 DEF ExistsBijection
    <2>6. Cardinality(T) = m
      BY <2>5, FS_CountingElements
    <2> QED BY <2>6 DEF T
  <1>2. Cardinality(S) = n
    BY <1>1
  <1>3. ASSUME NEW k \in 1 .. n PROVE Cardinality(Below(q[k])) = k - 1
    <2> DEFINE T == {q[i] : i \in 1 .. k - 1}
    <2>1. k - 1 \in 0 .. n /\ q[k] \in Nat
      OBVIOUS
    <2>2. ASSUME NEW i \in 1 .. k - 1 PROVE q[i] \in Below(q[k])
      <3>1. i \in 1 .. n /\ q[i] < q[k]
        OBVIOUS
      <3> QED BY <3>1
    <2>3. ASSUME NEW j \in Below(q[k]) PROVE j \in T
      <3>1. PICK i \in 1 .. n : j = q[i] /\ q[i] < q[k]
        BY <2>3
      <3>2. i \in 1 .. k - 1
        <4> SUFFICES ASSUME ~(i < k) PROVE FALSE
          OBVIOUS
        <4>1. i = k \/ k \in 1 .. i - 1
          OBVIOUS
        <4>2. k \in 1 .. i - 1 => q[k] < q[i]
          OBVIOUS
        <4>3. q[i] \in Nat
          OBVIOUS
        <4> QED BY <2>1, <3>1, <4>1, <4>2, <4>3
      <3> QED BY <3>1, <3>2
    <2>4. Below(q[k]) = T
      <3> HIDE DEF Below
      <3>1. T \subseteq Below(q[k])
        BY <2>2
      <3>2. Below(q[k]) \subseteq T
        BY <2>3
      <3> QED BY <3>1, <3>2
    <2>5. Cardinality(T) = k - 1
      BY <1>1, <2>1
    <2> QED BY <2>4, <2>5
  <1>4. ASSUME NEW k \in 1 .. n PROVE Nth(S, k) = q[k]
    <2>1. Nth(S, k) = CHOOSE p \in S : Cardinality(Below(p)) = k - 1
      BY DEF Nth
    <2>2. q[k] \in S /\ Cardinality(Below(q[k])) = k - 1
      BY <1>3
    <2>3. ASSUME NEW p \in S, Cardinality(Below(p)) = k - 1 PROVE p = q[k]
      <3>1. PICK i \in 1 .. n : p = q[i]
        OBVIOUS
      <3>2. Cardinality(Below(q[i])) = i - 1
        BY <1>3
      <3> HIDE DEF Below
      <3>3. i - 1 = k - 1
        BY <2>3, <3>1, <3>2
      <3>4. i = k
        BY <3>3
      <3> QED BY <3>1, <3>4
    <2> HIDE DEF S, Below
    <2> QED BY <2>1, <2>2, <2>3
  <1> QED BY <1>2, <1>4

LEMMA TokensSpelled ==
  ASSUME NEW s, NEW fields \in Seq(Seq(Byte)), Len(fields) # 0, NEW c, Spells(s, fields, c),
         Separable(fields)
  PROVE  Tokens(s) = fields
  <1> DEFINE n == Len(fields)
             q == [i \in 1 .. n |-> c[i - 1] + 1]
             starts == TokenStarts(s)
  <1>1. n \in Nat \ {0} /\ \A i \in 1 .. n : i - 1 \in 0 .. n /\ i \in 0 .. n
    OBVIOUS
  <1>2. \A i \in 0 .. n : c[i] \in Nat
    BY DEF Spells
  <1>3. /\ starts = {c[i - 1] + 1 : i \in 1 .. n}
        /\ \A j \in 1 .. n : \A i \in 0 .. j - 1 : c[i] < c[j]
    BY StartsSpelled
  <1>4. \A i \in 1 .. n : SubSeq(s, c[i - 1] + 1, TokenEnd(s, c[i - 1] + 1)) = fields[i]
    BY TokenSpelled
  <1>5. fields = [i \in 1 .. n |-> fields[i]]
    OBVIOUS
  <1> HIDE DEF n
  <1>6. q \in [1 .. n -> Nat] /\ \A i \in 1 .. n : q[i] = c[i - 1] + 1
    BY <1>1, <1>2
  <1> HIDE DEF q
  <1>7. starts = {q[i] : i \in 1 .. n}
    BY <1>3, <1>6
  <1>8. ASSUME NEW j \in 1 .. n, NEW i \in 1 .. j - 1 PROVE q[i] < q[j]
    <2>1. /\ i \in 1 .. n /\ i - 1 \in 0 .. (j - 1) - 1 /\ j - 1 \in 1 .. n
          /\ i - 1 \in 0 .. n /\ j - 1 \in 0 .. n
      BY <1>1
    <2>2. c[i - 1] < c[j - 1] /\ c[i - 1] \in Nat /\ c[j - 1] \in Nat
      BY <1>2, <1>3, <2>1
    <2>3. q[i] = c[i - 1] + 1 /\ q[j] = c[j - 1] + 1
      BY <1>6, <2>1
    <2> QED BY <2>2, <2>3
  <1>9. Cardinality(starts) = n /\ \A k \in 1 .. n : Nth(starts, k) = q[k]
    BY <1>1, <1>6, <1>7, <1>8, InOrder
  <1>10. Tokens(s) = [k \in 1 .. n |-> fields[k]]
    <2>1. Tokens(s) = [k \in 1 .. n |-> SubSeq(s, Nth(starts, k), TokenEnd(s, Nth(starts, k)))]
      BY <1>9 DEF Tokens
    <2>2. \A k \in 1 .. n : SubSeq(s, Nth(starts, k), TokenEnd(s, Nth(starts, k))) = fields[k]
      BY <1>4, <1>6, <1>9
    <2> HIDE DEF starts
    <2> QED BY <2>1, <2>2
  <1> QED BY <1>5, <1>10

(* What fits is not cut. *)
LEMMA Fits == ASSUME NEW S, NEW f \in Seq(S), NEW k \in Nat, Len(f) <= k PROVE FirstOf(f, k) = f
  <1>1. Len(f) \in Nat /\ ~(k < Len(f))
    OBVIOUS
  <1>2. FirstOf(f, k) = SubSeq(f, 1, Len(f))
    BY <1>1 DEF FirstOf
  <1> QED BY <1>2

(* A message whose line fits is what parse_message makes of that line.      *)
LEMMA ParsedLine ==
  ASSUME NEW m \in Seq(Seq(Byte)), Len(m) # 0, Proper(m)
  PROVE  Parsed(Line(m)) = m
  <1> DEFINE n == Len(m)    s == Joined(m)    line == s \o <<LF>>
  <1>1. /\ n \in Nat \ {0} /\ n <= MaxParams /\ DOMAIN m = 1 .. n
        /\ Len(s) < BufSize - 1
        /\ \A i \in 1 .. n : /\ m[i] \in Seq(Byte) /\ Len(m[i]) \in 1 .. MaxParamLen - 1
                             /\ DOMAIN m[i] = 1 .. Len(m[i])
                             /\ \A x \in 1 .. Len(m[i]) : m[i][x] \notin {LF, CR, Sep}
    <2>1. \A i \in 1 .. n : m[i] \in Seq(Byte) /\ DOMAIN m[i] = 1 .. Len(m[i])
      OBVIOUS
    <2>2. DOMAIN m = 1 .. n /\ n \in Nat \ {0}
      OBVIOUS
    <2> QED BY <2>1, <2>2 DEF Proper
  <1>2. Separable(m)
    BY <1>1 DEF Separable
  <1>3. PICK c : Spells(s, m, c)
    BY JoinedSpells
  <1>4. Tokens(s) = m
    BY <1>2, <1>3, TokensSpelled
  <1>5. s \in Seq(Byte) /\ Len(s) \in Nat \ {0} /\ s[Len(s)] \notin {LF, CR}
    <2> DEFINE l == Len(m[n])    a == c[n - 1]    b == c[n]
    <2>1. n \in 1 .. n
      BY <1>1
    <2>2. FieldAt(s, m, c, n)
      BY <1>2, <1>3, <2>1, FieldPlace
    <2>3. s \in Seq(Byte) /\ Len(s) = b - 1
      BY <1>3 DEF Spells
    <2>4. /\ a \in Nat /\ b \in Nat /\ l \in Nat \ {0} /\ b = a + l + 1
          /\ \A x \in 1 .. l : s[a + x] = m[n][x]
      BY <2>2 DEF FieldAt
    <2>5. m[n][l] \notin {LF, CR}
      <3>1. l \in 1 .. l
        BY <2>4
      <3> QED BY <1>1, <2>1, <3>1
    <2> HIDE DEF l, a, b, s, n
    <2>6. Len(s) = a + l /\ Len(s) \in Nat \ {0} /\ l \in 1 .. l
      BY <2>3, <2>4
    <2>7. s[Len(s)] = m[n][l]
      BY <2>4, <2>6
    <2> QED BY <2>3, <2>5, <2>6, <2>7
  <1> HIDE DEF s, n
  <1>6. /\ line \in Seq(Byte) /\ Len(line) = Len(s) + 1 /\ Len(line) \in Nat
        /\ line[Len(s) + 1] = LF /\ \A i \in 1 .. Len(s) : line[i] = s[i]
    <2>1. LF \in Byte
      BY DEF Byte
    <2> QED BY <1>5, <2>1
  <1> HIDE DEF line
  <1>7. FirstOf(line, BufSize - 1) = line
    <2>1. BufSize - 1 \in Nat /\ Len(line) <= BufSize - 1
      BY <1>1, <1>5, <1>6, WireAssumption
    <2> QED BY <1>6, <2>1, Fits
  <1>8. Line(m) = line
    BY <1>7 DEF Line, line, s
  <1>9. Trimmed(line) = s
    <2> DEFINE Cut(k) == /\ \A i \in k + 1 .. Len(line) : line[i] \in {LF, CR}
                         /\ k > 0 => line[k] \notin {LF, CR}
    <2>1. Cut(Len(s)) /\ Len(s) \in 0 .. Len(line)
      BY <1>5, <1>6
    <2>2. ASSUME NEW k \in 0 .. Len(line), Cut(k) PROVE k = Len(s)
      <3>1. CASE k < Len(s)
        <4>1. Len(s) \in k + 1 .. Len(line) /\ Len(s) \in 1 .. Len(s)
          BY <1>5, <1>6, <3>1
        <4> QED BY <1>5, <1>6, <2>2, <4>1
      <3>2. CASE Len(s) < k
        <4>1. k = Len(s) + 1 /\ k > 0
          BY <1>5, <1>6, <3>2
        <4> QED BY <1>6, <2>2, <4>1
      <3> QED BY <1>5, <1>6, <3>1, <3>2
    <2>3. Trimmed(line) = FirstOf(line, CHOOSE k \in 0 .. Len(line) : Cut(k))
      BY DEF Trimmed
    <2> HIDE DEF Cut
    <2>4. (CHOOSE k \in 0 .. Len(line) : Cut(k)) = Len(s)
      BY <2>1, <2>2
    <2>5. FirstOf(line, Len(s)) = SubSeq(line, 1, Len(s))
      BY <1>5, <1>6 DEF FirstOf
    <2>6. SubSeq(line, 1, Len(s)) = s
      <3> DEFINE w == SubSeq(line, 1, Len(s))
      <3>1. w \in Seq(Byte) /\ Len(w) = Len(s) /\ \A x \in 1 .. Len(s) : w[x] = s[x]
        BY <1>5, <1>6
      <3> HIDE DEF w
      <3>2. w = s
        BY <1>5, <3>1, SeqEqual
      <3> QED BY <3>2 DEF w
    <2> QED BY <2>3, <2>4, <2>5, <2>6
  <1>10. FirstOf(m, MaxParams) = m
    <2>1. MaxParams \in Nat /\ Len(m) <= MaxParams
      BY <1>1, WireAssumption DEF n
    <2> QED BY <2>1, Fits
  <1>11. ASSUME NEW i \in 1 .. n PROVE FirstOf(m[i], MaxParamLen - 1) = m[i]
    <2>1. m[i] \in Seq(Byte) /\ MaxParamLen - 1 \in Nat /\ Len(m[i]) <= MaxParamLen - 1
      BY <1>1, WireAssumption
    <2> QED BY <2>1, Fits
  <1>12. Parsed(line) = [k \in DOMAIN m |-> FirstOf(m[k], MaxParamLen - 1)]
    BY <1>4, <1>9, <1>10 DEF Parsed
  <1>13. m = [k \in 1 .. n |-> m[k]]
    BY DEF n
  <1> QED BY <1>1, <1>8, <1>11, <1>12, <1>13

(* Every message has a type or a command.                                   *)
Worded == \A m \in Messages : m \in Seq(Seq(Byte)) /\ Len(m) # 0

LEMMA UnderstoodFromTape == ASSUME Worded, WireInv PROVE Understood
  <1>1. got \in Seq(Seq(Byte)) /\ sent \in Seq(Messages)
    BY DEF WireInv, Typed
  <1>2. Len(got) <= Len(sent) /\ \A j \in 1 .. Len(got) : got[j] = Line(sent[j])
    BY DEF WireInv, Positions
  <1>3. ASSUME NEW i \in DOMAIN got, Proper(sent[i]) PROVE Parsed(got[i]) = sent[i]
    <2>1. i \in 1 .. Len(got) /\ i \in 1 .. Len(sent)
      BY <1>1, <1>2
    <2>2. sent[i] \in Messages
      BY <1>1, <2>1
    <2>3. sent[i] \in Seq(Seq(Byte)) /\ Len(sent[i]) # 0
      BY <2>2 DEF Worded
    <2>4. Parsed(Line(sent[i])) = sent[i]
      BY <1>3, <2>3, ParsedLine
    <2> QED BY <1>2, <2>1, <2>4
  <1> QED BY <1>3 DEF Understood

(* Understood: every message that keeps within the limits of the protocol   *)
(* is taken apart by parse_message into the fields it was put together     *)
(* from, whatever was sent before it, whichever threads send, for any size *)
(* of the buffers, any number of fields and any bytes in them.             *)
THEOREM Understanding == ASSUME SingleLines, Worded PROVE Spec => []Understood
  <1>1. Init => WireInv
    BY WireStart
  <1>2. WireInv /\ [Next]_vars => WireInv'
    BY WireStep
  <1>3. WireInv => Understood
    BY UnderstoodFromTape
  <1> QED BY <1>1, <1>2, <1>3, PTL DEF Spec

=============================================================================
