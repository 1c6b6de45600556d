-------------------------------- MODULE Wire --------------------------------
(***************************************************************************)
(* One direction of a connection (protocol.c, client_send and              *)
(* client_receive): how messages become bytes and bytes become messages.   *)
(*                                                                         *)
(* Several threads of the client may send on its socket (the input thread   *)
(* and the receiving thread, which answers with READY by itself).  write() *)
(* takes any part of a message, read() is asked for one byte at a time, a  *)
(* message ends with a line feed or where the receiver's buffer is full,   *)
(* and the connection may break between any two bytes.                     *)
(*                                                                         *)
(* A message is a sequence of fields, a field a sequence of bytes.  The     *)
(* first field is the command or the type of a response.                   *)
(***************************************************************************)
EXTENDS Naturals, Sequences, SequencesExt, FiniteSets

CONSTANTS Sender,        \* threads that send on this socket
          Messages,      \* what they may have to say
          BufSize,       \* MAX_MESSAGE_LEN
          MaxParams,     \* MAX_PARAMS
          MaxParamLen,   \* MAX_PARAM_LEN
          Capacity,      \* bytes the connection holds before write() blocks
          MaxSends       \* messages in all (a bound of the model)

ASSUME WireAssumption ==
  /\ {MaxParams, MaxParamLen, Capacity, MaxSends} \subseteq Nat \ {0}
  /\ BufSize \in Nat \ {0, 1}

LF  == "\n"
CR  == "\r"
Sep == "|"

-----------------------------------------------------------------------------
(* Messages to bytes                                                       *)

FirstOf(s, n) == SubSeq(s, 1, IF n < Len(s) THEN n ELSE Len(s))

(* fields with a separator before each but the first *)
Joined(fields) == Tail(FlattenSeq([i \in DOMAIN fields |-> <<Sep>> \o fields[i]]))

(* build_response, and the snprintf() of the client's commands.  A message  *)
(* that is too long for the buffer is sent all the same, as far as it fits: *)
(* nobody looks at the -1 of build_response.                               *)
Line(fields) == FirstOf(Joined(fields) \o <<LF>>, BufSize - 1)

-----------------------------------------------------------------------------
(* Bytes to messages                                                       *)

\* fault: the end of the line is left in the last field
Untrimmed(line) == line

(* the line without the CRs and LFs at its end *)
Trimmed(line) ==
  FirstOf(line, CHOOSE n \in 0 .. Len(line) :
                  /\ \A i \in n + 1 .. Len(line) : line[i] \in {LF, CR}
                  /\ n > 0 => line[n] \notin {LF, CR})

(* strtok_r: runs of bytes between separators; empty ones do not count *)
TokenStarts(s) == {i \in DOMAIN s : s[i] # Sep /\ (i > 1 => s[i - 1] = Sep)}
TokenEnd(s, i) == CHOOSE j \in i .. Len(s) :
                    /\ \A k \in i .. j : s[k] # Sep
                    /\ j < Len(s) => s[j + 1] = Sep
Nth(S, k) == CHOOSE i \in S : Cardinality({j \in S : j < i}) = k - 1
Tokens(s) == [k \in 1 .. Cardinality(TokenStarts(s)) |->
                LET i == Nth(TokenStarts(s), k) IN SubSeq(s, i, TokenEnd(s, i))]

(* parse_message: the fields, none if the message is refused *)
Parsed(line) ==
  LET tokens == FirstOf(Tokens(Trimmed(line)), MaxParams)
  IN [k \in DOMAIN tokens |-> FirstOf(tokens[k], MaxParamLen - 1)]

-----------------------------------------------------------------------------
(* State                                                                   *)

VARIABLES writer,   \* each sender: where it is, what it says, what is left to write
          lock,     \* holder of send_lock, if any
          stream,   \* bytes written and not yet read
          buffer,   \* the receiver's buffer
          got,      \* history: messages received
          sent,     \* history: messages whose sending began, in that order
          open      \* the connection is up

vars == <<writer, lock, stream, buffer, got, sent, open>>

Nobody == {}
Idle   == [pc |-> "idle", fields |-> <<>>, rest |-> <<>>]

Init ==
  /\ writer = [s \in Sender |-> Idle]
  /\ lock = Nobody
  /\ stream = <<>> /\ buffer = <<>> /\ got = <<>> /\ sent = <<>>
  /\ open = TRUE

Waiting == {s \in Sender : writer[s].pc = "lock"}

-----------------------------------------------------------------------------
(* client_send                                                             *)

Call(s) ==
  /\ writer[s].pc = "idle" /\ open
  /\ Len(sent) + Cardinality(Waiting) < MaxSends
  /\ \E m \in Messages : writer' = [writer EXCEPT ![s] = [Idle EXCEPT !.pc = "lock", !.fields = m]]
  /\ UNCHANGED <<lock, stream, buffer, got, sent, open>>

\* fault: the lock is not taken
AcquireAnyway(s) ==
  /\ writer[s].pc = "lock"
  /\ sent' = Append(sent, writer[s].fields)
  /\ writer' = [writer EXCEPT ![s] = [pc |-> "write", fields |-> @.fields, rest |-> Line(@.fields)]]
  /\ UNCHANGED <<lock, stream, buffer, got, open>>

Acquire(s) ==
  /\ writer[s].pc = "lock" /\ lock = Nobody
  /\ lock' = {s}
  /\ sent' = Append(sent, writer[s].fields)
  /\ writer' = [writer EXCEPT ![s] = [pc |-> "write", fields |-> @.fields, rest |-> Line(@.fields)]]
  /\ UNCHANGED <<stream, buffer, got, open>>

(* one write(), of some of the bytes that are left *)
Write(s) ==
  /\ writer[s].pc = "write" /\ open
  /\ \E n \in 1 .. Len(writer[s].rest) :
       /\ Len(stream) + n <= Capacity
       /\ stream' = stream \o SubSeq(writer[s].rest, 1, n)
       /\ writer' = [writer EXCEPT ![s].rest = SubSeq(@, n + 1, Len(@))]
  /\ UNCHANGED <<lock, buffer, got, sent, open>>

\* fault: the way out after a failed write() keeps the lock
ReturnHolding(s) ==
  /\ writer[s].pc = "write" /\ (writer[s].rest = <<>> \/ ~open)
  /\ lock' = IF open THEN Nobody ELSE lock
  /\ writer' = [writer EXCEPT ![s] = Idle]
  /\ UNCHANGED <<stream, buffer, got, sent, open>>

(* everything is written, or write() fails *)
Return(s) ==
  /\ writer[s].pc = "write" /\ (writer[s].rest = <<>> \/ ~open)
  /\ lock' = Nobody
  /\ writer' = [writer EXCEPT ![s] = Idle]
  /\ UNCHANGED <<stream, buffer, got, sent, open>>

-----------------------------------------------------------------------------
(* receive_message                                                         *)

Complete(bytes) == Len(bytes) = BufSize - 1 \/ bytes[Len(bytes)] = LF

(* one byte; what is in the buffer at an end of file never becomes a message *)
Read ==
  /\ stream # <<>>
  /\ stream' = Tail(stream)
  /\ LET bytes == Append(buffer, Head(stream))
     IN IF Complete(bytes)
        THEN buffer' = <<>> /\ got' = Append(got, bytes)
        ELSE buffer' = bytes /\ UNCHANGED got
  /\ UNCHANGED <<writer, lock, sent, open>>

(* the connection breaks: what was written can still be read *)
Break ==
  /\ open
  /\ open' = FALSE
  /\ UNCHANGED <<writer, lock, stream, buffer, got, sent>>

-----------------------------------------------------------------------------
(* Specification                                                           *)

Next == Read \/ Break \/ \E s \in Sender : Call(s) \/ Acquire(s) \/ Write(s) \/ Return(s)

Spec == Init /\ [][Next]_vars

(* Threads run, the receiver reads.  The lock is not assumed to be fair: a  *)
(* sender passes another by at most as often as MaxSends allows, and in the *)
(* program a user has to type a line each time.                            *)
FairSpec ==
  /\ Spec
  /\ WF_vars(Read)
  /\ \A s \in Sender : WF_vars(Acquire(s)) /\ WF_vars(Write(s)) /\ WF_vars(Return(s))

-----------------------------------------------------------------------------
(* Properties                                                              *)

(* What is read are the lines that were sent, whole, one message each, in   *)
(* the order in which the senders took the lock: parts written by two      *)
(* threads are not mixed, a line too long for the buffers is still one     *)
(* message (it fills the receiver's buffer exactly, without a line feed),  *)
(* and half a line is never handled when the connection breaks.            *)
Framed == IsPrefix(got, [i \in DOMAIN sent |-> Line(sent[i])])

(* messages of the protocol: everything fits, no separator inside a field *)
Proper(fields) ==
  /\ Len(Joined(fields)) < BufSize - 1
  /\ Len(fields) <= MaxParams
  /\ \A i \in DOMAIN fields :
       /\ Len(fields[i]) \in 1 .. MaxParamLen - 1
       /\ \A k \in DOMAIN fields[i] : fields[i][k] \notin {LF, CR, Sep}

(* A proper message is understood as it was meant, at every limit and after *)
(* any other message.                                                      *)
Understood == \A i \in DOMAIN got : Proper(sent[i]) => Parsed(got[i]) = sent[i]

(* A call of client_send returns, also when the connection breaks under it *)
(* or while another thread sends.                                          *)
SendReturns == \A s \in Sender : writer[s].pc # "idle" ~> writer[s].pc = "idle"

=============================================================================
