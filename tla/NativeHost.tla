----------------------------- MODULE NativeHost -----------------------------
(***************************************************************************)
(* The native-messaging debug host of                                     *)
(* src/proxxy-extension/debug-native-host.py and its peer, the browser.  *)
(*                                                                         *)
(* The browser writes length-prefixed JSON messages to the host's stdin   *)
(* and reads length-prefixed replies from its stdout.  The host loops:    *)
(* receive_message, handle_message (which prints and then send_message). *)
(* print() goes through sys.stdout, a text layer that keeps written text  *)
(* pending until it reaches its chunk size and then passes it down to    *)
(* sys.stdout.buffer, the same binary stream send_message writes frames  *)
(* to.  `stdout.out` is the byte stream the browser reads, item by item; *)
(* text sizes are counted in units of one print().                       *)
(***************************************************************************)
EXTENDS Integers, Sequences

CONSTANTS
  Ids,          \* the "id" members a message can carry
  NoId,         \* a message without an "id" member
  MaxMessages,  \* bound on the messages the browser writes
  BannerUnits,  \* size of the eight banner lines
  ChunkUnits    \* the text layer's chunk size (8192 bytes)

\* What handle_message looks at: the "id" member, and whether the message
\* is a JSON object with action "ping", module "system", both, or neither,
\* JSON null (json.loads gives None), or no object at all (a string,
\* number or array).
Kinds == {"ping", "system", "pingsystem", "plain", "null", "nonobject"}
Message == [id : Ids \cup {NoId}, kind : Kinds]

\* What the host's stdin holds when the port closed in the middle of a
\* message: the length header or the body is short.
Cut == [id |-> NoId, kind |-> "cut"]

ASSUME NoId \notin Ids /\ MaxMessages \in Nat /\ BannerUnits \in Nat
       /\ ChunkUnits \in Nat \ {0} /\ BannerUnits < ChunkUnits

\* An item of the stream: printed text, or one length-prefixed frame.
Text == [kind |-> "text", id |-> "none", data |-> "none"]
Frame == [kind : {"frame"}, id : Ids \cup {"unknown"},
          data : {"pong", "status", "echo"}]

VARIABLES
  pc,      \* position of the host: banner, read, handle, exit, done
  recv,    \* messages the host has read
  msgs,    \* the messages the browser has written, in order
  closed,  \* the browser closed the host's stdin
  stdout,  \* [pend |-> pending text units, out |-> stream the browser reads]
  rpos,    \* items of stdout.out the browser has read
  broken,  \* the browser met bytes that are not a frame
  status   \* the host's exit status, -1 before

vars == <<pc, recv, msgs, closed, stdout, rpos, broken, status>>

\* print(): the text is added to the pending text; once the pending text
\* reaches the chunk size it is written to the binary stream.
PrintOut(st) ==
  IF st.pend + 1 >= ChunkUnits
    THEN [pend |-> 0, out |-> Append(st.out, Text)]
    ELSE [pend |-> st.pend + 1, out |-> st.out]

\* send_message (lines 25-30): a frame on sys.stdout.buffer, flushed.
SendMessage(st, f) == [pend |-> st.pend, out |-> Append(st.out, f)]

\* The data of the reply (lines 53-69): "ping" sets pong, then "system"
\* overwrites it with the status.
ReplyData(m) ==
  IF m.kind \in {"system", "pingsystem"} THEN "status"
  ELSE IF m.kind = "ping" THEN "pong"
  ELSE "echo"

\* Mutant of Reply: message["id"] without the "unknown" default.
ReplyNoDefault(m) == [kind |-> "frame", id |-> m.id, data |-> ReplyData(m)]

\* The reply handle_message builds (lines 53-69).
Reply(m) == [kind |-> "frame",
             id |-> IF m.id = NoId THEN "unknown" ELSE m.id,
             data |-> ReplyData(m)]


-----------------------------------------------------------------------------
Init ==
  /\ pc = "banner"
  /\ recv = 0 /\ msgs = <<>> /\ closed = FALSE
  /\ stdout = [pend |-> 0, out |-> <<>>]
  /\ rpos = 0 /\ broken = FALSE /\ status = -1

\* The eight banner prints (lines 16-23).
Banner ==
  /\ pc = "banner"
  /\ stdout' = [stdout EXCEPT !.pend = BannerUnits]
  /\ pc' = "read"
  /\ UNCHANGED <<recv, msgs, closed, rpos, broken, status>>

\* Mutant of ReceiveMessage: a read that insists on the whole message
\* (a loop on read() until message_length bytes came) waits forever on a
\* message cut by the close.
ReceiveWaitsForWhole ==
  /\ pc = "read"
  /\ \/ recv < Len(msgs) /\ msgs[recv + 1] # Cut /\ recv' = recv + 1
        /\ pc' = IF msgs[recv + 1].kind = "null" THEN "exit" ELSE "handle"
     \/ recv = Len(msgs) /\ closed /\ pc' = "exit" /\ UNCHANGED recv
  /\ UNCHANGED <<msgs, closed, stdout, rpos, broken, status>>

\* Mutant of ReceiveMessage: at end of file the loop reads again.
ReceiveKeepsReading ==
  /\ pc = "read"
  /\ \/ recv < Len(msgs) /\ recv' = recv + 1
        /\ pc' = IF msgs[recv + 1].kind = "null" THEN "exit" ELSE "handle"
     \/ recv = Len(msgs) /\ closed /\ UNCHANGED <<pc, recv>>
  /\ UNCHANGED <<msgs, closed, stdout, rpos, broken, status>>

\* receive_message (lines 32-47) and the loop test (lines 77-79): a whole
\* message the browser wrote is read and decoded; JSON null decodes to
\* None, which ends the loop like the empty read at end of file.  The read
\* blocks while neither is there.  A cut message comes back short at end
\* of file: struct.unpack or decode/json.loads raises, the except prints
\* the error and returns None, and the loop ends; only a cut number can
\* still decode (to a shorter number), which handle_message then meets.
ReceiveMessage ==
  /\ pc = "read"
  /\ \/ recv < Len(msgs) /\ msgs[recv + 1] # Cut /\ recv' = recv + 1
        /\ UNCHANGED stdout
        /\ pc' = IF msgs[recv + 1].kind = "null" THEN "exit" ELSE "handle"
     \/ recv < Len(msgs) /\ msgs[recv + 1] = Cut /\ recv' = recv + 1
        /\ \/ pc' = "exit" /\ stdout' = PrintOut(stdout)
           \/ pc' = "handle" /\ UNCHANGED stdout
     \/ recv = Len(msgs) /\ closed /\ pc' = "exit"
        /\ UNCHANGED <<recv, stdout>>
  /\ UNCHANGED <<msgs, closed, rpos, broken, status>>

HandleMessage ==
  /\ pc = "handle"
  /\ LET m == msgs[recv] IN
       IF m.kind \in {"nonobject", "cut"}
         THEN /\ stdout' = PrintOut(PrintOut(stdout))
              /\ pc' = "exit" /\ status' = 1
         ELSE /\ stdout' = SendMessage(PrintOut(PrintOut(stdout)), Reply(m))
              /\ pc' = "read" /\ UNCHANGED status
  /\ UNCHANGED <<recv, msgs, closed, rpos, broken>>

\* Interpreter exit: sys.stdout is flushed, so pending text reaches the
\* stream after the last frame.  Leaving the loop normally exits 0.
Exit ==
  /\ pc = "exit"
  /\ stdout' = IF stdout.pend > 0
                 THEN [pend |-> 0, out |-> Append(stdout.out, Text)]
                 ELSE stdout
  /\ status' = IF status = -1 THEN 0 ELSE status
  /\ pc' = "done"
  /\ UNCHANGED <<recv, msgs, closed, rpos, broken>>

Host == Banner \/ ReceiveMessage \/ HandleMessage \/ Exit

\* The browser (Chrome's native messaging, the peer named in the script's
\* docstring): it writes a message, closes the port, or reads the next
\* item of the host's stdout.  Bytes that are not a frame are a protocol
\* error: the browser disconnects and kills the host.
BrowserSend ==
  /\ ~closed /\ Len(msgs) < MaxMessages
  /\ \E m \in Message : msgs' = Append(msgs, m)
  /\ UNCHANGED <<pc, recv, closed, stdout, rpos, broken, status>>

BrowserClose ==
  /\ ~closed
  /\ closed' = TRUE
  /\ UNCHANGED <<pc, recv, msgs, stdout, rpos, broken, status>>

\* The port closes while the browser is writing a message (the browser
\* quits or the extension is reloaded): what reached the pipe is a cut
\* message, and the host's stdin is at end of file after it.
BrowserCut ==
  /\ ~closed /\ Len(msgs) < MaxMessages
  /\ msgs' = Append(msgs, Cut) /\ closed' = TRUE
  /\ UNCHANGED <<pc, recv, stdout, rpos, broken, status>>

BrowserRead ==
  /\ ~broken /\ rpos < Len(stdout.out)
  /\ rpos' = rpos + 1
  /\ IF stdout.out[rpos + 1] = Text
       THEN /\ broken' = TRUE /\ closed' = TRUE
            /\ pc' = "done"
            /\ status' = IF pc = "done" THEN status ELSE 143
       ELSE UNCHANGED <<broken, closed, pc, status>>
  /\ UNCHANGED <<recv, msgs, stdout>>

Browser == BrowserSend \/ BrowserClose \/ BrowserCut \/ BrowserRead

Finished == pc = "done" /\ UNCHANGED vars

Next == Host \/ Browser \/ Finished

\* The host loop is the only thread and runs whenever it has input.
Spec == Init /\ [][Next]_vars /\ WF_vars(Host)

-----------------------------------------------------------------------------
\* Each variable holds a value of its kind; every item on the host's
\* stdout is a well-formed reply frame or printed text.
TypeOK ==
  /\ pc \in {"banner", "read", "handle", "exit", "done"}
  /\ msgs \in Seq(Message \cup {Cut}) /\ Len(msgs) <= MaxMessages
  /\ recv \in 0..Len(msgs) /\ closed \in BOOLEAN
  /\ stdout.pend \in 0..(ChunkUnits - 1)
  /\ \A k \in DOMAIN stdout.out : stdout.out[k] \in Frame \cup {Text}
  /\ rpos \in 0..Len(stdout.out) /\ broken \in BOOLEAN
  /\ status \in {-1, 0, 1, 143}

\* The frames on stdout, without the printed text.
Frames == SelectSeq(stdout.out, LAMBDA x : x # Text)

HostExitsOnEOF == closed ~> (pc = "done")

\* The native-messaging protocol the script simulates: every item the
\* browser reads from the host's stdout is a length-prefixed frame.  The
\* print() calls of lines 16-23, 51 and 71 write to the same stdout.
StdoutCarriesOnlyFrames ==
  \A k \in DOMAIN stdout.out : stdout.out[k] # Text
=============================================================================
