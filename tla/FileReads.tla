------------------------------ MODULE FileReads ------------------------------
(***************************************************************************)
(* The file_read tool of crates/mcp: it resolves the path, asks for the    *)
(* size, and then reads the file, which others write meanwhile.  A path is *)
(* absolute or not; a resolved one holds no "..".  Of the bytes it matters *)
(* how they decode: "a" is a character, a lead byte "L" one together with  *)
(* the continuation byte "C" after it.                                     *)
(***************************************************************************)
EXTENDS Naturals, Sequences

CONSTANTS MaxSize,          (* bound: size of the file                      *)
          Limits            (* max_bytes that clients ask for               *)

ASSUME FilesAssumption == MaxSize \in Nat /\ Limits \subseteq Nat

VARIABLES file,             (* external: [kind, bytes]                      *)
          reading,          (* the call: [pc, limit, size]                  *)
          reply,            (* its answer: [says, text, notice]             *)
          seen,             (* history: the file at the moment it was read  *)
          counted           (* outcome given to the metrics                 *)

fileVars == << file, reading, reply, seen, counted >>

Bytes == {"a", "L", "C"}

(* says: nothing yet, "Error: ..." or the file's text.  Either is a        *)
(* CallToolResult::success.  notice: the sizes a cut answer speaks of.     *)
NoNotice == << >>
NoReply == [says |-> "nothing", text |-> << >>, notice |-> NoNotice]

FilesInit ==
    /\ file = [kind |-> "missing", bytes |-> << >>]
    /\ reading = [pc |-> "idle", limit |-> 0, size |-> 0]
    /\ reply = NoReply /\ seen = << >> /\ counted = "none"

(* Other programs create the file, append to it, cut it or put a directory *)
(* in its place.                                                           *)
FileChanges ==
    /\ \/ \E b \in Bytes : /\ file.kind = "file" /\ Len(file.bytes) < MaxSize
                           /\ file' = [file EXCEPT !.bytes = Append(@, b)]
       \/ \E kind \in {"file", "dir", "missing"} :
              file' = [kind |-> kind, bytes |-> << >>]
    /\ UNCHANGED << reading, reply, seen, counted >>

Failing ==
    /\ reading' = [reading EXCEPT !.pc = "idle"]
    /\ reply' = [NoReply EXCEPT !.says = "error"]
    /\ counted' = "error" /\ seen' = << >>

(* A relative path is refused, and one that leads nowhere. *)
BeginRead(absolute, limit) ==
    /\ reading.pc = "idle"
    /\ IF absolute /\ file.kind # "missing"
       THEN /\ reading' = [pc |-> "resolved", limit |-> limit, size |-> 0]
            /\ reply' = NoReply /\ counted' = "none" /\ seen' = << >>
       ELSE Failing
    /\ UNCHANGED file

Measure ==
    /\ reading.pc = "resolved"
    /\ IF file.kind = "file"
       THEN /\ reading' = [reading EXCEPT !.pc = "measured", !.size = Len(file.bytes)]
            /\ UNCHANGED << reply, seen, counted >>
       ELSE Failing
    /\ UNCHANGED file

BytesToRead == IF reading.size < reading.limit THEN reading.size ELSE reading.limit

(* Mutant: a file that is just long enough counts as cut. *)
TruncatedAtEnd(length) == length >= BytesToRead

Truncated(length) == length > BytesToRead

(* What the first n bytes become in String::from_utf8_lossy, byte by byte: *)
(* a character stands at its lead byte, and U+FFFD for every byte that     *)
(* belongs to none, the last one of the n included when the cut leaves a   *)
(* lead byte alone.                                                        *)
Decoded(bytes, n, i) ==
    CASE bytes[i] = "a" -> "char"
      [] bytes[i] = "L" -> IF i < n /\ bytes[i + 1] = "C" THEN "char" ELSE "U+FFFD"
      [] bytes[i] = "C" -> IF i > 1 /\ bytes[i - 1] = "L" THEN "of the char before"
                                                            ELSE "U+FFFD"

Lossy(bytes, n) == [i \in 1 .. n |-> Decoded(bytes, n, i)]

ReadContent ==
    /\ reading.pc = "measured"
    /\ IF file.kind = "file"
       THEN LET length == Len(file.bytes)
                cut == Truncated(length)
            IN  /\ reply' = [says |-> "text",
                             text |-> Lossy(file.bytes, IF cut THEN BytesToRead ELSE length),
                             notice |-> IF cut THEN << BytesToRead, reading.size >>
                                               ELSE NoNotice]
                /\ reading' = [reading EXCEPT !.pc = "idle"]
                /\ seen' = file.bytes /\ counted' = "ok"
       ELSE Failing
    /\ UNCHANGED file

FilesNext ==
    \/ FileChanges
    \/ \E absolute \in BOOLEAN, limit \in Limits : BeginRead(absolute, limit)
    \/ Measure
    \/ ReadContent

-----------------------------------------------------------------------------

(***************************************************************************)
(* Whatever becomes of the file between the look at its size and the read: *)
(* the text stands for no more bytes of the file than the client asked for *)
(* (its own length may be greater, U+FFFD being three bytes); there is a   *)
(* notice of truncation, with the number of bytes shown, exactly if it is  *)
(* not the whole file as it was read; it shows the bytes as the whole file *)
(* would, except that a character may be cut at its end; and the metrics   *)
(* count as errors the answers that say so, which the protocol does not.   *)
(***************************************************************************)
AnswerIsOfTheFile ==
    /\ reply.says = "text" =>
          LET shown == Len(reply.text) IN
          /\ shown <= reading.limit /\ shown <= Len(seen)
          /\ IF shown = Len(seen) THEN reply.notice = NoNotice
                                  ELSE reply.notice # NoNotice /\ reply.notice[1] = shown
          /\ \A i \in 1 .. shown :
                \/ reply.text[i] = Decoded(seen, Len(seen), i)
                \/ i = shown /\ shown < Len(seen) /\ reply.text[i] = "U+FFFD"
    /\ counted = CASE reply.says = "nothing" -> "none"
                   [] reply.says = "text" -> "ok"
                   [] reply.says = "error" -> "error"
=============================================================================
