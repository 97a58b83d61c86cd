---------------------------- MODULE ReportExchange ----------------------------
(***************************************************************************)
(* One report file between a program that writes it and a pass that reads  *)
(* it (WriteJSONToFile and ReadJSONFromFile, lib/Exchange/JSONTransfer.cpp).*)
(* The two are different processes, and nothing locks the file.            *)
(*                                                                         *)
(* A report is written chunk by chunk, from a buffer; a chunk is named     *)
(* <<version, number>>.  The text of a report is one JSON object, so a     *)
(* proper prefix of it is malformed; a text that lacks a chunk, or has     *)
(* chunks of several versions, may be malformed or be some other object.   *)
(*                                                                         *)
(* LLVM's ToolOutputFile and the file system are external: a file that is  *)
(* removed lives on for the one that has it open.                          *)
(***************************************************************************)
EXTENDS Naturals, Sequences

CONSTANTS
  Length,   \* the number of chunks of each version, in the order they are written
  MaxReads  \* a cap on the calls of ReadJSONFromFile

ASSUME ExchangeAssumption == Length \in Seq(Nat \ {0}) /\ MaxReads \in Nat

VARIABLES
  files,   \* the contents of every file there has been under the name
  entry,   \* the one the name stands for now, or 0
  writer,  \* the program that calls WriteJSONToFile
  reader,  \* the call of ReadJSONFromFile, and the result of the last one
  kept     \* history: the version that the file has been kept with, or 0

vars == <<files, entry, writer, reader, kept>>

Versions == DOMAIN Length

Text(v) == [i \in 1 .. Length[v] |-> <<v, i>>]

Init ==
  /\ files = <<>>
  /\ entry = 0
  /\ writer = [pc |-> "idle", version |-> 0, file |-> 0, pos |-> 0, error |-> FALSE]
  /\ reader = [pc |-> "idle", file |-> 0, text |-> <<>>, from |-> 0, rewritten |-> FALSE,
               result |-> "none", version |-> 0, calls |-> 0]
  /\ kept = 0

-----------------------------------------------------------------------------
(***************************************************************************)
(* WriteJSONToFile.                                                        *)
(***************************************************************************)
Appending(content) == content

\* An existing file is truncated, under the eyes of whoever reads it.
Truncated(content) == <<>>

OpenForWriting ==
  /\ writer.pc = "idle" /\ writer.version < Len(Length)
  /\ \/ /\ entry # 0
        /\ files' = [files EXCEPT ![entry] = Truncated(@)]
        /\ UNCHANGED entry
     \/ /\ entry = 0
        /\ files' = Append(files, <<>>)
        /\ entry' = Len(files) + 1
  /\ writer' = [pc |-> "write", version |-> writer.version + 1, file |-> entry', pos |-> 0,
                error |-> FALSE]
  /\ reader' = [reader EXCEPT !.rewritten = @ \/ reader.file = entry']
  /\ kept' = 0

\* The error is cleared, but the stream has no file: what is written to it makes
\* LLVM's library end the program.  The name has been registered for removal all
\* the same, so a file that was there may be removed with it.
OpenFails ==
  /\ writer.pc = "idle" /\ writer.version < Len(Length)
  /\ writer' = [writer EXCEPT !.pc = "failed", !.version = @ + 1]
  /\ entry' \in {entry, 0}
  /\ UNCHANGED <<files, reader, kept>>

MorePastEnd(pos, v) == pos <= Length[v]

\* Some of the report is still to be written.
More(pos, v) == pos < Length[v]

\* A chunk that cannot be written is lost; those after it are still written.
WriteChunk ==
  /\ writer.pc = "write" /\ More(writer.pos, writer.version)
  /\ \/ /\ files' = [files EXCEPT ![writer.file] = Append(@, <<writer.version, writer.pos + 1>>)]
        /\ writer' = [writer EXCEPT !.pos = @ + 1]
     \/ /\ writer' = [writer EXCEPT !.pos = @ + 1, !.error = TRUE]
        /\ UNCHANGED files
  /\ UNCHANGED <<entry, reader, kept>>

KeepsAlways(error) == TRUE

\* if (!of.os().has_error()) of.keep()
Keeps(error) == ~error

\* close() may find an error too.  With an error the file is removed and the
\* stream ends the program.
CloseAndKeep ==
  /\ writer.pc = "write" /\ ~More(writer.pos, writer.version)
  /\ \E error \in {writer.error, TRUE} :
       \/ /\ Keeps(error)
          /\ writer' = [writer EXCEPT !.pc = "idle"]
          /\ kept' = writer.version
          /\ UNCHANGED entry
       \/ /\ ~Keeps(error)
          /\ writer' = [writer EXCEPT !.pc = "failed"]
          /\ entry' = 0
          /\ UNCHANGED kept
  /\ UNCHANGED <<files, reader>>

\* The program is stopped while it writes; on a signal it can catch it still
\* removes the file.
Crash ==
  /\ writer.pc = "write"
  /\ writer' = [writer EXCEPT !.pc = "crashed"]
  /\ entry' \in {entry, 0}
  /\ UNCHANGED <<files, reader, kept>>

\* The program is run again.
Restart ==
  /\ writer.pc \in {"failed", "crashed"}
  /\ writer' = [writer EXCEPT !.pc = "idle"]
  /\ UNCHANGED <<files, entry, reader, kept>>

-----------------------------------------------------------------------------
(***************************************************************************)
(* ReadJSONFromFile.                                                       *)
(***************************************************************************)

\* A pass that has been stopped may be run again.
Calling == reader.pc \in {"idle", "stopped"} /\ reader.calls < MaxReads

OpenForReading ==
  /\ Calling
  /\ entry # 0
  /\ reader' = [pc |-> "read", file |-> entry, text |-> <<>>, from |-> kept, rewritten |-> FALSE,
                result |-> "none", version |-> 0, calls |-> reader.calls + 1]
  /\ UNCHANGED <<files, entry, writer, kept>>

\* The file does not exist or cannot be opened.  Which error is returned depends
\* on whether the working directory has a file of the same last name.
CannotOpen ==
  /\ Calling
  /\ \E error \in {"no such file", "stream"} :
       reader' = [reader EXCEPT !.pc = "idle", !.result = error, !.calls = @ + 1, !.from = 0]
  /\ UNCHANGED <<files, entry, writer, kept>>

NeverAtEnd == Len(reader.text) > Len(files[reader.file])

AtEnd == Len(reader.text) >= Len(files[reader.file])

\* str: the stream reads on as long as there is more.
ReadChunk ==
  /\ reader.pc = "read" /\ ~AtEnd
  /\ Len(reader.text) < Len(files[reader.file])
  /\ reader' = [reader EXCEPT !.text = Append(@, files[reader.file][Len(@) + 1])]
  /\ UNCHANGED <<files, entry, writer, kept>>

IsPrefixOfReport(text) ==
  \E v \in Versions : Len(text) < Length[v] /\ \A i \in DOMAIN text : text[i] = <<v, i>>

\* The version that the text is the whole of, or 0.
WholeVersion(text) == IF \E v \in Versions : text = Text(v) THEN text[1][1] ELSE 0

ParseResults(text) ==
  IF WholeVersion(text) # 0 THEN {"report"}
  ELSE {"malformed"} \cup (IF IsPrefixOfReport(text) THEN {} ELSE {"torn"})

\* llvm::json::parse.  Its error has no error code that errorToErrorCode could give,
\* which ends the program.
Parse ==
  /\ reader.pc = "read" /\ AtEnd
  /\ \E result \in ParseResults(reader.text) :
       reader' = [reader EXCEPT !.pc = IF result = "malformed" THEN "stopped" ELSE "idle",
                                !.result = result,
                                !.version = WholeVersion(reader.text)]
  /\ UNCHANGED <<files, entry, writer, kept>>

ReaderStep == ReadChunk \/ Parse

Next == \/ OpenForWriting \/ OpenFails \/ WriteChunk \/ CloseAndKeep \/ Crash \/ Restart
        \/ OpenForReading \/ CannotOpen \/ ReaderStep

Spec == Init /\ [][Next]_vars

\* A pass that reads goes on reading; neither it nor the writer has to start.
FairSpec == Spec /\ WF_vars(ReaderStep)

-----------------------------------------------------------------------------

Chunks == Versions \X (Nat \ {0})

\* Every variable has its type.
ExchangeTypeOK ==
  /\ files \in Seq(Seq(Chunks))
  /\ entry \in 0 .. Len(files)
  /\ writer \in [pc : {"idle", "write", "failed", "crashed"}, version : 0 .. Len(Length),
                 file : 0 .. Len(files), pos : Nat, error : BOOLEAN]
  /\ reader \in [pc : {"idle", "read", "stopped"}, file : 0 .. Len(files), text : Seq(Chunks),
                 from : 0 .. Len(Length), rewritten : BOOLEAN,
                 result : {"none", "no such file", "stream", "malformed", "torn", "report"},
                 version : 0 .. Len(Length), calls : 0 .. MaxReads]
  /\ kept \in 0 .. Len(Length)
  /\ writer.pc = "write" => writer.pos <= Length[writer.version]

\* WriteJSONToFile: a file that it keeps holds the whole of one report, whatever
\* calls failed or crashed before, as long as it has the name; only a later call,
\* whose program ends without having opened it, may take the name away.
KeptIsComplete ==
  kept # 0 => \/ entry # 0 /\ files[entry] = Text(kept)
              \/ entry = 0 /\ kept < writer.version

\* ReadJSONFromFile: a call that begins when a report has been kept returns that
\* very report, unless a writer opens the file again before it is read; only then
\* may the result be torn or malformed.
KeptIsRead ==
  reader.from # 0 /\ ~reader.rewritten /\ reader.pc # "read" =>
    reader.result = "report" /\ reader.version = reader.from

\* ReadJSONFromFile: it comes to an end though the file may be truncated and grow
\* while it is read.
ReaderEnds == reader.pc = "read" ~> reader.pc # "read"

=============================================================================
