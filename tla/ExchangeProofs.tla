---------------------------- MODULE ExchangeProofs ----------------------------
(***************************************************************************)
(* For any number of reports of any length, and any number of reads: what  *)
(* is kept is complete, and what is kept is what is read.                  *)
(***************************************************************************)
EXTENDS ReportExchange, TLAPS

\* While a report is written, its file has the name, and what it contains is the
\* report so far, unless a write has failed.
WriterInv ==
  writer.pc = "write" =>
    /\ entry = writer.file /\ entry # 0 /\ kept = 0
    /\ writer.version \in Versions
    /\ ~writer.error => /\ Len(files[entry]) = writer.pos
                        /\ \A i \in 1 .. writer.pos : files[entry][i] = <<writer.version, i>>

\* A call that began with a kept report, and whose file has not been opened again,
\* has read a prefix of that report.
ReaderInv ==
  reader.pc = "read" =>
    /\ reader.file # 0
    /\ reader.from # 0 /\ ~reader.rewritten =>
         /\ files[reader.file] = Text(reader.from)
         /\ Len(reader.text) <= Length[reader.from]
         /\ \A i \in 1 .. Len(reader.text) : reader.text[i] = <<reader.from, i>>
         /\ writer.pc = "write" => writer.file # reader.file

\* What is kept was written by a call that has been.
KeptBefore == kept <= writer.version

ExchangeInv ==
  ExchangeTypeOK /\ WriterInv /\ KeptBefore /\ KeptIsComplete /\ ReaderInv /\ KeptIsRead

-----------------------------------------------------------------------------

LEMMA VersionFacts ==
  /\ Len(Length) \in Nat /\ Versions = 1 .. Len(Length)
  /\ \A v \in Versions : Length[v] \in Nat /\ Length[v] > 0
  /\ 0 \in 0 .. Len(Length)
  /\ \A v \in 0 .. Len(Length) : v # 0 => v \in Versions
  <1>1. Len(Length) \in Nat /\ DOMAIN Length = 1 .. Len(Length)
    BY ExchangeAssumption
  <1>2. \A v \in 1 .. Len(Length) : Length[v] \in Nat /\ Length[v] > 0
    BY ExchangeAssumption
  <1>3. 0 \in 0 .. Len(Length) /\ \A v \in 0 .. Len(Length) : v # 0 => v \in 1 .. Len(Length)
    BY <1>1
  <1> QED BY <1>1, <1>2, <1>3 DEF Versions

\* A function on 1 .. n is a sequence of length n, and conversely.
LEMMA SequenceFacts ==
  ASSUME NEW S
  PROVE  /\ \A n \in Nat : \A f \in [1 .. n -> S] : f \in Seq(S) /\ Len(f) = n
         /\ \A s \in Seq(S) : Len(s) \in Nat /\ DOMAIN s = 1 .. Len(s) /\ s \in [1 .. Len(s) -> S]
  OBVIOUS

LEMMA SequenceUpdate ==
  ASSUME NEW S, NEW s \in Seq(S), NEW i \in 1 .. Len(s), NEW e \in S
  PROVE  /\ [s EXCEPT ![i] = e] \in Seq(S)
         /\ Len([s EXCEPT ![i] = e]) = Len(s)
         /\ [s EXCEPT ![i] = e][i] = e
         /\ \A j \in 1 .. Len(s) : j # i => [s EXCEPT ![i] = e][j] = s[j]
  <1>1. Len(s) \in Nat /\ s \in [1 .. Len(s) -> S]
    BY SequenceFacts
  <1>2. [s EXCEPT ![i] = e] \in [1 .. Len(s) -> S]
    BY <1>1
  <1> QED BY <1>1, <1>2, SequenceFacts

\* What the type invariant says of the files.
LEMMA FileFacts ==
  ASSUME ExchangeTypeOK
  PROVE  /\ files \in Seq(Seq(Chunks)) /\ Len(files) \in Nat /\ DOMAIN files = 1 .. Len(files)
         /\ \A f \in 1 .. Len(files) : files[f] \in Seq(Chunks)
         /\ entry \in 0 .. Len(files) /\ writer.file \in 0 .. Len(files)
         /\ reader.file \in 0 .. Len(files)
         /\ entry # 0 => entry \in 1 .. Len(files)
         /\ reader.file # 0 => reader.file \in 1 .. Len(files)
  <1>1. files \in Seq(Seq(Chunks))
    BY DEF ExchangeTypeOK
  <1>2. Len(files) \in Nat /\ DOMAIN files = 1 .. Len(files) /\ files \in [1 .. Len(files) -> Seq(Chunks)]
    BY <1>1, SequenceFacts
  <1>3. /\ entry \in 0 .. Len(files) /\ writer.file \in 0 .. Len(files)
        /\ reader.file \in 0 .. Len(files)
    BY DEF ExchangeTypeOK
  <1> QED BY <1>1, <1>2, <1>3

\* The text of a report is as long as the report, and tells its version.
LEMMA TextFacts ==
  ASSUME NEW v \in Versions
  PROVE  /\ Text(v) \in Seq(Chunks) /\ Len(Text(v)) = Length[v]
         /\ \A i \in 1 .. Length[v] : Text(v)[i] = <<v, i>>
  <1>1. Length[v] \in Nat
    BY VersionFacts
  <1>2. \A i \in 1 .. Length[v] : <<v, i>> \in Chunks
    BY VersionFacts DEF Chunks
  <1>3. Text(v) \in [1 .. Length[v] -> Chunks]
    BY <1>2 DEF Text
  <1>4. Text(v) \in Seq(Chunks) /\ Len(Text(v)) = Length[v]
    BY <1>1, <1>3, SequenceFacts
  <1> QED BY <1>4 DEF Text

\* Sequences of the same length with the same elements are the same.
LEMMA SameText ==
  ASSUME NEW v \in Versions, NEW text \in Seq(Chunks), Len(text) = Length[v],
         \A i \in 1 .. Length[v] : text[i] = <<v, i>>
  PROVE  text = Text(v)
  <1>1. text = [i \in 1 .. Len(text) |-> text[i]]
    OBVIOUS
  <1> QED BY <1>1 DEF Text

LEMMA WholeVersionFacts ==
  /\ \A v \in Versions : WholeVersion(Text(v)) = v
  /\ \A text : WholeVersion(text) \in 0 .. Len(Length)
  <1>1. ASSUME NEW v \in Versions PROVE Text(v)[1][1] = v
    <2>1. 1 \in 1 .. Length[v]
      BY VersionFacts
    <2>2. Text(v)[1] = <<v, 1>>
      BY <2>1, TextFacts
    <2> QED BY <2>2
  <1>2. ASSUME NEW v \in Versions PROVE WholeVersion(Text(v)) = v
    BY <1>1 DEF WholeVersion
  <1>3. ASSUME NEW text PROVE WholeVersion(text) \in 0 .. Len(Length)
    <2>1. CASE \E v \in Versions : text = Text(v)
      <3>1. PICK v \in Versions : text = Text(v)
        BY <2>1
      <3>2. WholeVersion(text) = v
        BY <3>1, <1>2
      <3> QED BY <3>2, VersionFacts
    <2>2. CASE ~\E v \in Versions : text = Text(v)
      BY <2>2, VersionFacts DEF WholeVersion
    <2> QED BY <2>1, <2>2
  <1> QED BY <1>2, <1>3

LEMMA ExchangeInvInit == Init => ExchangeInv
  <1> SUFFICES ASSUME Init PROVE ExchangeInv
    OBVIOUS
  <1>1. ExchangeTypeOK
    BY VersionFacts, ExchangeAssumption DEF Init, ExchangeTypeOK
  <1>2. WriterInv /\ KeptBefore /\ KeptIsComplete /\ ReaderInv /\ KeptIsRead
    BY DEF Init, WriterInv, KeptBefore, KeptIsComplete, ReaderInv, KeptIsRead
  <1> QED BY <1>1, <1>2 DEF ExchangeInv

LEMMA OpenForWritingKeeps == ASSUME ExchangeInv, OpenForWriting PROVE ExchangeInv'
  <1> USE DEF ExchangeInv
  <1>0. /\ files \in Seq(Seq(Chunks)) /\ Len(files) \in Nat /\ <<>> \in Seq(Chunks)
        /\ DOMAIN files = 1 .. Len(files) /\ entry \in 0 .. Len(files)
        /\ reader.file \in 0 .. Len(files)
    BY FileFacts
  <1>1. /\ files' \in Seq(Seq(Chunks)) /\ entry' \in 1 .. Len(files') /\ Len(files) <= Len(files')
        /\ files'[entry'] = <<>>
        /\ \A f \in 1 .. Len(files) : f # entry' => files'[f] = files[f]
    <2>1. CASE entry # 0
      <3>1. files' = [files EXCEPT ![entry] = <<>>] /\ entry' = entry
        BY <2>1 DEF OpenForWriting, Truncated
      <3>2. entry \in 1 .. Len(files)
        BY <2>1, <1>0
      <3> QED BY <3>1, <3>2, <1>0, SequenceUpdate
    <2>2. CASE entry = 0
      <3>1. files' = Append(files, <<>>) /\ entry' = Len(files) + 1
        BY <2>2 DEF OpenForWriting
      <3> QED BY <2>2, <3>1, <1>0
    <2> QED BY <2>1, <2>2
  <1>2. /\ writer.version + 1 \in Versions /\ writer.version + 1 \in 0 .. Len(Length)
        /\ 0 <= Length[writer.version + 1]
    <2>1. writer.version \in 0 .. Len(Length) /\ writer.version < Len(Length)
      BY DEF ExchangeTypeOK, OpenForWriting
    <2>2. writer.version + 1 \in 1 .. Len(Length)
      BY <2>1, VersionFacts
    <2>3. writer.version + 1 \in Versions
      BY <2>2, VersionFacts
    <2>4. Length[writer.version + 1] \in Nat
      BY <2>3, VersionFacts
    <2> QED BY <2>2, <2>3, <2>4, VersionFacts
  <1>3. /\ writer' = [pc |-> "write", version |-> writer.version + 1, file |-> entry', pos |-> 0,
                      error |-> FALSE]
        /\ reader' = [reader EXCEPT !.rewritten = @ \/ reader.file = entry']
        /\ kept' = 0
    BY DEF OpenForWriting
  <1>4. ExchangeTypeOK'
    <2>1. writer' \in [pc : {"idle", "write", "failed", "crashed"}, version : 0 .. Len(Length),
                       file : 0 .. Len(files'), pos : Nat, error : BOOLEAN]
      BY <1>1, <1>2, <1>3
    <2>2. 0 .. Len(files) \subseteq 0 .. Len(files')
      BY <1>0, <1>1
    <2>3. (reader.rewritten \/ reader.file = entry') \in BOOLEAN
      OBVIOUS
    <2>4. reader' \in [pc : {"idle", "read", "stopped"}, file : 0 .. Len(files'),
                       text : Seq(Chunks), from : 0 .. Len(Length), rewritten : BOOLEAN,
                       result : {"none", "no such file", "stream", "malformed", "torn", "report"},
                       version : 0 .. Len(Length), calls : 0 .. MaxReads]
      BY <1>3, <2>2, <2>3 DEF ExchangeTypeOK
    <2>5. kept' \in 0 .. Len(Length)
      BY <1>3, VersionFacts
    <2>6. writer'.pos <= Length[writer'.version]
      BY <1>2, <1>3
    <2>7. entry' \in 0 .. Len(files')
      BY <1>1
    <2> QED BY <1>1, <2>1, <2>4, <2>5, <2>6, <2>7 DEF ExchangeTypeOK
  <1>5. WriterInv'
    <2>1. Len(files'[entry']) = 0
      BY <1>1
    <2> QED BY <1>1, <1>2, <1>3, <2>1 DEF WriterInv
  <1>6. KeptIsComplete' /\ KeptBefore'
    <2>1. writer.version + 1 \in Nat
      BY <1>2, VersionFacts
    <2> QED BY <1>3, <2>1 DEF KeptIsComplete, KeptBefore
  <1>7. /\ reader'.pc = reader.pc /\ reader'.file = reader.file /\ reader'.from = reader.from
        /\ reader'.text = reader.text /\ reader'.result = reader.result
        /\ reader'.version = reader.version
        /\ reader'.rewritten = (reader.rewritten \/ reader.file = entry')
    BY <1>3 DEF ExchangeTypeOK
  <1>8. ReaderInv'
    <2>1. ASSUME reader.pc = "read", reader.from # 0, ~reader'.rewritten
          PROVE  files'[reader.file] = files[reader.file] /\ writer'.file # reader.file
      <3>1. reader.file \in 1 .. Len(files)
        BY <2>1, FileFacts DEF ReaderInv
      <3>2. reader.file # entry'
        BY ONLY <2>1, <1>7, Zenon
      <3> QED BY <3>1, <3>2, <1>1, <1>3
    <2> QED BY <1>7, <2>1 DEF ReaderInv
  <1>9. KeptIsRead'
    BY <1>7 DEF KeptIsRead
  <1> QED BY <1>4, <1>5, <1>6, <1>8, <1>9

LEMMA WriteChunkKeeps == ASSUME ExchangeInv, WriteChunk PROVE ExchangeInv'
  <1> USE DEF ExchangeInv
  <1>1. /\ writer.pc = "write" /\ writer.pos < Length[writer.version]
        /\ entry = writer.file /\ entry # 0 /\ kept = 0 /\ writer.version \in Versions
        /\ entry' = entry /\ reader' = reader /\ kept' = kept
    BY DEF WriteChunk, WriterInv, More
  <1>2. /\ files \in Seq(Seq(Chunks)) /\ Len(files) \in Nat /\ DOMAIN files = 1 .. Len(files)
        /\ entry \in 1 .. Len(files) /\ writer.pos \in Nat /\ Length[writer.version] \in Nat
        /\ writer.pos + 1 \in Nat \ {0} /\ writer.pos + 1 <= Length[writer.version]
    <2>1. writer.pos \in Nat /\ Length[writer.version] \in Nat
      BY <1>1, VersionFacts DEF ExchangeTypeOK
    <2> QED BY <1>1, <2>1, FileFacts
  <1>3. files[entry] \in Seq(Chunks) /\ <<writer.version, writer.pos + 1>> \in Chunks
    BY <1>1, <1>2 DEF Chunks
  <1> DEFINE c == <<writer.version, writer.pos + 1>>
  <1>4. /\ files' \in Seq(Seq(Chunks)) /\ Len(files') = Len(files)
        /\ \A f \in 1 .. Len(files) : f # entry => files'[f] = files[f]
        /\ writer'.error \/ files'[entry] = Append(files[entry], c)
        /\ \E error \in BOOLEAN : /\ writer' = [writer EXCEPT !.pos = @ + 1, !.error = error]
                                  /\ writer.error => error
    <2>1. CASE /\ files' = [files EXCEPT ![writer.file] = Append(@, c)]
               /\ writer' = [writer EXCEPT !.pos = @ + 1]
      <3>1. Append(files[entry], c) \in Seq(Chunks)
        BY <1>3
      <3>2. files' = [files EXCEPT ![entry] = Append(files[entry], c)]
        BY <2>1, <1>1
      <3> HIDE DEF c
      <3>3. files' \in Seq(Seq(Chunks)) /\ Len(files') = Len(files)
        BY <3>1, <3>2, <1>2
      <3>4. writer' = [writer EXCEPT !.pos = @ + 1, !.error = writer.error] /\ writer.error \in BOOLEAN
        BY <2>1 DEF ExchangeTypeOK
      <3> QED BY <3>2, <3>3, <3>4, <1>2
    <2>2. CASE writer' = [writer EXCEPT !.pos = @ + 1, !.error = TRUE] /\ UNCHANGED files
      <3>1. writer'.error
        BY <2>2 DEF ExchangeTypeOK
      <3> QED BY <2>2, <3>1, <1>2
    <2> QED BY <2>1, <2>2 DEF WriteChunk
  <1>5. PICK error \in BOOLEAN : /\ writer' = [writer EXCEPT !.pos = @ + 1, !.error = error]
                                 /\ writer.error => error
    BY <1>4
  <1>6. /\ writer'.pc = "write" /\ writer'.file = entry /\ writer'.version = writer.version
        /\ writer'.pos = writer.pos + 1 /\ writer'.error = error
    BY <1>1, <1>5 DEF ExchangeTypeOK
  <1>7. ExchangeTypeOK'
    <2>1. writer' \in [pc : {"idle", "write", "failed", "crashed"}, version : 0 .. Len(Length),
                       file : 0 .. Len(files'), pos : Nat, error : BOOLEAN]
      BY <1>2, <1>4, <1>5 DEF ExchangeTypeOK
    <2> QED BY <1>1, <1>2, <1>4, <1>6, <2>1 DEF ExchangeTypeOK
  <1>8. WriterInv'
    <2>1. ASSUME ~writer'.error
          PROVE  /\ Len(files'[entry]) = writer.pos + 1
                 /\ \A i \in 1 .. writer.pos + 1 : files'[entry][i] = <<writer.version, i>>
      <3>1. /\ Len(files[entry]) = writer.pos
            /\ \A i \in 1 .. writer.pos : files[entry][i] = <<writer.version, i>>
        BY <2>1, <1>1, <1>5, <1>6 DEF WriterInv
      <3>2. files'[entry] = Append(files[entry], c)
        BY <2>1, <1>4
      <3>3. ASSUME NEW i \in 1 .. writer.pos + 1 PROVE files'[entry][i] = <<writer.version, i>>
        <4>1. CASE i = writer.pos + 1
          BY <4>1, <3>1, <3>2, <1>3
        <4>2. CASE i # writer.pos + 1
          <5>1. i \in 1 .. writer.pos
            BY <4>2, <1>2
          <5>2. files'[entry][i] = files[entry][i]
            BY <5>1, <3>1, <3>2, <1>3
          <5> QED BY <5>1, <5>2, <3>1
        <4> QED BY <4>1, <4>2
      <3> HIDE DEF c
      <3>4. Len(files'[entry]) = writer.pos + 1
        BY <3>1, <3>2, <1>3
      <3> QED BY <3>3, <3>4
    <2> QED BY <1>1, <1>6, <2>1 DEF WriterInv
  <1>9. KeptIsComplete' /\ KeptBefore'
    BY <1>1, <1>6 DEF KeptIsComplete, KeptBefore
  <1>10. ReaderInv'
    <2>1. ASSUME reader.pc = "read", reader.from # 0, ~reader.rewritten
          PROVE  files'[reader.file] = files[reader.file] /\ writer'.file # reader.file
      <3>1. reader.file \in 1 .. Len(files)
        BY <2>1, FileFacts DEF ReaderInv
      <3> QED BY <2>1, <3>1, <1>1, <1>4, <1>6 DEF ReaderInv
    <2> QED BY <1>1, <2>1 DEF ReaderInv
  <1>11. KeptIsRead'
    BY <1>1 DEF KeptIsRead
  <1> QED BY <1>7, <1>8, <1>9, <1>10, <1>11

LEMMA CloseKeeps == ASSUME ExchangeInv, CloseAndKeep PROVE ExchangeInv'
  <1> USE DEF ExchangeInv
  <1>1. /\ writer.pc = "write" /\ ~(writer.pos < Length[writer.version])
        /\ entry = writer.file /\ entry # 0 /\ kept = 0 /\ writer.version \in Versions
        /\ files' = files /\ reader' = reader
    BY DEF CloseAndKeep, WriterInv, More
  <1>2. /\ entry \in 1 .. Len(files) /\ writer.pos = Length[writer.version]
        /\ files[entry] \in Seq(Chunks)
        /\ writer.version \in 0 .. Len(Length) /\ writer.version # 0 /\ 0 \in 0 .. Len(files)
    <2>1. /\ writer.pos \in Nat /\ Length[writer.version] \in Nat
          /\ writer.pos <= Length[writer.version]
      BY <1>1, VersionFacts DEF ExchangeTypeOK
    <2> QED BY <1>1, <2>1, FileFacts, VersionFacts
  <1>3. CASE /\ ~writer.error
             /\ writer' = [writer EXCEPT !.pc = "idle"]
             /\ kept' = writer.version /\ entry' = entry
    <2>1. files[entry] = Text(writer.version)
      <3>1. /\ Len(files[entry]) = Length[writer.version]
            /\ \A i \in 1 .. Length[writer.version] : files[entry][i] = <<writer.version, i>>
        BY <1>1, <1>2, <1>3 DEF WriterInv
      <3> QED BY <1>1, <1>2, <3>1, SameText
    <2>2. ExchangeTypeOK'
      BY <1>1, <1>2, <1>3 DEF ExchangeTypeOK
    <2>3. writer'.pc = "idle" /\ writer'.version = writer.version
      BY <1>3 DEF ExchangeTypeOK
    <2> QED BY <1>1, <1>2, <1>3, <2>1, <2>2, <2>3
            DEF WriterInv, KeptBefore, KeptIsComplete, ReaderInv, KeptIsRead
  <1>4. CASE /\ writer' = [writer EXCEPT !.pc = "failed"]
             /\ entry' = 0 /\ kept' = kept
    <2>1. ExchangeTypeOK'
      BY <1>1, <1>2, <1>4 DEF ExchangeTypeOK
    <2>2. writer'.pc = "failed" /\ writer'.version = writer.version
      BY <1>4 DEF ExchangeTypeOK
    <2> QED BY <1>1, <1>4, <2>1, <2>2
            DEF WriterInv, KeptBefore, KeptIsComplete, ReaderInv, KeptIsRead
  <1>5. ASSUME NEW error \in {writer.error, TRUE}, Keeps(error) PROVE ~writer.error
    BY <1>5 DEF Keeps
  <1> QED BY <1>3, <1>4, <1>5 DEF CloseAndKeep

\* The other steps of the writer.
LEMMA WriterRestKeeps ==
  ASSUME ExchangeInv, OpenFails \/ Crash \/ Restart
  PROVE  ExchangeInv'
  <1> USE DEF ExchangeInv
  <1>1. CASE OpenFails
    <2>1. /\ writer.version \in 0 .. Len(Length) /\ writer.version < Len(Length)
          /\ Len(Length) \in Nat
      BY <1>1, VersionFacts DEF OpenFails, ExchangeTypeOK
    <2>2. writer.version + 1 \in 0 .. Len(Length)
      BY <2>1
    <2>3. /\ writer' \in [pc : {"idle", "write", "failed", "crashed"}, version : 0 .. Len(Length),
                          file : 0 .. Len(files), pos : Nat, error : BOOLEAN]
          /\ writer'.pc = "failed" /\ writer'.version = writer.version + 1
      BY <1>1, <2>2 DEF OpenFails, ExchangeTypeOK
    <2>4. entry' \in {entry, 0} /\ entry' \in 0 .. Len(files)
      BY <1>1, FileFacts DEF OpenFails
    <2>5. ExchangeTypeOK'
      BY <1>1, <2>3, <2>4 DEF OpenFails, ExchangeTypeOK
    <2>6. kept \in Nat /\ kept <= writer.version /\ kept < writer.version + 1
      <3>1. kept \in 0 .. Len(Length)
        BY DEF ExchangeTypeOK
      <3> QED BY <2>1, <3>1 DEF KeptBefore
    <2>7. KeptIsComplete' /\ KeptBefore'
      <3>1. kept' = kept /\ files' = files /\ writer'.version = writer.version + 1
        BY <1>1, <2>3 DEF OpenFails
      <3>2. kept' < writer'.version /\ kept' <= writer'.version
        BY <2>1, <2>6, <3>1
      <3>3. ASSUME kept' # 0, entry' # 0 PROVE files'[entry'] = Text(kept')
        BY <2>4, <3>1, <3>3 DEF KeptIsComplete
      <3> QED BY <3>2, <3>3 DEF KeptIsComplete, KeptBefore
    <2> QED BY <1>1, <2>3, <2>5, <2>7 DEF OpenFails, WriterInv, ReaderInv, KeptIsRead
  <1>2. CASE Crash
    <2>1. kept = 0 /\ entry' \in 0 .. Len(files)
      BY <1>2, FileFacts DEF Crash, WriterInv
    <2>2. writer'.pc = "crashed" /\ writer'.version = writer.version
      BY <1>2 DEF Crash, ExchangeTypeOK
    <2>3. ExchangeTypeOK'
      BY <1>2, <2>1 DEF Crash, ExchangeTypeOK
    <2> QED BY <1>2, <2>1, <2>2, <2>3
            DEF Crash, WriterInv, KeptBefore, KeptIsComplete, ReaderInv, KeptIsRead
  <1>3. CASE Restart
    <2>1. writer'.pc = "idle" /\ writer'.version = writer.version
      BY <1>3 DEF Restart, ExchangeTypeOK
    <2>2. ExchangeTypeOK'
      BY <1>3 DEF Restart, ExchangeTypeOK
    <2> QED BY <1>3, <2>1, <2>2
            DEF Restart, WriterInv, KeptBefore, KeptIsComplete, ReaderInv, KeptIsRead
  <1> QED BY <1>1, <1>2, <1>3

LEMMA OpenForReadingKeeps ==
  ASSUME ExchangeInv, OpenForReading \/ CannotOpen
  PROVE  ExchangeInv'
  <1> USE DEF ExchangeInv
  <1>1. /\ reader.calls \in 0 .. MaxReads /\ reader.calls < MaxReads /\ MaxReads \in Nat
        /\ files' = files /\ entry' = entry /\ writer' = writer /\ kept' = kept
    BY ExchangeAssumption DEF OpenForReading, CannotOpen, Calling, ExchangeTypeOK
  <1>2. reader.calls + 1 \in 0 .. MaxReads
    BY <1>1
  <1>3. CASE OpenForReading
    <2>1. /\ entry # 0
          /\ reader' = [pc |-> "read", file |-> entry, text |-> <<>>, from |-> kept,
                         rewritten |-> FALSE, result |-> "none", version |-> 0,
                         calls |-> reader.calls + 1]
      BY <1>3 DEF OpenForReading
    <2>2. ExchangeTypeOK'
      <3>1. 0 \in 0 .. Len(Length) /\ <<>> \in Seq(Chunks)
        BY VersionFacts
      <3>2. reader' \in [pc : {"idle", "read", "stopped"}, file : 0 .. Len(files), text : Seq(Chunks),
                         from : 0 .. Len(Length), rewritten : BOOLEAN,
                         result : {"none", "no such file", "stream", "malformed", "torn", "report"},
                         version : 0 .. Len(Length), calls : 0 .. MaxReads]
        BY <1>2, <2>1, <3>1 DEF ExchangeTypeOK
      <3> QED BY <1>1, <3>2 DEF ExchangeTypeOK
    <2>3. ReaderInv'
      <3>1. ASSUME kept # 0
            PROVE  files[entry] = Text(kept) /\ 0 <= Length[kept] /\ writer.pc # "write"
        <4>1. kept \in Versions
          <5>1. kept \in 0 .. Len(Length)
            BY DEF ExchangeTypeOK
          <5> QED BY <3>1, <5>1, VersionFacts
        <4>2. Length[kept] \in Nat
          BY <4>1, VersionFacts
        <4> QED BY <2>1, <3>1, <4>2 DEF KeptIsComplete, WriterInv
      <3>2. Len(<<>>) = 0
        OBVIOUS
      <3> QED BY <1>1, <2>1, <3>1, <3>2 DEF ReaderInv
    <2> QED BY <1>1, <2>1, <2>2, <2>3 DEF WriterInv, KeptBefore, KeptIsComplete, KeptIsRead
  <1>4. CASE CannotOpen
    <2>1. PICK error \in {"no such file", "stream"} :
            reader' = [reader EXCEPT !.pc = "idle", !.result = error, !.calls = @ + 1, !.from = 0]
      BY <1>4 DEF CannotOpen
    <2>2. reader'.pc = "idle" /\ reader'.from = 0
      BY <1>4, <2>1 DEF CannotOpen, ExchangeTypeOK
    <2>3. ExchangeTypeOK'
      <3>1. 0 \in 0 .. Len(Length)
        BY VersionFacts
      <3>2. reader' \in [pc : {"idle", "read", "stopped"}, file : 0 .. Len(files), text : Seq(Chunks),
                         from : 0 .. Len(Length), rewritten : BOOLEAN,
                         result : {"none", "no such file", "stream", "malformed", "torn", "report"},
                         version : 0 .. Len(Length), calls : 0 .. MaxReads]
        BY <1>2, <2>1, <3>1 DEF ExchangeTypeOK
      <3> QED BY <1>1, <3>2 DEF ExchangeTypeOK
    <2> QED BY <1>1, <2>2, <2>3
            DEF WriterInv, KeptBefore, KeptIsComplete, ReaderInv, KeptIsRead
  <1> QED BY <1>3, <1>4

LEMMA ReadChunkKeeps == ASSUME ExchangeInv, ReadChunk PROVE ExchangeInv'
  <1> USE DEF ExchangeInv
  <1> DEFINE n == Len(reader.text)
             file == files[reader.file]
  <1>1. /\ reader.pc = "read" /\ n < Len(file)
        /\ reader' = [reader EXCEPT !.text = Append(@, file[n + 1])]
        /\ files' = files /\ entry' = entry /\ writer' = writer /\ kept' = kept
    BY DEF ReadChunk
  <1>2. /\ reader.text \in Seq(Chunks) /\ n \in Nat /\ file \in Seq(Chunks) /\ Len(file) \in Nat
    BY <1>1, FileFacts, SequenceFacts DEF ExchangeTypeOK, ReaderInv
  <1>3. n + 1 \in 1 .. Len(file) /\ file[n + 1] \in Chunks
    BY <1>1, <1>2
  <1> HIDE DEF n, file
  <1>4. /\ Append(reader.text, file[n + 1]) \in Seq(Chunks)
        /\ reader'.text = Append(reader.text, file[n + 1])
        /\ reader'.pc = "read" /\ reader'.file = reader.file /\ reader'.from = reader.from
        /\ reader'.rewritten = reader.rewritten
    <2>1. Append(reader.text, file[n + 1]) \in Seq(Chunks)
      BY <1>2, <1>3
    <2> QED BY <1>1, <2>1 DEF ExchangeTypeOK
  <1>5. ExchangeTypeOK'
    BY <1>1, <1>4 DEF ExchangeTypeOK
  <1>6. ReaderInv'
    <2>1. ASSUME reader.from # 0, ~reader.rewritten
          PROVE  /\ Len(reader'.text) <= Length[reader.from]
                 /\ \A i \in 1 .. Len(reader'.text) : reader'.text[i] = <<reader.from, i>>
      <3>1. reader.from \in Versions
        <4>1. reader.from \in 0 .. Len(Length)
          BY DEF ExchangeTypeOK
        <4> QED BY <2>1, <4>1, VersionFacts
      <3>2. file = Text(reader.from) /\ \A i \in 1 .. n : reader.text[i] = <<reader.from, i>>
        BY <2>1, <1>1 DEF ReaderInv, n, file
      <3>3. /\ Len(file) = Length[reader.from]
            /\ file[n + 1] = <<reader.from, n + 1>>
        BY <1>3, <3>1, <3>2, TextFacts
      <3>4. Len(reader'.text) = n + 1
        BY <1>2, <1>3, <1>4 DEF n
      <3>5. ASSUME NEW i \in 1 .. n + 1 PROVE reader'.text[i] = <<reader.from, i>>
        <4>1. CASE i = n + 1
          BY <4>1, <1>2, <1>3, <1>4, <3>3 DEF n
        <4>2. CASE i # n + 1
          <5>1. i \in 1 .. n
            BY <4>2, <1>2
          <5>2. reader'.text[i] = reader.text[i]
            BY <5>1, <1>2, <1>3, <1>4 DEF n
          <5> QED BY <5>1, <5>2, <3>2
        <4> QED BY <4>1, <4>2
      <3>6. n + 1 <= Length[reader.from]
        BY <1>2, <1>3, <3>3
      <3> QED BY <3>4, <3>5, <3>6
    <2> QED BY <1>1, <1>4, <2>1 DEF ReaderInv
  <1> QED BY <1>1, <1>4, <1>5, <1>6 DEF WriterInv, KeptBefore, KeptIsComplete, KeptIsRead

LEMMA ParseKeeps == ASSUME ExchangeInv, Parse PROVE ExchangeInv'
  <1> USE DEF ExchangeInv
  <1>1. /\ reader.pc = "read" /\ Len(reader.text) >= Len(files[reader.file])
        /\ files' = files /\ entry' = entry /\ writer' = writer /\ kept' = kept
    BY DEF Parse, AtEnd
  <1>2. PICK result \in ParseResults(reader.text), pc \in {"idle", "stopped"} :
          reader' = [reader EXCEPT !.pc = pc, !.result = result,
                                   !.version = WholeVersion(reader.text)]
    BY DEF Parse
  <1>3. result \in {"report", "malformed", "torn"}
    BY DEF ParseResults
  <1>4. WholeVersion(reader.text) \in 0 .. Len(Length)
    BY WholeVersionFacts
  <1>5. /\ reader'.pc = pc /\ reader'.result = result /\ reader'.version = WholeVersion(reader.text)
        /\ reader'.from = reader.from /\ reader'.rewritten = reader.rewritten
    BY <1>2 DEF ExchangeTypeOK
  <1>6. ExchangeTypeOK'
    <2>1. reader' \in [pc : {"idle", "read", "stopped"}, file : 0 .. Len(files), text : Seq(Chunks),
                       from : 0 .. Len(Length), rewritten : BOOLEAN,
                       result : {"none", "no such file", "stream", "malformed", "torn", "report"},
                       version : 0 .. Len(Length), calls : 0 .. MaxReads]
      BY <1>2, <1>3, <1>4 DEF ExchangeTypeOK
    <2> QED BY <1>1, <2>1 DEF ExchangeTypeOK
  <1>7. KeptIsRead'
    <2>1. ASSUME reader.from # 0, ~reader.rewritten
          PROVE  result = "report" /\ WholeVersion(reader.text) = reader.from
      <3>1. reader.from \in Versions /\ reader.text \in Seq(Chunks)
        <4>1. reader.from \in 0 .. Len(Length) /\ reader.text \in Seq(Chunks)
          BY DEF ExchangeTypeOK
        <4> QED BY <2>1, <4>1, VersionFacts
      <3>2. /\ files[reader.file] = Text(reader.from)
            /\ Len(reader.text) <= Length[reader.from]
            /\ \A i \in 1 .. Len(reader.text) : reader.text[i] = <<reader.from, i>>
        BY <1>1, <2>1 DEF ReaderInv
      <3>3. Len(reader.text) = Length[reader.from]
        <4>1. Len(reader.text) >= Length[reader.from]
          BY <1>1, <3>1, <3>2, TextFacts
        <4>2. Len(reader.text) \in Nat /\ Length[reader.from] \in Nat
          BY <3>1, SequenceFacts, VersionFacts
        <4> QED BY <3>2, <4>1, <4>2
      <3>4. reader.text = Text(reader.from)
        BY <3>1, <3>2, <3>3, SameText
      <3>5. WholeVersion(reader.text) = reader.from
        BY <3>1, <3>4, WholeVersionFacts
      <3>6. WholeVersion(reader.text) # 0
        BY <2>1, <3>5
      <3>7. ParseResults(reader.text) = {"report"}
        BY <3>6 DEF ParseResults
      <3> QED BY <3>5, <3>7
    <2> QED BY <1>5, <2>1 DEF KeptIsRead
  <1>8. reader'.pc # "read"
    BY <1>5
  <1> QED BY <1>1, <1>6, <1>7, <1>8 DEF WriterInv, KeptBefore, KeptIsComplete, ReaderInv

-----------------------------------------------------------------------------

\* What the writer and the reader do keeps the invariant.
THEOREM ExchangeInvariance == Spec => []ExchangeInv
  <1>1. ASSUME ExchangeInv, [Next]_vars PROVE ExchangeInv'
    <2>1. CASE Next
      BY <1>1, <2>1, OpenForWritingKeeps, WriteChunkKeeps, CloseKeeps, WriterRestKeeps,
         OpenForReadingKeeps, ReadChunkKeeps, ParseKeeps DEF Next, ReaderStep
    <2>2. CASE UNCHANGED vars
      <3>1. /\ files' = files /\ entry' = entry /\ writer' = writer /\ reader' = reader
            /\ kept' = kept
        BY <2>2 DEF vars
      <3> QED BY <1>1, <3>1
              DEF ExchangeInv, ExchangeTypeOK, WriterInv, KeptBefore, KeptIsComplete, ReaderInv,
                  KeptIsRead
    <2> QED BY <1>1, <2>1, <2>2
  <1> QED BY ExchangeInvInit, <1>1, PTL DEF Spec

\* Every variable keeps its type, and the writer stays within its report.
THEOREM ExchangeTypeCorrect == Spec => []ExchangeTypeOK
  <1>1. ExchangeInv => ExchangeTypeOK
    BY DEF ExchangeInv
  <1> QED BY ExchangeInvariance, <1>1, PTL

\* WriteJSONToFile: what it keeps is never torn, for every number of reports,
\* failures and crashes: until the file is opened again it holds the whole of one
\* report, or a later call that could not open it has had it removed.
THEOREM ExchangeKeptIsComplete == Spec => []KeptIsComplete
  <1>1. ExchangeInv => KeptIsComplete
    BY DEF ExchangeInv
  <1> QED BY ExchangeInvariance, <1>1, PTL

\* ReadJSONFromFile: it returns the report that was kept when it began, if no
\* writer opens that file again before it ends.
THEOREM ExchangeKeptIsRead == Spec => []KeptIsRead
  <1>1. ExchangeInv => KeptIsRead
    BY DEF ExchangeInv
  <1> QED BY ExchangeInvariance, <1>1, PTL

=============================================================================
