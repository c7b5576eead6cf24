# norcom2kv in TLA+

norcom2kv is a daemon of the Norwegian Meteorological Institute. It watches a
directory (`synopdir`) for files of WMO bulletins, which other programs write
and append to, cuts out of each file what it has not handed on before, splits
that into bulletins and reports, and sends the reports to one or more kvalobs
servers. What kvalobs cannot take now it keeps in files of its own
(`data2kv/kvdata_*`) and sends again later.

The program is one thread, and hardly any of its difficulty is in one function.
It is in what happens between two calls: files change while they are listed,
copied and compared by mtimes of one second; servers store a message and the
answer is lost; the process is killed, and starts again from a state file that
it rewrites in place; a file is read while its last bulletin is half written.

## Inventory

| Component | Source (`src/src/`) | State | Operations | Hard about it | What makes it correct |
|---|---|---|---|---|---|
| Observation collector | `CollectWmoReports.cc`, `FInfo.h`, `File.h` | `fileInfoList` (mtime, offset, crc, seen, collected, copy), copies in `tmpdir` | `getFileList`, `checkForNewObservations`, `copyFile`, `collectObservations`, `getNewObsPart` | writers at any moment, failing calls, mtimes of one second | copies are whole; no write is missed; nothing is skipped; kills and failures repeat a chunk once each at most |
| State file | `App.cc` 360-438 | `norcom2kv_finfo.dat` | `saveFInfoList`, `readFInfoList` | rewritten in place; may be cut anywhere; colons in names | after a kill or a full disk at any step it claims no more than was handed on; whole lines come back |
| Bulletin scanner | `WMORaport.cc` 83-184, 540-692 | stream, counters | `findZCZC`, `getMessage`, `decode` | files end anywhere; stream flags | exactly the whole bulletins come out; it returns |
| Report splitter | `WMORaport.cc` 243-536 | lists of reports by type | `dispatch`, `doSYNOP`, `doMETAR`, `doBUFR_SURFACE`, ... | sections without "=", NIL, reports in front of an identifier | each report once, under its identifier; never two as one |
| Sending and data2kv | `CollectWmoReports.cc` 168-228, 280-351, 494-630, `App.cc` 327-356 | `kvdata_*` files, result of a send | `sendWMORaport`, `sendMessageToKvalobs`, `sendDataToKvalobs`, `writeFile`, `tryToSendSavedObservations` | lost answers, several servers, kills, full disks | nothing accepted is lost; no message blocks the others |
| Main loop | `CollectWmoReports.cc` 230-278, `App.cc` 440-510 | two timers, the flag of SIGTERM | `run`, `sig_term` | wall clock set back, long rounds, one thread for all | both timers go off again and again; SIGTERM ends it; what a start skips is settled or saved |
| Checksum | `crc_ccitt.cc` | - | `crc_ccitt` | 16 bits | equals CRC-CCITT; small changes show |
| Configuration | `App.cc` 67-325 | `RaportDef`, servers, switches | constructor, `getRaportConf`, `getDecoder` | blanks, repeated types, missing directories | a decoder for each type collected |
| Process start | `norcom2kv.cc`, `InitLogger.cc` | pid file | `main`, `InitLogger` | test, then create; kills leave the file; failures nobody looks at | one daemon at a time |
| Start scripts | `docker/entrypoint.sh`, `debian_files/runbg` | - | run the daemon | | |

The main loop calls the collector every three seconds. The collector passes a
new part of a file to the scanner, the scanner passes bulletins to the
splitter, `sendWMORaport` sends the reports, and only when all files of a round
are done is the state file written. Every sixty seconds the loop sends the
files of `data2kv` again. There are no locks and no threads: the other actors
are the programs that write `synopdir`, the servers, the signal handler (which
only sets a flag), and whatever kills the process.

`PROJECT.json` lists, under `hazards`, what can go wrong in this code that a
test would hardly reach, each at its line, with the properties that watch it.

## Modules

| Module | What it is |
|---|---|
| `Collector` | the collector and the state file; properties and inductive invariant |
| `MCCollector` | its instances |
| `CollectorProofs` | theorems about `Collector`: its safety |
| `RepeatsProofs` | theorems about `Collector`: how often a chunk is handed on |
| `AtLeastOnce` | abstract: accepted implies settled or kept |
| `Delivery` | the sending side; refines `AtLeastOnce` |
| `MCDelivery` | its instances |
| `DeliveryProofs` | theorems about `Delivery` |
| `WmoScanner` | the bulletin scanner |
| `MCWmoScanner` | the parts of files it is run on |
| `WmoScannerProofs` | theorems about `WmoScanner` |
| `ReportSplitter` | the report splitter |
| `MCReportSplitter` | the bulletins it is run on |
| `ReportSplitterProofs` | theorems about `ReportSplitter` |
| `Norcom2kv` | the daemon: `Collector` and `Delivery` composed by `run()` |
| `MCNorcom2kv` | its instance |
| `Norcom2kvProofs` | theorems about `Norcom2kv`, from those about its parts |
| `Crc` | `crc_ccitt()` and its tables |
| `StateFile` | the text of the state file, written, cut and read back |
| `MCStateFile` | its instance, with the checksums of `Crc` |
| `StateFileProofs` | theorems about `StateFile` |
| `Config` | what `norcom2kv.conf` decides |
| `Main` | processes: start, pid file, timers, signals; uses `Config` |
| `MCMain` | its instance |
| `MainProofs` | theorems about `Main` |

Definitions whose name ends in `_Slip` are not part of a specification. Each is
a plausible slip in the code (a dropped reset, an off-by-one, a missing guard);
putting it in the place of the definition behind it makes a property fail.
`PROJECT.json` lists them under `mutants`.

### Collector

A file in `synopdir` is an mtime and a sequence of chunks; a chunk is what one
write put there, named by its number, so that "the same bytes" never happens by
chance. `info` is `fileInfoList`, `tmp` the copies its entries name, `saved`
the state file. Every call that looks at or changes a file is a step: one
`stat` of the listing (`ListFile`), one visit of the loop over it (`NewEntry`,
`NewMtime`, `SeenFirst`, `SeenCollected`, `StartCopy`), one chunk copied
(`CopyRead`), the `stat` after the copy (`CopyVerified`, `ChangedAfterCopy`,
`GoneAfterCopy`), the extraction of a new part (`Collect`), one chunk handed on
(`Hand`), one line of the state file (`SaveLine`). Between any two of them
writers may write, cut, truncate, touch or delete files (`Environment`), a
SIGTERM may set the flag, the process may be killed (`Crash`), and a call may
fail. `Call` names the calls that may: the directory cannot be opened
(`OpenFails`, the scan is skipped); the `stat` of a file that is there fails in
the listing (`ListFile`: it is left out, and `EraseGone` forgets its offset) or
in `mtimeNow()` (`StatThrows`, in `NewMtime` and `GoneAfterCopy`: its entry is
erased as if the file had gone); `copyfile` (`CopyFails`), the read of a copy
(`ReadFails`), its `stat` (`StatFails`), a write of the state file
(`SaveFails`).

A failing read leaves an entry that names a copy which is gone (`Stale`).
`copyFile()` is called for entries that are seen when a scan begins; this one is
always reset before, by the next failing read, and a new mtime of the file
resets `seen` and `collected` but not the name of the copy. So the file is not
collected again, whatever is written to it, until its entry is erased (the file
is deleted, or a `stat` of it fails) or the daemon ends: `StaleStays`.

The clock counts seconds up to `MaxNow`, which stands for all later times: a
scan is always due there, and writers stop one second before. Without such an
end either the clock or the mtimes would grow for ever; with it, what is
written in the last second a writer has is still seen by two scans with a
later time, as in reality. Here the clock does not go back; `Main` has a clock
that does.

`Crc` is a parameter. `CrcAssumption` says what the collector relies on: of two
contents of one length that files really have, the checksum tells them apart.
A 16 bit sum cannot do this for all contents; the collision is the one risk
left out. `MCCollector` uses a sum by position, for which TLC checks the
assumption on every run.

### Delivery

A message is one text sent with one decoder name. `sendDataToKvalobs()` is a
step for each server: `Answer` (any code; `settled` grows with OK and with the
refusals) or `NoAnswer` (the call or its answer is lost, so the server may have
stored the message). The result kept is that of the last server that answered.
`NewSent`, `Save`, `SaveCut` and `NotSaved` are what `sendWMORaport()` and
`writeFile()` make of it, `SavedSent` what the resend loop does. `files` is
`data2kv`; a file has all of its text, part of it (`cut`), or not even its
first line (`headless`), since stdio writes at `fclose()`, and a kill or a full
disk at that point leaves any of them. `handed` and `accepted` are the part of
`fileInfoList` and of the state file that matters here: which messages are
counted as handed on. A kill or a failure while the state file is written
leaves any part of it.

`TakeNew` takes the messages of one file, once each in a process; that the
collector may take a file again (after a failing copy) only adds duplicates,
which `AtLeastOnce` allows. SIGTERM ends both loops where they look at the
flag, between two files, and not between two messages.

### WmoScanner

One character a step, over the alphabet of the marks, the line ends, one
character for digits and the blank, and one for everything else but NUL. The
flags of the stream are part of the state: `get()` at the end sets eofbit and
failbit and leaves the character alone, `putback()` clears eofbit only, a
`get()` on a failed stream sets no eofbit. All that goes wrong at the end of a
stream comes from that. The line with ZCZC, which BUFR bulletins carry along,
is left out. The transcription was compared with the compiled functions on 1500
random inputs made of marks, parts of marks and single characters, with their
outputs and with whether they return: no difference.

`AllExtracted` compares what comes out with the bulletins the files were built
from, so it is about files that are built well. `IsFramed` says what that is: the
places of ZCZC, of the bulletin, of the line ends and of NNNN follow each other
(`IsFrame`); in front of a frame nothing could be the beginning of a ZCZC; a
bulletin has no end mark in it; behind the last frame no end mark is followed by
a line end, so that there may be half a bulletin, or anything else that is not a
whole one. `NothingInvented` is about any
file, whole or not: each bulletin passed on is a piece of the file that begins
behind a line end and has an end mark behind it, and between the two nothing
was erased but line ends and Ns. It does not say that the right pieces are
chosen.

### ReportSplitter

One call of `skipEmptyLines` or `getline`, or one report taken by `doSYNOP` or
`doMETAR`, a step. A text is a sequence of groups, "=", line ends and signs: a
sign stands for any character that ends the first line of a report. At the end
of the stream `skipEmptyLines` takes the last character again (`Again`). The
identifier regexps work on groups (`SynopIdent` takes AAXX, a number and a word
of the same line, as `synopType` does). Six of the nine types of bulletins are
not implemented in the code; `TEMP` and `PILO` stand for them, one collected
and one not. The transcription was compared with the functions, with
`std::regex` in the place of Boost's, on 5000 random bulletins: no difference.

`AllReports` compares what is passed on with the reports the bulletins were
built from. `file.parts` is not a variable of the code: it says how a bulletin is
made up of pieces, one for each call of `readReport()`, and only `AreWellFormed`
and the invariant behind `AllReports` look at it. Well formed means: no sign in
the header nor in the first line of a piece (`SplitterSign` shows what one does
there), and no last report without "=" in a single line, which `skipEmptyLines`
would end with a character too many. What is behind an "=" in its line, empty
lines, NIL and mobile reports, reports in front of any identifier, and bulletins
that are not collected or not implemented, whatever is in them, are all allowed.
`NoneGlued` is about any bulletin: what `doSYNOP` and `doMETAR`
pass on is not empty, has an "=" at its end if it has one at all, and no line
end at either end.

### Norcom2kv

`run()` is one thread, and both parts are in it: `Norcom2kv` extends
`Collector` and takes `Delivery` in by `INSTANCE`, with a chunk of an
observation file for a message. The new part being sent (`part`, `left`), the
flag of SIGTERM and the bounds are the same variables; what `Delivery` keeps as
`handed` and `accepted` is here the business of the collector, with offsets,
crcs and the state file line by line. `CollectPart` ends in `D!TakePart`,
`SendChunk` is `Hand` and `SendNew`, and the collector goes on when the answers
are in (`NothingOnItsWay`). `Round` is the pair of tests at the top of the
loop, which use one reading of the clock; `Resend` is the second half of a
round; the first one is due at once (`LongAgo`). A `split()` that fails passes
nothing on, and is not in the model. Decoder names with a "/" (`Slashed`) and
`ignore_files_before_startup`, which hides files of `synopdir` and of `data2kv`
alike, are constants here as in the parts, and the theorems hold for any values
of them; the run has neither.
`lost` (history) is what could not be written to `data2kv`. The daemon as a
whole implements `AtLeastOnce` once more, now with `accepted` read off the
offsets and crcs of the state file (`Skipped`); what is `lost` counts as kept. `Safe` is what a server has settled,
what is in a whole file of `data2kv`, and what is `lost`. `SkippedIsSafe` is
about the state file, `CollectedIsSafe` about memory: `collectObservations()`
marks a file collected before anything of it is sent, and what it then holds
must be safe or still on its way.

### StateFile and Crc

`Collector` takes the lines of the state file as whole. `StateFile` has the
text: `SaveLine` appends `name:offset:crc`, `SaveCut` a part of it, after which
the stream stays bad; `GetLine` and `Groups` are `getline` and the regular
expression of `readFInfoList()`, whose first group takes as much as it can, so
that names may have colons; `Abort` is `lexical_cast` on what is not a number.
The files that still exist at a start are any. While the daemon runs, files are
found (`Notice`, an entry with offset 0), handed on (`Collect`) and erased
(`Forget`) in any order.

What the names and the contents are, and what the checksum is, are parameters.
`NamesAssumption` is what the text of a line cannot do without: no name goes on
behind another one with a colon and a number. The line of "synop:06" cut in the
right place is one of "synop", and the next start makes an entry for the wrong
file of it. `ChecksumAssumption` is that of `Collector` made a little stronger:
not even the first digits of a checksum in decimal are those of a beginning of
another content.

`MCStateFile` has the checksums of `Crc`, which is `crc_ccitt()` with its
tables. `TablesAreCcitt` compares them with the division by the polynomial bit
by bit; all pairs of bytes have different checksums, and a further byte keeps
them apart (`AdjacentChangesShow`).

### Config and Main

`Config` is pure: `getRaportConf()` (`Places` are those of the entries of a
type in "raports"), the first decoder of a type (`getDecoder`), and what of the configuration ends the process before it does
anything (`Starts`). `Main` has any number of processes. Each runs `InitLogger`
and the constructor of `App` (`Configure`), the test of the pid file (`Refuse`,
`Pass`), its creation, whose failure nobody notices (`Create`, `NotCreated`),
and the loop. `created` is the flag by which `PidFileHelper` knows whether to
unlink. Of the times in `run()` the ages are kept, up to `RESEND_DELAY`: what is
older is due anyway; `SetBack` makes them younger, below zero too. Before the
handlers are installed SIGTERM ends the process (`Terminated`), after that it
sets the flag.

## Runs

Passing runs:

| Run | Bounds | What it shows |
|---|---|---|
| `CollectorSafety` | one file, 3 operations, 5 s, 1 SIGTERM, 1 kill, 1 failing call of any of the seven kinds, `ignore_files_before_startup` on or off at each start | `TypeOK`, `CopyIntact`, `NothingMissed`, `PersistedIsHanded`, `OldIsLeftAlone`, `StaleStays`, and `IInv`, the invariant of the proofs |
| `CollectorOnce` | two files, append-only, 2 operations, 4 s, 1 SIGTERM, 1 kill, 2 failing calls of any kind | `RepeatsAreBounded`, and `RInv`, the invariant it is proved from |
| `DeliveryServers` | two messages, one never taken; two servers, 3 bad calls, 1 failing read, 1 SIGTERM, 1 kill | `TypeOK`, `NothingLost`, `ImplementsAtLeastOnce`, `EventuallyDrained`, and `DInv`, the invariant of the first proofs |
| `DeliveryDisk` | three messages, one whose name has a "/"; one server, 2 bad calls, 2 failing reads, writes, closes or saves, 1 SIGTERM, 2 kills, old files not listed | `LossIsBounded`, and `BInv`, the invariant it is proved from |
| `ScannerComplete` | 5448 files: two bulletins, the first with any body of up to three characters between two letters; and files with bodies of up to one character, cut anywhere but in or right behind a ZCZC line | `AllExtracted`, `NothingInvented`, `SplitReturns`, and `EInv`, the invariant of the proofs, with `TypeOK` in it; that all files are framed (`AllAreFramed`) |
| `SplitterComplete` | 8640 files: a SYNOP or METAR bulletin of two sections, the first with up to two reports, then bulletins of all types | `AllReports`, `NoneGlued`, and `PInv`, the invariant of the proofs, with `RInv` and `TypeOK` in it; that all files are well formed (`AllAreWellFormed`) |
| `Norcom2kv` | one append-only file, 2 operations, 4 s, resend every 2 s, one server, 2 bad answers, 1 failing call (`copyfile`, `stat` of a copy, a save of the state file, a read or a write in `data2kv`), 1 SIGTERM, 1 kill, no "/" in decoder names, old files listed | `SkippedIsSafe`, `CollectedIsSafe`, `ImplementsAtLeastOnce`, `EventuallySettled`, `EventuallyEmpty`, and `NInv`, the invariant of the proofs |
| `StateFile` | two files, one named like the other with a time behind it; three contents, up to three handed on; any number of saves, cuts, kills and starts | `SkipsOnlyHanded`, `WholeLinesComeBack`, `AbortsForACutOnly`, and `FInv`, the invariant of the proofs; `TablesAreCcitt` and `AdjacentChangesShow` for all bytes |
| `Main` | two processes, starts one after the other, delays 1 s and 2 s, a configuration that will do and five that will not, the clock set back by 1 s, 1 kill, any number of SIGTERMs and starts | `OneDaemon`, `CollectedHaveDecoders` (all lists of up to three entries), `BothTimersGoOff`, `SigTermEnds`, and `MInv`, the invariant of the proofs |

Why these bounds are enough: an operation of a writer interacts with at most
one visit of a file, one copy and one save; three operations put one into each
of the windows listing/copy, copy/`stat`, collect/next scan, and five seconds
are a scan that finds the file, one that sees it again, one that copies it, one
after that, and one to spare; four are enough for a part that is handed on and
one that follows it, for at `MaxNow` a scan is always due. Files interact
only through the loops over them and the state file: the safety properties are
checked for one file and proved for any number, and `CollectorOnce` has two,
which are alike in every way and may be exchanged (`FileSymmetry`).
Two failing calls and a kill are what it takes to see that each repeats a
chunk once and not at every scan after it. In `Delivery`, three bad calls make both
servers fail in one send and one of them again in the resend; one kill or
SIGTERM falls at every step; two messages are one that blocks and one behind
it. In `DeliveryDisk` two messages can be saved, so that one failing call could
lose two. In the scanner, a body of three characters with the frame around it reaches
every part of both marks next to every other character, and the bodies of
`AlmostMarked` are end marks that lack something. In the splitter two sections
are what a report needs to come under the wrong identifier, and a bulletin
behind it what an identifier or a skip needs to be carried over. In
`Norcom2kv` two operations are a part handed on and one that follows it, so
that an offset and a crc matter (truncations are in `CollectorSafety`), or two
writes with a scan between them, of which the second makes the file a new one
for the next scan; a read of a copy does not fail there, for
`EventuallySettled` does not hold behind one; two bad
answers are a send and a resend that fail; with a resend delay above the scan
delay there are rounds of all four kinds. In `StateFile` two lines are
one that is cut and one in front of it, and the shorter of two names that share
their beginning is what a cut line could be taken for. In `Main` two processes
are a daemon and one that comes too early; a clock set back by one second is
enough to make an age negative.

Runs that find the code at variance with what its comments say (`findings` in
`PROJECT.json` quotes them):

| Run | What it shows |
|---|---|
| `CollectorReadFailure` | after one failing read of a copy the daemon announces, and tries to collect from, a copy that is gone (`CollectWmoReports.cc` 751-753: "A copy of the file is: ...") |
| `ScannerHeaderOnly` | a file that ends behind a ZCZC line makes `findZCZC()` loop for ever |
| `SplitterSign` | of a METAR of one line with light rain, "-RA", the sign is dropped |

More came up that have no run of their own. `sendDataToKvalobs()` returns the
result of the last server that answered: a server whose call failed never gets
the message if the last one takes it, and no file is kept for it
(`App.cc` 343-352; `test_norcom2kv.conf` line 14 speaks of "Which kvalobs
servers shall we send observations to."). A last bulletin without NNNN is
dropped without a word: `get()` fails before the loop tests `eof()`, and lines
632-642 of `WMORaport.cc`, which would "pretend the end mark is found", are
never reached (`CutFiles` has such files, and expects no more of them).
`InitLogger()` reads the configuration (`InitLogger.cc` 58) before `App` can
report that there is none (`App.cc` 223-226), and opens the log file before
`App` makes `logdir`: `LoggerStarts` is false for both. `main()` does not look
at the result of `createPidFile()`. Nobody calls `App::options()`, so that
`--test` does nothing. `logdir/norcom2kv/`, where parts that cannot be split
are to be saved, is made by nobody. A type whose decoder is blank is collected,
and its reports dropped. A state file cut behind a second colon ends the daemon
at this and every later start. `sendDataToKvalobs()` catches every
exception, so that the resend loop never breaks off when the servers are down
(`App.h` 77-80 and `CollectWmoReports.cc` 342-343 say it does). `writeFile()`
does not look at the result of `fclose()` and names a file that is not whole
(`CollectWmoReports.h` 82-85; `LossIsBounded` counts it as a fault). Of
"ZZCZC" `findZCZC()` skips the second Z, so that a bulletin right behind a Z is
not found (`WMORaport.cc` 541-543), which is why `Between` has no such text;
an N at the end of a body is erased with the end mark (547-549), so `Bodies` end
with another character. Of a last report of one line without "=" the last
character is doubled, so the last reports in `MCReportSplitter` have an "=" or
a second line; and the first report of a SYNOP must not be in the line of AAXX,
or its station becomes a part of the identifier. The hazards in `PROJECT.json`
give the lines.

`ScannerHeaderOnly` is where scanner and collector
meet: the collector takes a file that was quiet for two scans, and nothing
makes its writer stop at the end of a bulletin. A bulletin cut there is lost,
for its second half comes without ZCZC in the next part.

### Fairness

`Norcom2kv` assumes the least: weak fairness of the daemon as a whole and of
the clock. The process is scheduled; that it is started again when it has ended
is an assumption on whoever operates it (`docker/entrypoint.sh` makes it the
one process of a container, to be restarted with it; nothing in the repository
restarts it). Which branch of `run()` is taken follows from the timers. Nothing
is assumed of the writers, of SIGTERM or of failures, which bounds limit: "a
call fails for a while". That servers answer OK in the end, except for a
message that is never taken, is the bound `MaxBad`.

`Collector` alone assumes the same. `Delivery` alone has no clock, and assumes
strong fairness of `SomeNew` and `StartResend`, the two branches of the main
loop; that each of them is taken again and again is what `BothTimersGoOff`
shows, and what `EventuallyEmpty` needs in `Norcom2kv`, where it is not
assumed. `Main`: weak fairness of each process's steps, scans and resends among
them, and of the clock; starts, signals and kills may come or not.
`WmoScanner`: weak fairness of the function's steps.

## Proofs

Each module of proofs has the inductive invariant as a theorem of its own
(`Inductive`, `RepeatsInductive`, `Invariant`, `LossesAreCounted`,
`OffsetsAreSafe`, `PartsFitTogether`, `ScanInductive`, `SplitInductive`,
`FInvCorrect`, `ExtractInductive`, `PidFileIsKept`), and the properties as its consequences. TLC checks each of
these invariants in one of the runs.

### The collector

`CollectorProofs` proves, for any set of files, any bounds, any checksum that
satisfies `CrcAssumption` and any setting of the switches:

- `TypeCorrect`: `Spec => []TypeOK`;
- `Inductive`: `Spec => []IInv`, and from it `CopiesAreIntact`,
  `NothingIsMissed`, `RestartSkipsNothing`, `OldFilesAreLeftAlone`:
  `Spec => []CopyIntact`, `[]NothingMissed`, `[]PersistedIsHanded`,
  `[]OldIsLeftAlone`, if copies are unlinked or no read of a copy fails
  (`NoStaleCopy`). In debug mode a copy that could not be read stays, and may
  be collected later in place of the file;
- `StaleIsForever`: `Spec => StaleStays`, without that condition.

None of the four properties is inductive. The invariant is `IInv`, the
conjunction of `TypeInv` (types, and what each loop goes over), `Timing`,
`Copying`, `Covering`, `LeftAlone` and `Trapped`; `CollectorSafety` checks it
with TLC.

`Timing` is why mtimes of one second are enough. An entry is `seen` only when a
scan finds it with the mtime of the entry, and copied only by a later scan, at
least `Delay >= 1` seconds after: by then its mtime is before the second of the
scan, and any further write gives the file another one (`Old`). `Copying`
builds on it: as long as the file has the mtime of its entry it has not changed
since before the copy began, so what is copied so far is a prefix, and the
finished copy the file. `Covering` says what offsets and crcs vouch for: every
content of that length and crc consists of chunks handed on, or of the part
being handed on. `CrcAssumption` gives it for the content just read
(`VouchForAll`), and it makes the prefix `getNewObsPart()` skips harmless
(`SkippedIsVouchedFor`). `LeftAlone` says that the file being copied has the
mtime of the listing; that `mtimeNow()` may give an entry an old mtime does no
harm, because by `Copying` the file has no copy then, and the entry is no longer
collected. `Trapped` is what `StaleStays` needs: wherever a scan could call
`copyFile()` for an entry whose copy is gone, that entry is not seen. Each
conjunct has its step lemma (`TypeInvStep`, `TimingStep`, `CopyingStep`,
`CoveringStep`, `LeftAloneStep`, `TrappedStep`), with one step for each action.

`RepeatsProofs` proves `RepeatsInductive` and `RepeatsAreFew`,
`Spec => []RInv` and `Spec => []RepeatsAreBounded`, for any number of files,
writers, restarts, kills and failing calls, under `OnlyGrow`:

- `AppendOnly`: of a file that is overwritten the crc no longer matches, and it
  is collected from its beginning, as often as it is overwritten;
- no start hides files (`ignore_files_before_startup`): an entry whose file is
  not listed is erased with its offset, and a hidden file that is written to
  again would be collected from its beginning;
- `NoStaleCopy`, as above.

`RInv` has three parts besides `IInv`. `WrittenOnce`: a chunk is in one place of
one file, a copy is a prefix of the file, and nothing behind it was handed on.
`OffsetsFit`: whatever content has the offset and crc of an entry or of a line
of the state file is a prefix of the file, and of its copy, for a file that
grows keeps what is in front. `Counting`: a chunk that was handed on is either
in front of such an offset, so that `getNewObsPart()` skips it, or a kill or a
failing call has happened that it was not repeated for yet (`Spare`). SIGTERM
and a restart trade what entries cover for what lines cover; a kill or a failing
call makes one to spare for every chunk.

### Sending

`DeliveryProofs` proves, for any set of messages, any number of servers and any
bounds:

- `TypeCorrect`: `Spec => []TypeOK`;
- `Invariant`, `NothingIsLost` and `Implements`: `Spec => []DInv`,
  `Spec => []NothingLost` and `Spec => ImplementsAtLeastOnce`, if no write to data2kv fails and no decoder
  name has a "/" in it (`NoLossyFault`); failing reads and failing saves of the
  state file are allowed;
- `LossesAreCounted` and `LossBound`: `Spec => []BInv` and
  `Spec => []LossIsBounded`, with any failures at all.

All rest on `JobInv`, what is known of the one message being sent: a result
that does not ask for another try means that a server has settled it, even if
the call of a later server failed, and its saved file is still there. So a file
is unlinked only when its message is settled or when the file is not whole
(`SavedSentReleases`). `StepKinds` says what a step, whatever fails, can do to
the three variables of `AtLeastOnce`; `StepRefines` and `StepKeeps` follow from
it. `NothingLost` needs to know of `handed`, too, which becomes `accepted` at
the next save: `LossInv` says that what is handed on is settled, kept, or
`Waiting` in memory. With failing writes that is not so, and `LostInv` bounds
what is none of these (`Lost`). It also says that nothing that waits is in the
state file yet, which is why a kill loses none of it: it is read again.

### The daemon

`Norcom2kvProofs` proves about both parts together, for any values of the
constants that the assumptions of the modules allow:

- `OffsetsAreSafe` and `NothingSkippedIsLost`: `AllSpec => []SafeInv` and
  `AllSpec => []SkippedIsSafe`, whatever calls fail and wherever the daemon is
  killed;
- `DaemonImplements`: `AllSpec => ImplementsAtLeastOnce`;
- `PartsFitTogether` and `NothingCollectedIsLost`: `AllSpec => []NInv` and
  `AllSpec => []CollectedIsSafe`, under `NoStaleCopy`.

The proof does not begin again. `DP` is `DeliveryProofs` with the constants and
variables that `Norcom2kv` gives `Delivery`, and what it assumes of them is a
lemma (`DeliveryIsInstantiated`); so its lemmas about `JobInv`, and about what
a step can do to settled, kept and lost messages, hold of the daemon. Each step
of the daemon is a step of `Collector` or leaves its variables alone, and it is
a step of `Delivery`, leaves it alone, or is `D!TakePart`. In `Collector` alone
an offset vouches for chunks that were handed on or are about to be; here
`SafeInv` has offsets in memory vouch for what is `Safe` or waiting to be sent,
and lines of the state file for what is `Safe`. The two meet where a line is
written: `SaveLine` comes only when nothing waits. Nothing leaves `Safe`, which
is what `AtLeastOnce` asks for, and a kill loses what waits together with the
offsets in front of it.

### Scanner and splitter

`WmoScannerProofs` proves for any set of files, whole or not:

- `ScanInductive`: `Spec => []SInv`;
- `TypeCorrect` and `BulletinsAreOfTheFile`: `Spec => []TypeOK` and
  `Spec => []NothingInvented`;

and for any set of files of framed bulletins, whole or cut short anywhere
(`AllFramed`, which `MCWmoScanner` assumes of its files, for TLC to check):

- `ExtractInductive` and `BulletinsComeOut`: `AllFramed /\ Spec => []EInv` and
  `AllFramed /\ Spec => []AllExtracted`.

`SInv` says that `ost` is the piece of the file read since a line end
(`IsRead`); that its last `count` characters are line ends and Ns
(`Erasable`), its last `iNNN` of them Ns (`Counted`); and, once the mark is
found, that four Ns are among them (`Marked`). Then erasing them leaves a piece
of the file with an end mark behind. `EInv` adds the place: `Extracting` says
that the bulletins of the frames behind the scanner are passed on and that it is
somewhere in the next one, with the counters it must have there (`SearchFits`,
`BodyFits`, `TailFits`), or behind the last one (`BehindFrames`). What the
counters are inside a bulletin depends on its text; all that is needed there is
what they stand for (`CountersFit`): NNNN behind three line ends, with nothing
but line ends and Ns in between, would be an end mark (`FoundIsEndMark`). `FrameStep`
and `BehindStep` have one case for each action.

`ReportSplitterProofs` proves for any bulletins and any kinds to collect:

- `SplitInductive`: `Spec => []RInv`;
- `TypeCorrect` and `OneReportEach`: `Spec => []TypeOK` and
  `Spec => []NoneGlued`;

and for any number of well-formed bulletins, pieces and lines (`AllWellFormed`,
which `MCReportSplitter` assumes of its files, for TLC to check):

- `PiecesInductive` and `ReportsComeOut`:
  `AllWellFormed /\ Spec => [](PInv /\ AreWellFormed(file))` and
  `AllWellFormed /\ Spec => []AllReports`.

The lemmas of `RInv` say where `SelectInSeq` and `SelectLastInSeq` find a group
(`FirstOf`, `LastOf`), and what `SkipLineEnds`, `Trim`, `SkipEmptyLines` and
`GetLine` leave of a text. `LineAdded` is the heart of it: while `readReport()`
goes on there is no "=" in what it has, and when it stops the first "=" of the
last line is the end.

`PInv` adds the place, as `EInv` does in the scanner. `BehindPieces(f, n)`: the
reports of the first n pieces, and of the bulletins before, are passed on
(`PassedOn`), `ident` and `skip` are what the n-th piece leaves, and the text that
is left begins with the next piece, or `readReport()` has the lines of that up to
one of them (`LinesFit`), or has all of it. `FirstLineOfPiece`, `NextLineOfPiece`
and `LastLineOfPiece` are what a step of `readReport()` does to a piece,
`ReportOfPiece` what is behind its identifier when line ends are trimmed, and
`PassedOnNext` what pushing a report does to the counts by identifier. Between
two bulletins no empty identifier is left (`NoReportEnds`). The attempt found
that two branches of `SkipEmptyLines` overlapped, for a text that has nothing but
line ends; they are one `IF` now.

### The state file

`StateFileProofs` proves, for any names, contents and checksum that the
assumptions of `StateFile` allow, any number of files and starts, and a disk
that is full at any character:

- `FInvCorrect`: `Spec => []FInv`, and of its parts by themselves
  `EntriesCorrect`, `Spec => []EntriesOfHanded`, and `AbortsCorrect`,
  `Spec => []AbortsForACutOnly`;
- `SkipsCorrect` and `WholeLinesCorrect`: `Spec => []SkipsOnlyHanded` and
  `Spec => []WholeLinesComeBack`.

`LinesOfTold` is the heart of `FInv`: the text is made of the whole lines of the
entries there were when the save began (`told`), and of at most one cut line,
which is the last. `ReadsOn` keeps the reading at the beginning of a line, with
every whole line back in memory or still to come. What the regular expression
makes of a line follows from `GroupsOfLine`: of a whole line, exactly the entry
that was written, and of one that lacks digits of the crc only, an entry of the
same name that vouches for no more (`ReadsAsWritten`); any other cut line names
no file that exists, or has something in the place of a number that
`lexical_cast` refuses (`FailsAsCut`).
`NamesAssumption` is used there, `ChecksumAssumption` only in `SkipsCorrect`,
to conclude from digits to contents.

`Decimal` and `Number` are recursive functions, and what they compute is an
induction over data. The library's theorem for that takes an operator as a
parameter; `StateFileProofs` has the principle as a fact about sets of numbers
instead: a set of naturals that is not empty has a least member (`FirstOf`, from
`WFMin` and `NatLessThanWellFounded`). `Recursion` derives from it that a
function defined by recursion exists, and `NumberOfDecimal` that reading a
number takes back what writing it did.

### Processes

`MainProofs` proves, for any number of processes, any delays and bounds, and
any configurations:

- `TypeCorrect`: `Spec => []TypeOK`, with the ages of the timers in their range
  however the clock is set back (`AgesInv`);
- `PidFileIsKept` and `OnlyOneDaemon`: `Serialized /\ Spec => []MInv` and
  `Serialized /\ Spec => []OneDaemon`. `PidInv` is what makes
  it inductive: while a process is between the test and the creation no other
  one is, and the pid file names the process that created it as long as that
  one runs. Two starts that overlap break it, as they do in reality;
- `DecodersAreFound`: `Spec => []CollectedHaveDecoders`, for any "raports": a
  daemon that runs collects something, and of a collected type `getDecoder()`
  finds none only if its first entry has a blank one (`DecoderIsEmpty`).

### Only model-checked

- `TablesAreCcitt` and `AdjacentChangesShow`: `Crc` uses `Bitwise`, which is out
  of the prover's reach; for bytes the run of `StateFile` is exhaustive.
- Liveness: `EventuallySettled`, `EventuallyEmpty`, `EventuallyDrained`,
  `BothTimersGoOff`, `SigTermEnds`, `SplitReturns`.

## Not modelled

- NUL characters in the scanner's input, and CRC collisions, but for what
  `AdjacentChangesShow` says.
- Names of files of which one goes on behind the other with a colon and a number
  ("synop" and "synop:06"): `NamesAssumption` of `StateFile`.
- Two daemons whose starts overlap: both run (`norcom2kv.cc` 73-87).
- The 10000 names that `writeFile()` tries within one second.
- Test mode (`--test`), which nothing switches on; log levels and logging;
  defaults of directories; the overload of `crc_ccitt()` for `char*`, which
  nothing calls.
- How long a call of a server takes.
- A listing of `data2kv` that fails, in whole or for one file: the files are
  sent at a later resend. A `stat` or an open that fails at a start, in
  `readFInfoList()`: entries are missing then, as after a state file cut short.
- A file that its writers touch between any two scans for ever: it is never
  collected, which is what the test for a quiet file means to do.

## Plan

Done: all modules above, and their proofs.

What may still be proved:

1. that `Delivery` with any failures implements `AtLeastOnce` when what a
   failing write loses counts as kept, as `DaemonImplements` says it of the
   whole;
2. action properties of the composed daemon from `NInv`: which steps may move
   an offset of the state file, and which may remove a file of `data2kv`;
3. that the scanner's position never goes back, and that of two bulletins the
   one passed on first is the one in front.
