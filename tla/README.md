# TLA+ models of vhdx-forensic

vhdx-forensic is a Rust workspace that reads Microsoft VHDX disk images without trusting
them (`core`), looks for signs of damage or tampering in the raw bytes (`forensic`,
`VhdxIntegrity`), and can write a repaired copy (`VhdxRepair`). This directory holds TLA+
modules of the parts of it that have state and control worth checking, the TLC runs that check
them on small instances, and proofs, checked by TLAPS, of what matters most for every instance.
`PROJECT.json` has the lists: components, runs, mutants, the source lines behind every
definition, hazards, disagreements found, and theorems.

To check a run: `tlc -config MCVhdxReader.cfg MCVhdxReader`. To check the proofs:
`tlapm LogReplayProofs.tla`, and likewise `DataLemmas`, `VhdxReaderProofs`, `VhdxBackingProofs`,
`VhdxSourceProofs`, `VhdxReopenProofs`, `VhdxReopenViews` and `VhdxFindingsProofs`.

## The system

| Component | State it keeps | Operations | Talks to | What makes it correct |
|---|---|---|---|---|
| Log replay, `core/src/log.rs` | the image buffer (in-RAM open), or a list of runs (`LogOverlay`) | walk the log region, replay entries by sequence number, `patch` a read | the header; every read of the container | both ways of opening show the committed container; every log makes the open end |
| Block table and bitmaps, `bat.rs`, `metadata.rs` | entries, geometry | where a virtual byte lives | the reader | a sector has one entry, one bitmap bit, and they are its own |
| `VhdxReader`, `reader.rs` | position, parent | `read`, `seek`, open with or without a parent | its `Backing`, its parent (another reader, by `seek` and `read_exact`) | a fixed disk of bytes with a position; nothing moves on an error |
| `Backing`, `backing.rs` | `File`, `Sub`, `Mem`; or `Reader` with a lock and a cursor | positioned reads | the medium | the bytes of the range, cut at the end |
| `VhdxSource`, `vfs.rs` | a mutex around one reader | `read_at` from any thread | the reader: seek, then reads | every call gets the bytes of its own range; no call blocks for ever |
| Headers and region tables, `header.rs`, `region.rs` | two copies of each | choose one | reader, analyser, repair | all three mean the same copy |
| `VhdxIntegrity`, `integrity.rs` | none: bytes in, findings out | `analyse` and its layers | repair | findings agree with what the reader does with the same bytes |
| `VhdxRepair`, `repair.rs` | a copy of the bytes | `attempt_repair` | `VhdxIntegrity`, once, before the edits | edits only what is damaged, and a second repair has nothing to do |
| CRC-32C, byte access, errors, codes and texts of findings, command line, fuzz target, examples | none | pure functions, output | | not modelled |

### What is hard in it

* **One image, two ways to replay.** The in-RAM path rewrites a buffer; the bounded path keeps
  runs and lays them over each positioned read. Two loops, four places where a descriptor is
  decoded, and one promise: the same bytes.
* **A read is a loop in a loop.** A chunk ends at whichever comes first of the buffer, the disk,
  the block, and the run of sectors with one owner in one bitmap byte; and a chunk that belongs
  to the parent is a `read_exact` on a reader with other blocks, other runs, another length, and
  a position that earlier calls have moved.
* **Threads.** `VhdxSource` makes two calls (seek, reads) on one shared position. Below it
  `Backing::Reader` has a lock of its own, a cursor, and reads that return less than asked. A
  panic poisons whichever locks are held.
* **Failure in the middle.** A read that fails after its first chunk; an interrupted read, which
  `read_exact` starts again; an edit of repair that is the last one before the bytes are looked at.
* **Decisions made twice.** Reader and analyser choose headers and region tables, parse metadata
  and index the table in separate code, and repair edits where the analyser, not the reader, looks.
* **Findings as of before the edits.** Repair acts on a list taken once.

Nothing is written to disk by this code, so there is no crash recovery in it other than the
replay of a log some other program left; and no timers.

## Modules

| Module | Models |
|---|---|
| `VhdxLog` | a log: framing, what may be replayed; and, with no loop at all, the bytes of the container once it is committed (`CommittedByte`: of the writes that cover a cell, `Covering`, the `LastOf` them) |
| `LogReplay` | opening a container and its positioned reads, step by step |
| `CommittedImage` | abstract: closed, then open or refused, and reads of committed bytes |
| `LogReplayProofs` | theorems about `LogReplay`, that it implements `CommittedImage`, and about `LogAudit` |
| `LogAudit` | the analyser's walk over the same log, beside the replay's |
| `VhdxBat` | operators of the block table: indexes, bitmap bits, where a byte lives, `validate` |
| `VirtualDisk` | abstract: a disk of bytes, sector by sector over a chain, with a position |
| `VhdxReader` | `Read` and `Seek` over a chain of images |
| `VhdxReaderProofs` | theorems about `VhdxReader` and the arithmetic of `VhdxBat`, and that the reader implements `VirtualDisk` |
| `VhdxBacking` | positioned reads of the four backings over a medium that changes its length, and `read_region` |
| `VhdxBackingProofs` | theorems about `VhdxBacking` |
| `ImageSource` | abstract: positioned reads by threads |
| `VhdxSource` | the reader shared by threads, down to the backing's lock |
| `VhdxSourceProofs` | theorems about `VhdxSource`, and that it implements `ImageSource` |
| `VhdxContainer` | an image as reader and analyser see it: copies of header and region table, table entries, what each makes of them |
| `VhdxRepair` | `attempt_repair`, edit by edit, over `VhdxContainer` |
| `VhdxOpen` | `parse_bytes`, `parse_backing` and `assemble`: both ways of opening an image of `VhdxContainer` with a log |
| `VhdxReopen` | `VhdxRepair` and then `VhdxOpen`: bytes that are opened before or after a repair |
| `VhdxReopenProofs` | theorems about repair and about opening: `VhdxRepair`, `VhdxOpen`, `VhdxReopen` |
| `VhdxReopenViews` | theorems about what a reader sees before and after a repair |
| `DataLemmas` | facts the proofs share: induction over a finite set, division, concatenations |
| `VhdxFindings` | the analyser's layers for layout, metadata, table, trailing and ghost data, against the reader's acceptance of the same image |
| `VhdxFindingsProofs` | theorems about `VhdxFindings` |

They compose by `EXTENDS` where one uses the operators of another (`LogAudit` runs with the steps
of `LogReplay`, `VhdxReopen` with those of `VhdxRepair`), by `INSTANCE` where one opens the bytes
another has edited (`VhdxReopen` gives `VhdxOpen` the image of the repair), and by refinement:
`VhdxSource` uses the reader as a position and bytes, which is what `VhdxReader` is shown to be
by implementing `VirtualDisk`; `VhdxReader` takes the bytes of a container as committed ones,
which is what `LogReplay` is shown to give by implementing `CommittedImage`.

### LogReplay

The header and the log are chosen at the start; the rest is what `VhdxReader::parse_backing`,
`build_overlay`, `apply` and `LogOverlay::patch` do. `entries` is the list `collect_entries`
builds, `pos` its place in the region. Both replays advance together, one descriptor to a step:
`data` is the buffer of the in-RAM path (`apply_entry`), `runs` the overlay (`overlay_entry`).
`CollectEntry`, `SkipEntry` and `EndWalk` are the branches of the walk; `DataDescriptor`,
`ZeroDescriptor` and `OtherDescriptor` the branches on a descriptor's signature; `OverrunEntry`
is the panic of a slice past the entry's end, which both paths have. Two more ends are of one path
alone: where the end of a data sector is no offset of 64 bits (`OffsetEnd`) the in-RAM path panics,
and where a run of zeros is longer than what can be allocated (`MaxAlloc`) the bounded one does.
`live` has the paths that go on, and the open is `panicked` when none does; of a path that has
ended, nothing is claimed. A positioned read is `StartRead`, one `PatchRun`
for each run, and `FinishRead`.

Unit of length: a cell. A data sector is `SectorLen` cells (4096 bytes in the code), a slot of
the log the same; an entry is as many slots as it declares. The bytes of an entry are abstract:
its checksum is right or not, its descriptors are a list.

### LogAudit

`CheckHeaders` is what `check_headers` says of the active header and its log, the return of
`analyse` before the log when both region tables are bad (`tables`), and the early
returns of `check_log`; `EndCheckLog`, `CheckBadEntry` and `CheckGoodEntry` are the branches of
the loop of `check_log`, with `place` and `prev` for its `pos` and `prev_seq`. Numbers wrap at
`MaxSeq`, as `wrapping_add` does at 2^64 - 1. The steps of `LogReplay` on the same log follow, so
that a property can compare what was reported with what opening then did.

### VhdxReader and VirtualDisk

`posn[l]` is the position of the `l`-th reader of the chain, `level` the reader whose `read` is
running, `frame[l]` its progress: `want` and `written` are `to_read` and `written` of its loop,
`need` and `have` the buffer the child gave to `read_exact`. One action is one iteration of the
loop by what the sector's place turns out to be: `ReadFileChunk`, `FillZeros`, `AskParent`
(seek, then `read_exact`), `FailChunk`. `MediumFault` is an I/O error of the container,
`Interrupted` one of kind `Interrupted` inside a parent's read, which `read_exact` answers by
calling `read` again. `ReturnToChild` completes a `read_exact`, `ReadOn` is its next `read`,
`ParentTooShort` its `UnexpectedEof`.

`seek` computes with `i64`: positions are cast, and the sum wraps, as in a build without
overflow checks. In a debug build the same sum would panic; that outcome is left out.

`VirtualDisk` knows of no block, run or loop. Each byte has an owner, the nearest image that
describes it; a read gives the bytes or fails and moves nothing.

### VhdxBacking

`kind` is the variant, `len` what it was told or measured, `size` the length of the medium now:
anyone may change it at any point (`Resize`), which is what the file system allows for a `File`
and a `Sub`. The byte at address x is x. A call is `Call` (`read_at`) or `CallRegion`
(`read_region`, after it asked for the length), then `ReadSome` for each short read of `pread` or
of the boxed reader, `ReadEnd` for `Ok(0)`, `CopyMem`, `Interrupted` (retried by `pread`, passed
on by the loop over a boxed reader) and `Broken`; `Return` ends it, with the test of `read_region`
on what it got. Threads, and the lock of the boxed reader, are in `VhdxSource`.

### VhdxSource and ImageSource

One `read_at` per thread at a time: `Call`, `ReturnEmpty` (beyond the end), `Lock`,
`SeekReader`, then `StartRead` and `Return` around a loop of `ReadChunk` (a positioned
backing: one step) or `LockBacking`, `FillSome` (a short read, one or more cells) and
`FillReturns` (a boxed reader with a cursor). `ContainerFails` and `Panic` may come at every
read of the medium; `Abandon` is the unwinding that drops the guards. Bytes are addresses: a
byte from anywhere but the right place is wrong. `met` is history: the thread's own call met a
fault.

### VhdxContainer, VhdxRepair, VhdxOpen and VhdxReopen

An image is counted in units of 1 MiB, and a unit in words of 8 bytes. A word is what it says as
an entry of a block table, and what it is part of: unit 0 holds the file magic, the two headers and
the two region tables, one word for each; the first word of a unit may be metadata, or a log. A
table may lie anywhere a region table says, also upon these, so that an edit in the wrong place is
an edit of somebody's payload, and one in a worse place tears a header: a word that was edited is
no part of a structure any more. `Issues` is
`analyse` as far as repair acts on it: the findings on the checksums of the two pairs, and the
scan of the table. `Analyse` takes that list and the place of the table; each action after it
consumes one finding (`CopyHeader`, `CopyTable`, `ZeroEntry`, `ClearReserved`), and `Report`
ends the attempt and takes what is left. `View` is what the reader shows of a block, before,
between and after. `HeaderMismatches` and `TableMismatches` are the comparisons of the two copies.

`VhdxOpen` has one action for each structure that opening reads: `CheckFront`, `ReplayLog`,
`ChooseTable`, `ReadMetadata`, `ReadBat`, each for the in-RAM and the bounded path. In RAM the log
is written to `held` at once; the bounded path chooses its header from the bytes as they lie and
keeps `runs`, which are put over everything it reads afterwards. A log writes words here: a
header, a region table, the metadata, entries of the table, payload. How entries are found, and
the order of their writes, are the matter of `LogReplay`. `Committed` says without any steps what the
log makes of an image. `VhdxReopen` lets the bytes be opened before, or after each, attempt at a
repair; `repair.rs` knows nothing of the log, so a log may bring back what was repaired.

### VhdxFindings

`CheckLayout`, `CheckMetadata`, `CheckTable` and `CheckTrailing` are layers 3.5, 4, 5 and 6 of
`analyse`, `CheckGhosts` the opt-in search that repair adds to it; `TablePanics` is a division by
a chunk ratio of 0. The analyser takes values from the first `AnalyserItems` items of the metadata
(256 in the code) and compares the places of the first `ComparedItems` (2048). The unstable sorts choose any order of equal keys. `ReaderTakes` and
`AnalyserTakes` are the two parsers' tests on a metadata item, and `Accepted` is
`VhdxMetadata::validate`. Regions have cells, items have units of four bytes, and the value of an
item is what lies at its offset. `full` are the cells that are not all zeros.

## Runs

A safety run says `CHECK_DEADLOCK FALSE` where the modelled code ends: the open of an image that
is refused, a client that has used up its calls, the last attempt at a repair, the end of
`analyse`. `MCVhdxReader` and `MCVhdxBacking` never end, and are checked for deadlock. No run uses
symmetry: the values of most are numbers, whose order matters, and the others have temporal
properties.

| Run | Instance | Shows |
|---|---|---|
| `log_replay` (`MCLogReplay.cfg`) | container of 4 cells, sectors of 2, logs of 3 slots over 12 kinds of entry and a gap, 5 headers, region tables good or bad | `PathsAgree`: after every descriptor both paths, while both go on, show the same container. `ReadsAgree`: so does every patched read. `BufferIsCommitted`: the buffer is `CommittedByte`. `SkipsReported`: the analyser names just the entries the replay leaves out. `QuietLogInOrder`: a log it has nothing to say of is replayed as it lies. `OpenTerminates`. `PromiseKept`: the bounded path implements `CommittedImage` |
| `reader` (`MCVhdxReader.cfg`) | chains of one to three images, different block sizes, a parent shorter than its child, tables and containers cut short, every entry state, up to 2 faults in three of the chains | `CallsNest`: a parent is read where its child is. `ParentOnlyForAbsent`: it is asked only for what the child does not describe. `BitIsTheSectors`: a sector's bit is its own, and a bitmap byte never spans two blocks. `CallsReturn`. `ReaderIsDisk`: it implements `VirtualDisk` |
| `backing` (`MCVhdxBacking.cfg`) | 4 kinds, media of 0 to 4 bytes, reads that end before, at and past them, 2 faults, 2 changes of length | `OwnBytesOnly`: bytes of the own range, within the window. `ShortOnlyAtEnd`: short only where the container ended during the call. `RegionIsWhole`: the parsers never index a short region. `CallsReturn` |
| `source` (`MCVhdxSource.cfg`) | 2 threads, 2 calls each, both kinds of backing, 1 fault, 2 panics | `ReaderIsOwned`, `BackingUncontended`, `OwnBytes`, `FailuresAreOwn` (positioned backing), `CallsReturn`, `SourceIsPositioned`: it implements `ImageSource` |
| `repair` (`MCVhdxRepair.cfg`) | 9 header pairs with each of 10 table pairs, 8 kinds of entry in two slots, 3 fronts, 9 logs, children, tables upon unit 0, the log or the metadata, 2 attempts, both opens before and after each | `ChoiceKept`: no edit changes which header and regions a reader uses. `OnlyDamageChanges`: after every edit, blocks in place read as before, once the log is committed. `DamageIsTheLogs`: what is misplaced after a repair is the log's. `RepairIsStable`: a second attempt finds nothing. `QuietCopiesInterchange`: copies without a finding can stand in for each other. `PathsOpenAlike`: both opens accept the same bytes and show the same. `OpensCommitted`: they show the committed container |
| `findings` (`MCVhdxFindings.cfg`) | some 13,600 images: region tables, metadata tables, sizes, block tables, states, leftover bytes | `GeometryAgrees`: both parsers come to one geometry. `QuietMeansReadable`: an image without findings opens, and each of its blocks can be read. `CoverageBrackets`: the size finding is right to within one block. `SharedPlaceReported` and `ItemOverlapReported`: comparing neighbours loses nobody. `SlotsAgree`: the index formulas of both against counting. `RemnantsReported`: what lies behind all that is in use, or in an absent block, is found |

A type invariant is checked in each but `repair` and `findings`, whose variables hold values that
`Init` and the properties already fix. Six more runs check what a document or comment says and
find it violated by what the code does:

| Run | The text | What happens |
|---|---|---|
| `log_cut` | log.rs: the two paths "are byte-identical for the same image" | a data sector that the end of the container cuts: the overlay shows its first part, the buffer drops it |
| `log_overrun` | README: panic-free, all count fields checked | a descriptor count past the end of the entry panics the open, on both paths |
| `source_wedged` | vfs.rs: "one panicking reader does not wedge the source" | over a boxed reader the backing's own lock stays poisoned |
| `repair_payload` | README: repair "never alters payload data" | reader and analyser use different copies of the region table, and repair edits the one not in use |
| `findings_panic` | README: panic-free | sizes already reported as invalid give a chunk ratio of 0, and the size formula divides by it |
| `findings_ghost` | README: a ghost is payload "in a block marked absent" | a partially present block of a child, its bitmap present, so that the reader serves its sectors, is reported as one |

### What the properties do not say

Some properties have exceptions or hypotheses, each of which is something the code does not see or
does not do; without it TLC shows an example.

* `ChoiceKept`, `OnlyDamageChanges`, `DamageIsTheLogs`, `RepairIsStable` (`Apart`): nothing is
  claimed of an image whose block table lies upon the headers, the region tables, the metadata or
  the active log. Both parsers accept such a table (an overlap with the metadata is reported,
  one with unit 0 is not), and repair edits the bytes at the table's offset whatever they are
  (`repair.rs:274-279`, `292-294`): it may zero the file magic or tear a header, after which the
  image does not open, or remove the metadata, after which a second attempt finds other things.
  Images of that kind are among those of the run, and `PathsOpenAlike` and `OpensCommitted`
  hold of them; `QuietCopiesInterchange` does where the table is not in unit 0, of which a lost copy
  would be an entry as well.
* `OnlyDamageChanges` and `DamageIsTheLogs` (`Sound`, `Settled`): reader and analyser use one table,
  no block in place lies upon it, and the log does not rewrite headers, region tables or metadata.
* `OnlyDamageChanges` and `QuietCopiesInterchange` (`ShowsHead`): a block that an entry places in
  unit 0 shows the copies that repair restores.
* `QuietCopiesInterchange` (`Uncompared`): the GUID of the log is not compared between the
  headers; region tables are compared entry by entry at equal places, so that copies which list
  their regions in another order are not compared at all; regions of unknown kind are not
  compared, although the reader refuses a table for one past the end.
* `RemnantsReported` (`Shadowed`): `check_trailing_data` takes the place of a bitmap, and that of
  an entry beyond the disk's last block, for the place of a block, so that bytes behind the last
  real block may go unseen; and where no block has a place it begins at the next whole MiB behind
  the table, so that bytes in the rest of the last one do.
* `GeometryAgrees` and `QuietMeansReadable` (`PlainItems`): the metadata have no more items than the
  analyser reads; a block size, disk size or sector size is an item as long as the value, which the
  reader asks and the analyser does not; and the disk size has the name of the specification,
  as the analyser does not know QEMU's. Items of other names are as they like.
* `QuietMeansReadable`: states 4 and 5, which the reader refuses, have no finding; nor has a
  missing region, an unknown region past the end, or a table too short for one entry (`Unreported`).
* `ItemOverlapReported` (`Compared`): items behind the first 2048 are not looked at, although their
  number has 16 bits and the reader has no such limit.
* `SkipsReported` (`tables`): with two bad region tables the analysis ends before the log, which is
  replayed all the same, and may hold a good table.
* `QuietLogInOrder` (`WrapsAround`): numbers that start again at 0 follow on for the analyser,
  and come first for the sort of the replay.

### Bounds, and why they are enough

* **log_replay.** Two sectors' worth of container with sectors at 0, 1 and 2 gives disjoint,
  overlapping, and equal places; descriptors past the end, empty, over the whole container and
  of unknown kind are there, an entry with fewer sectors than descriptors, a sector whose end is no
  offset, and a run of zeros that cannot be allocated. Three slots hold three entries in any order of sequence numbers, with equals, and entries
  that are too long, too short, of another GUID or of a bad checksum. Reads are of 1 or 2
  cells at every offset. The agreement of the paths is proved for all sizes.
* **reader.** A disk of 18 cells in blocks of 8, sectors of 2, and 4 bits to a bitmap byte has
  a chunk of two blocks, a block that ends with a byte of the bitmap, a disk that ends inside a
  block and a bitmap in which owners alternate. Reads of 1, 5 and 11 cells start inside a
  sector, cross sectors, bitmap bytes, blocks and the chunk's end. Seeks reach below zero, past the end and to `I64Max`, and the sum
  past it wraps.
* **source.** Ranges that cross a block, run over the end, are empty, or lie beyond the end.
  With two threads each has a contender in every step; `OwnBytes` and its companions are proved
  for any number.
* **backing.** A medium of four bytes with a window at the second has room for a read that the
  window cuts, one the medium cuts, one that is cut between its two halves, and one that starts
  past the end. More of each adds nothing that the proofs do not cover.
* **repair.** A unit has five words: as many as unit 0 has structures, and a table of one unit has
  two payload slots, the bitmap slot of their chunk, and two slots of the next chunk, the second of
  which is behind the disk's last block. An image has up to three damaged blocks, each of one or two findings,
  beside a damaged header and a damaged region table. Logs write the table, payload, one or both
  region tables, a header, and metadata, with writes that undo a repair and writes that make a
  structure bad; two lie where the two headers disagree on the place of the log, and one has
  another GUID.
* **findings.** The table lengths run from 1 to 10 with chunks of 2 to 8 blocks, so that the
  last chunk is empty, part full, full, or has no bitmap entry. Leftover bytes lie behind the
  last block, between blocks, in bitmaps, in absent blocks and in the MiB in which the table ends.

Distinct states: `log_replay` 1.3 million, `reader` 0.22 million, `repair` 60,000,
`findings` 86,000, `backing` 65,000.

### Fairness

`LogReplay`, `LogAudit`, `VhdxReader` and `VhdxBacking` assume weak fairness of the steps of a
running call (`OpenNext`, `AuditStep`, `ReadNext`, `Step`): the code is straight-line or in a loop on the caller's thread, so it stops at no
step it can take. Starting a call is never assumed, nor is an interruption or a change of the medium, of which each
instance has a bounded number: a read that is interrupted for ever does not return. `VhdxSource` assumes weak fairness of each
thread's steps, which is what a scheduler gives. It does not assume a fair lock: a thread that
waits gets it because the calls of the others are bounded (`MaxCalls`), and `CallsReturn`
claims nothing about endless contention.

## Proofs

Each proof module states an inductive invariant, shows it of `Init` and of every action, and
conclude by temporal logic.

**LogReplayProofs**, from `LogAssumption` (sizes are natural numbers, the sectors of an entry
lie in it) and `AuditAssumption` (`MaxSeq` bounds the sequence numbers). `TypeCorrect` rests on
`InsertType`: inserting an entry by sequence number keeps a list of entries, which is said of any
list and place by `PutAfterIs`. `PathsAlwaysAgree`
and `ReadsAlwaysAgree` use

    AgreementInv == EntriesPlaced /\ SameBytes /\ ReadInProgress /\ AnswerShown

where `SameBytes` is `PathsAgree` also of a path that has ended, whose bytes nobody is shown. That
alone is not inductive, for two reasons. That no sector is cut is a fact about the
log, and has to be carried to the entries that were collected from it (`EntriesPlaced`). And a
reply stays right only because no run is added once the image is open, while a read that is half
patched agrees with the runs up to `patched` and no others (`ReadInProgress`, `AnswerShown`).
The lemmas `ShowsUnique`, `ShowsNext` and `ShowsAppend` say what one more run does to the byte
that is shown.

`BufferAlwaysCommitted` ties the loops to `CommittedByte`, which knows of none:

    CommitInv == Passed /\ (\E w : Places(w)) /\ Control /\ Replayed

`Passed`: `pos` is one of the slots `Visited` defines as a least set, and the entries at those
before it end where the walk is, or before (`VisitedIs`, `PassedNext`; `PassedAll` makes it all of
them at the end). `Places(w)`: `entries` has a
witness `w`, the slots its members came from, in the order of numbers and, where these are equal,
of slots; that the insertion keeps such a `w` (`CollectPlaces`) is where the stable sort matters.
`Replayed`: on every cell `data` holds the last of the writes done so far, or the old byte if none
covers it, for a set of done writes given by `cur` and `desc` and with no fold over them
(`DoneWrites`, `Held`); and `sector` is the rank `SectorIndex` counts. At the end the writes done
are all there are, and the last of them is the one `LastOf` chooses. No hypothesis on the log is
needed: sectors that the end of the container cuts are included.

`BoundedPathImplements` puts both together. A step that ends an open maps to `Open` of
`CommittedImage`, and so does the one at which the bounded path ends though the in-RAM one goes on
(`OpenedAs`); the end of a read maps to `ReadAt` (`ReadCommitted`), every other step to a stutter.
That the log alone decides whether the bounded path ends needs `LiveInv`: while that path goes on, no
descriptor that was handled is one it stops at (`Handled`), and once it has stopped the log has
one. It assumes that no entry has a sector
the end of the container cuts: of those the run `log_cut` shows that the bounded path does not
keep the promise.

`SkipsAreReported` and `QuietLogsInOrder` compare the analyser's walk over the log with the
replay's, for an analysis that comes to the log (`tables`). Steps of the replay are the same under both (`AuditRefines`), so what was proved of the
one walk, `Passed(pos)`, holds of the other as `Passed(place)`. `AuditInv` says what the analyser
knows behind `place`: that it has named just the entries there that cannot be replayed (`Named`),
and, as long as it has found nothing amiss and no number wraps, that the numbers of the entries
rise from slot to slot up to `prev` (`Rising`). `StoppedFor` says why an open stopped. At the end
both walks have come to all of `Walked`, and a log whose numbers rise is the list that the sort
of the replay makes of it (`CollectedAre`). The first attempt failed for a good reason: in
`CheckGoodEntry` an `ELSE` without parentheses took in the finding of a gap, so that an entry of
a foreign GUID never had one. The code reports both (`integrity.rs:1323-1344`), and now the model
does.

**VhdxReaderProofs**, from `ReaderAssumption` and `ChainAssumption`: each image of the chain
passed `validate` (`IsDisk`), has a size that an `i64` holds (`validate` stops at 64 TiB), and is
otherwise arbitrary: any table, any bytes, any parent. The invariant is

    ReaderInv == TypeOK /\ CallsNest /\ ParentOnlyForAbsent /\ WithinDisk

`CallsNest` alone is not inductive: that a parent's chunk fits into what its child still wants
depends on the position of a running read staying within the disk (`WithinDisk`), and that no
chunk is empty depends on the arithmetic of blocks and bitmap bytes, by which a run of sectors
ends after it began and within its block. The conclusions are `ReaderTypes`, `ReadsNest`,
`ParentsFillAbsentSectors` and, from the arithmetic alone, `BitsAreOwn`: for all sizes `validate`
accepts, the bit tested is the sector's own and a byte of the bitmap lies within one block.

`ReaderImplements` proves the refinement of `VirtualDisk`, `Spec => ReaderIsDisk`: over any chain
of images a read returns the bytes of the disk. Its invariant is

    DiskInv == ReaderInv /\ BufferIsDisk /\ ParentsAsked

`BufferIsDisk` says that the client's buffer is right up to the address the deepest running read
has come to. `ParentsAsked` says that every image above a running read defers all the bytes that
this read was asked for. So when a read meets a byte its image does describe, or one that is not
to be had, that image is the byte's owner (`BytesAre`); `VirtualDisk` chooses the owner from the
chain, the code finds it by descending. That a chunk comes from one place is `ChunkUniform`:
the bytes up to the end of the block, or of the run of equal bits, have the same owner and
consecutive places in the container. A read of the client, a failed one, a fault, a retry and a
seek are the steps of the disk; the iterations of the loops in between are stutters. `WrapIs` is
the arithmetic of `seek`: a sum that no `i64` holds comes out negative and is refused.

**VhdxBackingProofs**, from `BackingAssumption`. `BackingInv` adds to the properties what a read
knows on its way: that it has no more than it wants, that the cursor of a boxed reader is where
the buffer ends, and that a read which is about to return early has seen the end. `ShortOnlyAtEnd`
alone is not inductive: while the call runs, the medium may grow again behind the end that was
seen, so the invariant speaks of the shortest length since the call began. `TypeCorrect`,
`BytesAreOwn`, `ShortAtEndOnly` and `RegionAlwaysWhole` follow, for every window, medium and set
of requests, and any number of short reads, faults and changes.

**VhdxSourceProofs**, from `SourceAssumption`. The invariant is
`SourceInv == TypeOK /\ \A t \in Thread : ThreadInv(t)`, where `ThreadInv` says what a thread
knows at each point of its call: that it has the lock, that `inner` is its own exactly while it
fills, that the position is `off + total`, and that what it has collected is a run of addresses
of the right length. `OthersKeep` is the argument about interference: a thread's step leaves the
knowledge of the others alone, because each of them is outside the lock. From it follow
`ReaderAlwaysOwned`, `BackingNeverContended`, `BytesAreOwn` and `FailuresAlwaysOwn`, for any number
of threads, any disk, block size, requests, faults and panics. `SourceImplements` is the refinement
of `ImageSource`: `Call` maps to its `Call`, `Return` and `ReturnEmpty` to its `Return`, errors and
panics to its `Fail`, and the steps in between, which change only what the client is not shown
yet, to stutters.

**VhdxReopenProofs** and **VhdxReopenViews**, from `ContainerAssumption`, `RepairAssumption` and
`CaseAssumption` (images and logs have their shapes). The invariant of a repair of an image whose
table lies apart (`AttemptInv`, which of any other image says only its types),

    RepairInv == LayoutKept(image, original) /\ WordsKept(image, original)
                 /\ ... /\ Grounded /\ Listed

says that a good copy is still what it was and a bad one is bad or a copy of its good peer
(`LayoutKept`: for an `Apart` table no edit meets them), that each word is what it was, or that
with the edits a finding asked for (`WordsKept`), that what is on the list is a finding of the original (`Grounded`), and that what is
wrong with the image is on the list (`Listed`). The last two are what makes a stale list harmless:
edits are made where the table lies now, from findings of before. From it follow
`RepairKeepsChoice` and `SecondRepairFindsNothing`.

    OpenInv == O!IsLog(log) /\ AttemptInv /\ DOMAIN opener = O!Path
               /\ \A p \in O!Path : Opening(opener[p], image, O!Committed(image), given)

adds what an open knows at each step: that what it holds, with its runs put over it, is the
committed container (`Opening`), and that a refusal is the verdict of the bytes and the log, which
names no path. `BothPathsAgree` and `OpeningCommits` follow, and in `VhdxReopenViews`
`QuietCopiesAreSpares`, `RepairLeavesTheLogs` and `RepairChangesDamageOnly`.

The attempt to prove `OnlyDamageChanges` as it stood failed for a good reason. It asked only that
the original be sound; but a log can make a sound container unsound by writing a second, different
region table, and then a view says nothing. The property now also asks that the container be sound
with its log committed.

**VhdxFindingsProofs**, from `BatAssumption` and `FindingsAssumption`: an image holds anything at
any place (`IsImage`), but its entries fit in their region and a metadata region that ends in the
container in the room there is; and a bitmap block describes whole blocks, because all sizes are
powers of two. The invariant, `FindingsInv`, says that the findings of each layer that is past are
among those found, under some order of the sorts, and that the disk is said to be too large only
where it is. Each property then is a fact about one image:

* `SlotsAlwaysAgree`, by counting the payload entries before a block's, block by block
  (`SlotsCounted`), and `CoverageAlwaysBrackets`, by what the rounded quotient has to do with that
  count (`PayloadRounded`);
* `SharedPlacesReported` and `ItemOverlapsReported`: among neighbours of a sorted list keys rise
  (`NeighboursRise`), so those between two equal ones are equal, and an item that reaches another
  reaches its own neighbour; which of the orders of equal keys it is plays no part;
* `GeometriesAlwaysAgree` and `QuietImagesReadable`, which uses all the others but the overlaps;
* `RemnantsAlwaysReported`. The attempt to prove this one as it stood failed for a good reason: with
  no block in place the search begins at the next whole MiB behind the table, so that bytes in
  the rest of the last one escape, and with a table that leaves the container it begins
  nowhere. The first is now an exception (`Shadowed`), with tables that end inside a MiB among the
  images of the run, and the property speaks of tables that lie in the container.

**DataLemmas** has what the others share. The library's induction theorems take an operator as
a parameter, which the provers cannot instantiate. `SetInduction` states induction over the
numbers with a set in its place, which they can, one use for each recursive function: `PutAll` of
`VhdxOpen` and the flattening of a list of findings are done so.

Only model-checked:

* the liveness properties, `CallsReturn` and `OpenTerminates`: `ENABLED` and fairness are out of the
  provers' reach.

## Not modelled

* CRC-32C: a checksum is right or wrong. Signatures and the file magic, likewise.
* Widths of offsets in the table. With the sizes `validate` accepts no product
  leaves 64 bits. The `i64` of `seek` and the end of a data sector in the log are modelled.
* A medium that changes while the reader over it is in use, but for the reads themselves
  (`VhdxBacking`): the tables a reader keeps are those of the time it was opened.
* The analyser's findings on gaps, reserved bytes, all-zero identifiers, version fields, the
  alignment of the log, the flags in the metadata and the parent locator: each tests one field,
  and nothing else in the code depends on it. Severities, codes, notes, and the report.
* The command line, fuzz target and examples.

## Plan

Done: the log, the reader, the source, repair, the analyser against the reader, the log's
analyser against its replay, opening, repair followed by opening, and the backings; the proofs of
every safety property that a run checks, and of the three refinements.

Disagreements seen while reading, for which there is no run:

* `bat_check_coverage` rounds the payload entries of a table down, so a table that is exactly
  full is reported as too small (`CoverageBrackets` leaves one block of slack for this).
* `VirtualDiskSizeUnderreported` compares a place in the container with a size of the disk.
* The analyser does not know QEMU's GUID for the size of the disk, which the reader accepts.
* Repair gives a misplaced block of a differencing disk to its parent, although the report says
  that such a disk needs the parent chain (`repair.rs:200`).
* An overlay holds as many bytes as zero descriptors ask for, which nothing bounds; where they
  cannot be had the bounded open aborts and the in-RAM open does not (`Unbounded`).
* A block table that lies upon the headers is accepted by both parsers and reported by neither, and
  a repair of it may close the image (`Apart`).
