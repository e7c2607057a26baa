# A TLA+ verification of the virtual file system

The program keeps a small file system in memory: a chunk storage, files made of
extents of chunks, a tree of folders, a workspace with a current folder, and a
command line. It has one thread, persists nothing and talks to nobody. What is
hard about it is therefore neither concurrency nor crashes, but long sequences
of legal commands over shared, bounded, doubly recorded state: loops that take
apart the structure they walk, operations that fail half way, copies and
pointers that outlive what they describe, limits and boundaries.

## Inventory

| Part | Source | State | Operations | What makes it correct |
|---|---|---|---|---|
| Chunk storage | `system/storage.c` | `StorageMan`: bytes, allocation map, free counter | `challoc`, `chfree`, `chwrite`, `chread`, `chtrunc` | the counter agrees with the map; runs handed out are free |
| File extents | `system/file_storage.c`, `files.c` | `File`: array of 10 extents, `allocated_size` | allocate, free with left shift, truncate, `file_owns_chunk` | extents compact and disjoint, every allocated chunk owned by one file, sizes exact |
| File operations | `system/file_logic.c` | the locals of the running loop | append, truncate, delete data, read | the bytes are what was appended, less what was cut; other files are untouched; operations end |
| Entry store, folders | `system/vfs_entry_store.c`, `folders.c`, `entry_relocation.c` | pools of files and folders with allocation maps, links and names | create, rename, move, remove, remove a tree | links agree, names are unique, nothing is orphaned, also after a removal that failed half way |
| Paths, lookups | `system/path_utils.c`, `queries.c` | none | parse and resolve a path, print one, search | printing and resolving are inverses |
| Workspace | `workspace/*.c` | current folder, current path | the commands, by path | uses the entry store as that allows; the current folder and path stay meaningful |
| Command line | `cli/*.c` | input buffers | read a command, read a block of data, tokenize, parse, dispatch, execute | input is neither lost nor taken for something else |
| Help | `cli/help.*` | none | print a hint | what it shows is accepted |
| Start, tests | `main.c`, `tests/` | none | allocation | - |

Commands call the workspace, which resolves paths and calls the entry store or
the file operations; the entry store calls `file_delete_data` when it deletes a
file; file operations go through the ownership layer to the chunk storage. All
calls are synchronous; there are no callbacks. `safe_mode` is always false and
is left out, as are the never called `chunk_extent_right_shift` and
`truncate_path`, and the NULL tests of arguments no caller passes.

## Modules

`EXTENDS` from left to right:

    Storage -> FileStorage -> FileLogic -> FileReads -> MCFileReads
                                  |            |- INSTANCE FileContent (refinement)
                                  |            `-> FileReadsProofs  (with FileLogicProofs, Induction)
                                  `-> FileLogicProofs
    EntryStore -> MCEntryStore
    EntryStore -> EntryStoreProofs
    EntryStore -> Workspace -> Queries -> MCWorkspace
                  Workspace -> WorkspaceProofs    (with EntryStoreProofs, Induction)
                               Queries -> QueriesProofs    (with WorkspaceProofs)
    FileSystem -> MCFileSystem      (INSTANCE FileLogic, INSTANCE EntryStore twice)
    FileSystem -> FileSystemProofs  (INSTANCE FileLogicProofs, INSTANCE EntryStoreProofs)
    CommandLine -> MCCommandLine
    CommandLine -> CommandLineProofs

**Storage** is `storage.c`. `Challoc` is the first-fit scan (the lowest start of
a free run); the comparison with the counter at `storage.c:67` has no `return`
and so decides nothing. `ChfreeSpan` is a loop of `chfree`, which does not look
at the map; `Chwrite` and `Chtrunc` change bytes. A byte nothing has written is
`Uninitialised`, as `malloc` left it.

**FileStorage** is `file_storage.c`: the array of extents with its searches
(which stop at the first empty slot), allocation, freeing with
`chunk_extent_left_shift`, and shortening. In an empty slot `start` and
`chunk_amount` mean nothing; the model keeps them at 0. `chfree` cannot fail on
the chunks of an extent (`AllocatedIffOwned`), so a loop over a run is one step.

**FileLogic** is `file_logic.c`, one action per pass of a loop: `AppendStart`
(tests and allocation) and `AppendWrite` (one chunk, or the rollback);
`TruncateStart`, `TruncateWholeExtent` (one extent freed from the back),
`TruncateTail` (the last extent shortened, its last chunk blanked) or
`TruncateBelowArray` (every extent went and the pointer left the array: what lies
there is read as an empty or an occupied extent, and both are behaviours. In the
layout of `File` its `chunk_amount` is `parent_folder`, which is not 0 for a file in
use, so the refusal at `file_logic.c:101` cannot come from there and is left out);
`DeleteStart`, `DeleteExtent`, `DeleteSkipEmpty`. `call` holds the locals. The split into
passes is what lets the invariants speak about the states between them. The
rollback answers one code for all that a write can answer: `WritesNeverRefused` shows
that it is never reached. The count of deleted chunks is read from the slot after the shift, as in the code.

**FileReads** adds the reads, as operators: `file_read_at` with its three
pieces, `get_chunk_index`, `ws_file_read_all`, and size_t addition modulo
`SIZE_MODULUS`. It also states the refinement to **FileContent**, which is what
the operations promise when storage is out of sight: sequences of bytes, padded
to whole chunks. An operation takes effect there in one step, as soon as it has
passed its tests, and then has only to return SUCCESS: `AbstractContent` is what
the file will hold when the call that runs is done, and `running` is that call,
so that the effect is compared with what this very call asked for. Which of the
codes an append is refused with depends on the storage, and FileContent leaves
it open; a refusal changes no byte.

**EntryStore** is the tree. Creation, renaming, moving, removing one entry are
single steps: the code tests everything before it changes anything. The removal
of a tree (`delete_children_recursive`) recurses over the links it is cutting and
can stop at the depth limit, so each deletion and each call is a step, and
`removal` is the stack of calls. The order of the array positions does not
matter to any operation, so sub entries are sets. Whether a file holds chunks is
one bit, `stored`; FileLogic is its detail. `CreateFile` clears it for the slot it
takes, as `file_init` forgets the extents there; a leak in deletion leaves the bit on
a free slot until then, and `NoOrphanData` says that this never happens.
Names are model values; `InvalidName` stands for those
`validate_sub_entry_name` rejects, `LongName` for those with exactly
`MAX_NAME_LENGTH` characters. `File.name` has no room for the terminator of a
`LongName`, and `rename_file` does not ask for it: `RenameFileOverrun` is the rename
with the write behind the slot (`folders.c:290`), which may take away a parent of a
folder. With it the behaviour ends (`status` is `"UNDEFINED"`, `Defined` is false):
what the program does next depends on memory that belongs to something else. As
long as the byte behind the name is not zero, for instance, the name has no end and
`name_eq` does not recognise it. What a freed slot holds is never read except for
the parent and the sub entries of a removed current folder, which the model
keeps as the code leaves them.

**Workspace** adds `cur_folder`, `cur_path` and `crashed`, the resolution of
paths (relative, absolute, too long, `""` and `/`) and every command that
changes the state. `cur_folder` is a pointer that nothing updates, so it may
denote a freed slot. A NULL parent that is dereferenced ends the program
(`crashed`). Dispatching a command and printing are abstracted: one command is
one step (or, for a tree, a step per deletion).

**Queries** is what the user can learn of the tree: `find` (the scan of both
pools by name with its buffer, then the climb from every match to the root),
`ls`, and `tree` (the descent, which counts links and stops at the depth limit).
They change nothing and are operators; their properties compare them with each
other and with path resolution in every state of Workspace. The order in which
entries lie in the pools is arbitrary, so `find` is judged for every order.

**FileSystem** composes the tree with the data. `Logic` is FileLogic with
`files <- extents`, `Tree` is EntryStore with `files <- nodes` and with
`stored <- Stored`, the files whose extents hold chunks: what EntryStore takes for
one bit is here the real thing. Actions of either are conjoined where the code
does both: `CreateFile` forgets the extents of the slot it takes
(`files.c:30`); `RenameFile` puts the terminator of a `LongName` into the size of the
file in the next slot (`SlotAfter`, which slot lies behind which; behind the last
one lie the folders); a deletion is `Unlink`, then the loop of `file_delete_data`, then
`ReturnSlot` (`vfs_entry_store.c:342-358`), and inside the removal of a tree the
recursion waits for it. `Abstract` is EntryStore once more, with a refinement
mapping that hides the file under deletion; `ImplementsEntryStore` says that
each step of the whole is one of EntryStore's or none.

**CommandLine** is `src/cli`: `new_line_terminated_read` and `multi_line_read`,
`cmd_tokenize` and `cmd_parse` over sequences of symbols (a word is one symbol,
blanks and the option prefix are symbols too, so lengths count; a `Numeral` is a
number that a `long` holds, as the others are refused), the dispatch
tables, the numbers of arguments and the options each executor accepts, and the
hints of `help.h`. `mode` says which of the two readers reads next. The terminal
is external: pieces of input, ended by a newline or by Ctrl-D, of which `read()`
takes as much as it has room for and leaves the rest. The user is part of the
model, with what each piece is meant as (`command`, `data`, `submit`, `leave`)
and whether all limits were kept so far (`careful`); the program never looks at
that. Which of several errors is reported, and what a command does to the tree,
is left out.

The `MC` modules declare the model values of the small instances. Operators with
the comment *Faulty variant* are plausible mistakes in the code next to which
they stand; no specification uses them. Putting one in the place of its
definition makes TLC report the property it is paired with in `PROJECT.json`,
which shows that the property constrains the code.

## Runs

| Run | Module, cfg | Instance | Shows |
|---|---|---|---|
| file_logic | MCFileReads, FileLogic.cfg | 2 files, 4 chunks of 2 bytes, 3 extents; data of 1, 2 and 3 chunks; every amount | layout and data invariants between any two steps, `OtherFilesUntouched`, `OperationsReturn` |
| file_reads | MCFileReads, FileReads.cfg | 2 files, 3 chunks of 2 bytes, 2 extents, 3 byte values, 4-bit size_t | exact and bounded reads, implementation of FileContent |
| entry_store | MCEntryStore, EntryStore.cfg | 3 folders, 2 files, depth limit 2, 1 file and 2 folders per folder; two ordinary names, an invalid one, one that fills its buffer and "root" | tree invariants, removals, every removal ends |
| workspace | MCWorkspace, Workspace.cfg | 3 folders, 1 file, paths of 2 names, 2 ordinary names and one that fills its buffer, room for 3 matches | the workspace keeps to EntryStore's steps; paths, find and tree agree; removed current folder; `LongNameLocksOut` |
| file_system | MCFileSystem, FileSystem.cfg | 2 folders, 2 files, 2 chunks of 1 byte, 2 extents, 1 entry of a kind per folder, an ordinary name and one that fills its buffer; one file slot lies before the other | tree and data together implement EntryStore; no chunk is lost; data survives |
| command_line | MCCommandLine, CommandLine.cfg | 28 command lines (all 17 synopses of `help.h`, with and without what is optional, and 7 others), 4 data lines; buffers of 9, 3 lines of 3; 2 pieces typed ahead | user and program stay in step; blocks are exact; help is true; blocks end |
| removed_folder, stale_path, deep_path, shallow_tree | MCWorkspace | as workspace | violated: see Findings |
| long_file_name | MCFileSystem, LongFileName.cfg | as file_system | violated: see Findings |
| data_as_commands | MCCommandLine, DataAsCommands.cfg | as command_line | violated: see Findings |

The bounds and why they are enough. Four chunks with two files and lengths of
one to three chunks produce fragmented storage, refusals by `NO_SPACE` although
enough chunks are free, files of several extents, exhausted arrays of extents,
truncation that ends in the middle of an extent, on its border and below the
array. A chunk of two bytes is the least that can be partly filled. Three folders
below the root are one more than the depth limit of two, so that forced
removals and the search for cycles run into it, and creations and moves by relative
path exceed it. One place for a file in a folder, and two for folders, are
exhausted. A clash of names needs two entries, of which one may be a file; with a
path of two names and three nested folders some matches of find have no path, and a
fourth match of a name overflows the room for three. In file_system, two chunks and two files are enough for
storage to fill up, for slots and chunks to be taken over by another file, and
for a removal that meets files with data on two levels; larger storage is the
business of file_logic. In command_line, three lines of three characters and
pieces of one to ten make every limit be met exactly and be passed by one; the
run is not bounded in length, only in what is typed ahead. `SIZE_MODULUS` 16 is larger than any file plus any
buffer, as 2^64 is, and small enough for offsets that wrap to be enumerated.
The cfgs of EntryStore, Workspace and FileSystem say `CHECK_DEADLOCK FALSE` because
the model ends with a write behind a slot (and Workspace's with a crash), those of
CommandLine because exit and unreadable input end the program.
Symmetry over slots and ordinary names is used in runs that check safety only;
entry_store, file_system and command_line check liveness and have none, file_logic
neither.

Fairness. `WF(Continue)` in FileLogic, `WF(RemovalStep)` in EntryStore and
Workspace, `WF(Step)` in FileSystem and `WF(Program)` in CommandLine: the program has a single thread that waits for nothing inside an
operation, so an operation that was started runs on; only the two readers wait,
and only while there is no input. No fairness is assumed of
the user, who need never give another command.

## Properties

FileLogic and below: `FreeCountExact` (counter against map), `ExtentsCompact`,
`NoSharedChunk`, `AllocatedIffOwned` (no leak, nothing freed in use),
`SizeExact` (the size recorded twice), `WritesNeverRefused` (the rollback of an
append is never needed), `OtherFilesUntouched`, `OperationsReturn`; `DataInv` is
their inductive strengthening, with what the chunks hold. FileReads:
`ReadsAreExact`, `ReadsStayInside`, `ImplementsFileContent`.

EntryStore: `LinksAgree`, `NamesUnique`, `NoOrphans`, `NoOrphanData`,
`CallsInEstablished` (the recursion never stands in a freed folder),
`RemovalStaysBelow`, `RemovalComplete`, `RemovalReturns`. Workspace:
`PathRoundTrip`, `FindIsExact`, `TreeIsComplete` (as long as all folders have a path,
`tree` shows every entry), `LongNameLocksOut`,
`UsesEntryStore` (every step of the workspace is one EntryStore allows or leaves
the tree alone, which carries EntryStore's safety over), `RemovedFolderIsEmpty`,
`RemovedFolderStaysRemoved`.

FileSystem: `ImplementsEntryStore`, `NoLostChunk`, `FilesKeepData`,
`CommandsReturn`; `FilesKeepData` grants a rename the low byte of a size in the next
slot, and `SizesTracked`, which does not, is violated (see Findings). `LinksAgree`,
`PathRoundTrip`, `FindIsExact` and `TreeIsComplete` speak of states in which nothing
was written behind a slot (`Defined`), all others of every state. CommandLine: `ReadAsMeant`, `BlockIsWhatWasTyped`, `HelpIsTrue`,
`BlocksEnd`, and `CommandLineTypeOK` with the room for a terminator in the data
buffer; `SessionInv` is the inductive strengthening of the first two.

## Findings

Each is a run that TLC must find violated, against a sentence of the repository.

* **removed_folder.** `rmdir` of the folder one is in (`mkdir a`, `cd a`,
  `rmdir /a`) leaves `cur_folder` on a freed folder whose parent is NULL; `cd ..`
  dereferences it, although `path_utils.c:241` counts on a parent.
* **stale_path.** Renaming or moving the current folder, or one above it, leaves
  `cur_path`, which `pwd` prints, as it was (`help.h:32`).
* **deep_path.** `mkdir` in the deepest folder, or a move, makes folders whose
  path has more names than `path_utils.c:121` and `:233` guarantee; they then
  have no path to print and cannot be entered. `get_parent_folders` also writes
  one element past the array it is given there (nine elements, ten parents).
* **shallow_tree.** `tree` descends `MAX_FOLDER_DEPTH` links and ignores what the
  recursion answers below that (`folders.c:574`, `:611`): deeper entries are left
  out and the answer is SUCCESS, while `help.h:47-48` has it list the hierarchical
  structure of the entries under the directory. `TreeIsComplete` says when it does.
* **long_file_name.** `rename_file` accepts a name of 32 characters, which
  `file_init` would refuse. `set_entry_name` takes `File.name` for a field of 33
  (`folders.c:288`), and its terminator lands in the next slot: the low byte of
  that file's `allocated_size` becomes zero, although sizes are "tracked at
  allocation and deallocation" (`files.h:23`). Behind the last file it is that of
  `folders[0].parent_folder`.
* **data_as_commands.** A line of more than 256 characters, or a 16th line, ends
  `append` with the rest of the block unread, and the command loop runs that rest:
  a line `exit`, or the Ctrl-D that was to submit the block (`help.h:119-120`),
  ends the program and everything it stores.

Limits the model shows that are not runs of their own. `find` prints nothing when
there are more than 50 matches, and stops at the first match that is too deep, and
`cat` refuses a file larger than its buffer of 1024 bytes: `help.h:98` promises all
the entries and `help.h:105` all the contents, but here the command says that it
failed (`FindIsExact`, `ReadsAreExact`). No sentence of the repository denies the
others: a folder with a name of 32 characters cannot be entered or named in a path
(`LongNameLocksOut`); a negative number never reaches the test for it, as the parser
takes it for an option, and a number that no `long` holds is refused; `df`, `du` and
`stat` are in the table of commands and have no executor; a block has at most 15
lines, although 16 are counted; an overlong command ends the program.

Checked and found harmless: the missing `return` at `storage.c:69` (the scan
refuses the same requests), the wrapping sum at `file_logic.c:152`
(`get_chunk_index` refuses what the test lets through), and the slot that is read
after the shift at `file_logic.c:82` (the truncated extent is always the last).

## Proofs

`FileLogicProofs` proves for every number of files, chunks, extents, chunk size,
data and truncation amounts, from the assumptions `StorageAssumption`,
`FileStorageAssumption` and `FileLogicAssumption` only (positive sizes,
`EOC_OPERATOR` is a byte, data are sequences of bytes; no finiteness of `File`):

* `LayoutInvariant`: `Spec => []IInv`, and from it `TypeCorrect`,
  `FreeCountAlwaysExact`, `ExtentsAlwaysCompact`, `NeverSharedChunk`,
  `AlwaysAllocatedIffOwned`, `SizeAlwaysExact` and `AppendNeverRollsBack`;
* `OtherFilesAlwaysUntouched`: `Spec => OtherFilesUntouched`, an action property.

None of the properties is inductive alone. That freeing an extent keeps the
counter exact needs its chunks to be allocated (`AllocatedIffOwned`); that it
leaks nothing and frees nothing in use needs extents to be disjoint; that the
left shift closes the gap needs the array to be compact; that a size does not go
below zero needs it to be exact. `LayoutInv` joins them with `ExtentsNotVoid` (no
occupied slot of zero chunks). `CallInv` ties the locals to it: an append has
fewer chunks written than its extent has; a truncation has deleted no more than
it was asked for and points at the last extent or below the array.

The argument: `AllocateKeepsLayout`, `FreeKeepsLayout` and `ShortenKeepsLayout`
show that the three ways in which the code changes the layout keep `LayoutInv`,
resting on `LeftShiftClosesGap` and on the cardinality of runs of chunks;
`BytesDoNotMatter` covers the writes; `InitEstablishes` and `StepPreserves` (one
step per action) give the invariant. `OwnWritesAllowed` shows that an append's
chunk is always found in its extent, which makes the rollback unreachable.

`FileReadsProofs` proves the same of the bytes, from `FileReadsAssumption` too (a
size_t larger than all the storage plus a buffer, and a multiple of the chunk size,
as 2^64 and 8 are):

* `DataInvariant`: `Spec => []DataInv`;
* `ReadsAlwaysExact` and `ReadsAlwaysStayInside`, for `ReadsAreExact` and
  `ReadsStayInside`;
* `ImplementsContent`: `Spec => ImplementsFileContent`, the refinement.

`DataInv` is `IInv` with two parts more. `BytesWritten`: every chunk of a file holds
bytes, but for those an append still has to fill; without it a read could deliver
what `malloc` left. `ProgressInv`: an append has filled the front of the last extent
with its blocks in their order; what a truncation still has to remove is there, and
when its pointer is below the array nothing is left; a deletion leaves nothing
occupied behind it. The refinement needs that to know what the rest of the operation
will do.

The bytes of a file are defined extent by extent (`Bytes` flattens them); the proof
shows that they are those of its chunks in their order, by induction over the slots,
and from there on counts chunks instead of extents. A read consists of a head, whole
chunks and a tail (`Pieces`), and these cover the range without a gap. A range whose
end wraps around passes the bounds test, but its first or last chunk is not in the
file, and the walk of `get_chunk_index` finds that out.

In the refinement the whole effect of an operation is FileContent's at its first
step: `ContentOf` maps a state in the middle of an operation to the contents with its
outcome, so the later steps stutter and the last one is `Finish`. An append adds
blocks to the file it will have; a truncation drops `ChunksLeft` whole chunks, extent
by extent from the end, and its tail puts EOC_OPERATOR in place of the rest
(`Blanked`). That the pointer left the array makes no difference then, as nothing
of the file is left. There is one lemma per action (`AppendWriteRefines`,
`TruncateWholeRefines`, ...), and FileLogicProofs says that the other files keep their
chunks and that nobody writes to them.

`CommandLineProofs` proves, from `CommandLineAssumption` (positive sizes of the
buffers, and no empty line of command or data text), for every command and data
text and any amount of input typed ahead: `TypeCorrect` (the block always
leaves room for its terminator, and its loop makes no more reads than it has
lines), `SessionInvariant`, and from it `AlwaysReadAsMeant` and
`BlockAlwaysWhatWasTyped`, and `HelpAlwaysTrue`. That one needs only the types: a line
in the shape of a synopsis has no more tokens, arguments and options than the parser
takes, and the numbers of arguments and the option of each synopsis are among those
the executor of its function accepts. `AlwaysReadAsMeant` and
`BlockAlwaysWhatWasTyped` speak only of the piece that is read
next, so they are not inductive: a step of the program makes the second piece the
first. `SessionInv` therefore says of all pieces typed ahead that they lead from
the place in the session where the program is to the place where the user is, as
long as the user is careful, and that the block read so far plus the pieces still
waiting stay within the limits. A step of the user adds a piece at one end of
that path, a step of the program takes one off at the other.

`EntryStoreProofs` proves, from `EntryStoreAssumption` (finite pools without a
common element, positive limits), for every number of slots, every depth
limit and every set of names: `TreeInvariant`, and from it `TypeCorrect`,
`LinksAlwaysAgree`, `NamesAlwaysUnique`, `NeverOrphans`, `NeverOrphanData`,
`CallsAlwaysInEstablished`, and the action properties `RemovalAlwaysStaysBelow` and
`RemovalAlwaysComplete`. Its invariant `IInv` is `TreeInv` (the properties of the
tree, with `RootNamed`) and `CallInv` (those of the stack of calls, with
`CallsBelow`). The theorems need them up to a rename that writes behind its slot;
`SafeInv` is `IInv` as long as that has not happened and `Damaged` then: the write may
have taken a parent away, but pools, names and sub entries are as they have to be
(`OverrunDamages`), and no step follows. Why it takes that much:

* A move keeps `LinksAgree` only when what is moved is not the root, and the code
  refuses the root by its name alone: `RootNamed` has to be invariant.
* A move keeps `NoOrphans` because the new parent is not in the subtree of what is
  moved. The proof is about closed sets: a set with the root that is closed under
  the links after the move, joined with that subtree, is closed under those
  before, so it held every folder; the new parent is outside the subtree and so
  in the set, and with it the folder that hangs there now and its whole subtree.
* A removal keeps `CallsInEstablished` because the folder that is freed has no
  sub folder, while every other call on the stack stands in the parent of the
  next; and it stays below its folder because a subtree is closed.
* That links agree and names stay unique is needed by nearly every step: an entry
  is unlinked from the one folder its parent field names.

`AddAndRemove` (places in a folder), `FoldersKept` and `FileOperationKeeps` (what an
operation on files leaves alone), `FolderOperationKeeps` and one lemma for each
change of the tree carry the steps; `InitEstablishes`, `OperationPreserves` and
`RemovalPreserves` (one step per action) join them.

`WorkspaceProofs` proves, from `EntryStoreAssumption` alone, that the workspace uses
the entry store as that allows, whatever paths are typed: `WorkspaceInvariant`, and
from it `WorkspaceTypeCorrect`, `TreeSoundInUse`, `WorkspaceUsesEntryStore`,
`RemovedFolderAlwaysEmpty` and `RemovedFolderAlwaysStaysRemoved`. `WsInv` is
EntryStore's `SafeInv` with `Tidy`: an established folder has a name, and a folder slot
that is not established has no parent. The latter is what makes a current folder that
was removed harmless everywhere but in `..`: nothing starts in it, and nothing leads
out of it. The step lemmas of EntryStoreProofs carry `IInv`; what is new is that
every operation is given entries of the tree, which is an induction over the names
of the path: `Walk` is a recursive function, and each of its values is an
established folder, the folder the walk began in, or no folder.

`QueriesProofs` proves, from `QueriesAssumption` too (a positive room for matches),
that naming, finding and listing agree in every state of the workspace:
`PathsRoundTrip`, `FindAlwaysExact`, `TreeAlwaysComplete` and
`LongNameAlwaysLocksOut`. The climb that prints a path and the descent that resolves
it are tied together by chains: the folders the climb from an entry meets are, read
backwards, those the walk from the root meets, because names are unique in a folder
(`NamesUnique`) and links agree (`LinksAgree`); a climb within the limit ends in the root because the
parent of an established folder is never NULL (`ParentOf`, `ClimbInTree`). Level k of
`tree`'s descent is the set of folders whose climb meets k folders (`OneLevelDown`),
so both limits let the same folders through, and where no folder is beyond the one
none is beyond the other. `LongNameAlwaysLocksOut` is an action
property: a walk that starts outside the folder's subtree stays outside, for the
overlong name never parses, and no step makes a link into the subtree for what is
outside.

These two and `FileReadsProofs` rest on **Induction**: `LeastElement` (a set of numbers has a least element, by
`WFMin` of the library), `UpTo` (an induction stated of a set in place of a
predicate) and `Recursion` (a function defined by recursion is there, and its values
are made each from the one before). With them, what a recursive function over the
numbers computes can be proved although the library's induction rules cannot be
instantiated.

`FileSystemProofs` proves, from `FileSystemAssumption` (the assumptions of both parts
together), that tree and data in one system are what each part was proved to be:

* `SystemInvariant`: `Spec => []SystemInv`;
* `TreeAndDataImplementEntryStore`: `Spec => ImplementsEntryStore`, the refinement;
* `ChunksNeverLost` and `FilesAlwaysKeepData`, for `NoLostChunk` and `FilesKeepData`;
* `TreeAlwaysConnected`: EntryStore's promises hold for the tree with unfinished
  deletions underneath.

Nothing of the two parts is proved again: their proof modules are instantiated,
FileLogic's with the extents and EntryStore's with the refinement mapping
(`SameLogic` and `SameTree` say that these instances and those of FileSystem mean the
same). `FSInv` is FileLogic's invariant of the data, EntryStore's of the tree as it
sees it, and what joins them: `DeletionInv`, a file that is unlinked but still has
its slot is the one `file_delete_data` works on, with nothing left in front of its
index, or holds nothing any more; and `CommandInv`, a call works on a file in use,
and outside a deletion no removal is under way. `SystemInv` is `FSInv` until a rename writes behind its slot, and
`FSDamaged` after it: of the data the write has cleared at most the low byte of a
size (`SizeWrittenOver`), and the layout without the sizes still holds. Both parts of
`FSInv` that join tree and data are needed: without the first,
giving the slot back could lose chunks and would be seen by EntryStore; without the
second, a data loop inside a removal could change a file that EntryStore sees. The
step lemmas (`CreateFileRefines`, `RenameFileRefines`, `DataStepRefines`, ...) show for
each action that EntryStore sees one of its own steps or none, and the invariant
follows: what is one of its steps keeps its invariant by `TreeKept`, and what
touches the data is a step of FileLogic, or the creation of a file in a slot without
extents (`NewFileKeepsData`), so FileLogic's is kept by `DataKept`. What a caller has
to know of FileLogic's loops is stated there: `CallKeepsToItsFile`, `DeleteEmpties`,
`OthersKept` and `NewFileKeepsLayout`.

Only model-checked: liveness (`OperationsReturn`, `RemovalReturns`,
`CommandsReturn`, `BlocksEnd`), which is out of the prover's reach.

## Not modelled

Formatting and printing, the descriptions in the help texts, splitting a path
at its delimiters character by character, which error of several is reported,
allocation and release of the arrays at start and end (`main.c`), the unit tests.
Memory beyond an array is modelled where the file system itself reads or writes it:
`TruncateBelowArray` reads it, and `RenameFile` writes there, with which the model
ends; what the program does after that write is not followed. A terminal that is not in canonical mode,
and input from a pipe or a file (where one `read()` may return several lines), are
not modelled: the code is written for the terminal.
