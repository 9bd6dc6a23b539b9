-------------------------------- MODULE Sfs --------------------------------
(***************************************************************************)
(* The file system (fs/sfs.c) on a disk that keeps what was written when   *)
(* the machine loses power.                                                *)
(*                                                                         *)
(* Every block_write is one step, and the machine may crash between any    *)
(* two steps at the labels in CrashAt: memory is lost, the disk stays, and *)
(* the kernel boots, mounting what it finds or formatting.  The variables  *)
(* magic, ibm, bbm, inodes and data are the disk: the superblock, the two  *)
(* bitmaps as sets, the inode table and the data blocks.  A block is a     *)
(* function over units; a unit holds one directory entry or one piece of   *)
(* file data.  Calls do not overlap: one program uses the file system.     *)
(*                                                                         *)
(* Only SYS_FS_CREATE calls sfs_create, always for a file in the root      *)
(* directory, so subdirectories and sfs_free_block are left out.           *)
(***************************************************************************)
EXTENDS Integers, Sequences, FiniteSets, FiniteSetsExt

CONSTANTS
    INODES,        \* sb.inode_count; inode 0 is never used
    BLOCKS,        \* sb.total_blocks
    DATA_START,    \* sb.data_block_start
    BLOCK_SIZE,    \* units of a block
    DIRECT,        \* SFS_DIRECT_BLOCKS
    MAX_FILES,     \* entries of file_table
    Names,         \* names programs use: [len, slash, id]
    Values,        \* pieces of file data
    MaxCount,      \* bound: units written or read by one call
    MaxCrashes,    \* bound on the number of crashes
    CrashAt        \* the places where power may fail

ROOT_INO == 1

Inos    == 1 .. INODES - 1
Blocks  == 0 .. BLOCKS - 1
Offsets == 0 .. BLOCK_SIZE - 1
Fds     == 0 .. MAX_FILES - 1

ASSUME SfsAssumption ==
    /\ INODES \in Nat /\ INODES > ROOT_INO
    /\ DATA_START \in Nat \ {0} /\ BLOCKS \in Nat /\ BLOCKS > DATA_START
    /\ BLOCK_SIZE \in Nat /\ BLOCK_SIZE >= 2
    /\ DIRECT \in Nat \ {0} /\ MAX_FILES \in Nat
    /\ MaxCount \in Nat /\ MaxCrashes \in Nat
    /\ \A x \in Names : x.len \in Nat /\ x.slash \in BOOLEAN

VARIABLES
    magic,       \* the superblock carries SFS_MAGIC
    ibm, bbm,    \* inode bitmap and block bitmap: the numbers marked in use
    inodes,      \* the inode table
    data,        \* the data blocks
    mounted,
    file_table,
    pc,          \* the step the kernel is at
    call,        \* arguments and local variables of the call in progress
    inode,       \* the inode the call has read into memory and will write back
    content,     \* history: what the completed writes left in each file
    created,     \* history: the names sfs_create returned success for
    crashes      \* history: number of crashes

disk == <<magic, ibm, bbm, inodes, data>>
ghost == <<content, created, crashes>>
vars == <<disk, mounted, file_table, pc, call, inode, ghost>>

FormatLabels == {"fmt_ibm", "fmt_bbm", "fmt_table", "fmt_alloc", "fmt_dir",
                 "fmt_inode", "fmt_root"}
CreateLabels == {"cr_inode", "cr_slot", "cr_block", "cr_parent"}
WriteLabels  == {"wr_loop", "wr_block", "wr_inode"}
Labels == {"boot", "mount", "idle"} \cup FormatLabels \cup CreateLabels \cup WriteLabels

-----------------------------------------------------------------------------
(* Disk structures.                                                          *)

NoName == [len |-> 0, slash |-> FALSE, id |-> <<>>]
Dot    == [len |-> 1, slash |-> FALSE, id |-> <<".">>]
DotDot == [len |-> 2, slash |-> FALSE, id |-> <<"..">>]

Zero == [ino |-> 0, name |-> NoName]

ZeroBlock == [o \in Offsets |-> Zero]

ZeroInode == [ino |-> 0, size |-> 0, type |-> "file", blocks |-> <<>>]

Range0(s) == {s[i] : i \in 1 .. Len(s)}

\* The copying loop does not write a terminator: what is left of a longer old
\* name in the entry follows the new one.
Copied(old, new) ==
    IF old.len <= new.len THEN new ELSE [new EXCEPT !.len = old.len, !.id = @ \o old.id]

\* path_parse strips leading slashes; sfs_create takes the name as it is.
Parsed(name) == IF name.slash THEN [name EXCEPT !.slash = FALSE, !.len = @ - 1] ELSE name

\* bitmap_find_first_zero.
FreeInos == (0 .. INODES - 1) \ ibm
FreeBlocks == Blocks \ bbm

\* sfs_alloc_block returns -1 when no bit is clear, or only one of the metadata.
CanAllocBlock == FreeBlocks # {} /\ Min(FreeBlocks) >= DATA_START

\* The entry at place k of a directory: k / BLOCK_SIZE-th block, k % BLOCK_SIZE.
Places(dir) == 0 .. Len(dir.blocks) * BLOCK_SIZE - 1
Entry(dir, k) == data[dir.blocks[(k \div BLOCK_SIZE) + 1]][k % BLOCK_SIZE]

\* sfs_lookup in the root directory; -1 when there is no such entry.
Matches(name) ==
    LET dir == inodes[ROOT_INO]
    IN  IF dir.type = "dir"
        THEN {k \in Places(dir) : Entry(dir, k).ino # 0 /\ Entry(dir, k).name = name}
        ELSE {}

sfs_lookup(name) ==
    IF Matches(name) = {} THEN -1 ELSE Entry(inodes[ROOT_INO], Min(Matches(name))).ino

\* What sfs_read_file returns for count units from offset.
sfs_read_file(node, count, offset) ==
    LET avail == Min({count, node.size - offset, Len(node.blocks) * BLOCK_SIZE - offset})
    IN  IF offset >= node.size THEN <<>>
        ELSE [i \in 1 .. avail |->
                 data[node.blocks[((offset + i - 1) \div BLOCK_SIZE) + 1]]
                     [(offset + i - 1) % BLOCK_SIZE]]

-----------------------------------------------------------------------------
NoCall == [name |-> NoName, ino |-> 0, blk |-> 0, fd |-> 0, buf |-> <<>>, n |-> 0]

ClosedFile == [ino |-> 0, offset |-> 0, in_use |-> FALSE]

\* A blank disk image, at power on.
Init ==
    /\ magic = FALSE /\ ibm = {} /\ bbm = {}
    /\ inodes = [i \in Inos |-> ZeroInode]
    /\ data = [b \in Blocks |-> ZeroBlock]
    /\ mounted = FALSE
    /\ file_table = [f \in Fds |-> ClosedFile]
    /\ pc = "boot" /\ call = NoCall /\ inode = ZeroInode
    /\ content = [i \in Inos |-> <<>>]
    /\ created = {} /\ crashes = 0

-----------------------------------------------------------------------------
(* Boot: kernel.c mounts, or formats and mounts.                             *)

\* sfs_mount fails without the magic number; sfs_format writes the superblock first.
Boot ==
    /\ pc = "boot"
    /\ \/ magic /\ pc' = "mount" /\ UNCHANGED magic
       \/ ~magic /\ magic' = TRUE /\ pc' = "fmt_ibm"
    /\ UNCHANGED <<ibm, bbm, inodes, data, mounted, file_table, call, inode, ghost>>

FmtIbm ==
    /\ pc = "fmt_ibm" /\ pc' = "fmt_bbm"
    /\ ibm' = {0}
    /\ UNCHANGED <<magic, bbm, inodes, data, mounted, file_table, call, inode, ghost>>

FmtBbm ==
    /\ pc = "fmt_bbm" /\ pc' = "fmt_table"
    /\ bbm' = 0 .. DATA_START - 1
    /\ UNCHANGED <<magic, ibm, inodes, data, mounted, file_table, call, inode, ghost>>

\* Both blocks of the inode table are zeroed.
FmtTable ==
    /\ pc = "fmt_table" /\ pc' = "fmt_alloc"
    /\ inodes' = [i \in Inos |-> ZeroInode]
    /\ UNCHANGED <<magic, ibm, bbm, data, mounted, file_table, call, inode, ghost>>

FmtAlloc ==
    /\ pc = "fmt_alloc" /\ pc' = "fmt_dir"
    /\ call' = [call EXCEPT !.blk = Min(FreeBlocks)]
    /\ bbm' = bbm \cup {Min(FreeBlocks)}
    /\ UNCHANGED <<magic, ibm, inodes, data, mounted, file_table, inode, ghost>>

FmtDir ==
    /\ pc = "fmt_dir" /\ pc' = "fmt_inode"
    /\ data' = [data EXCEPT ![call.blk] =
                   [ZeroBlock EXCEPT ![0] = [ino |-> ROOT_INO, name |-> Dot],
                                     ![1] = [ino |-> ROOT_INO, name |-> DotDot]]]
    /\ UNCHANGED <<magic, ibm, bbm, inodes, mounted, file_table, call, inode, ghost>>

FmtInode ==
    /\ pc = "fmt_inode" /\ pc' = "fmt_root"
    /\ inodes' = [inodes EXCEPT ![ROOT_INO] =
                     [ino |-> ROOT_INO, size |-> 2, type |-> "dir", blocks |-> <<call.blk>>]]
    /\ call' = NoCall
    /\ UNCHANGED <<magic, ibm, bbm, data, mounted, file_table, inode, ghost>>

\* The root inode's bit, then sfs_mount, which finds the magic number.
FmtRoot ==
    /\ pc = "fmt_root" /\ pc' = "mount"
    /\ ibm' = ibm \cup {ROOT_INO}
    /\ UNCHANGED <<magic, bbm, inodes, data, mounted, file_table, call, inode, ghost>>

Mount ==
    /\ pc = "mount" /\ pc' = "idle"
    /\ mounted' = TRUE
    /\ file_table' = [f \in Fds |-> [file_table[f] EXCEPT !.in_use = FALSE]]
    /\ UNCHANGED <<disk, call, inode, ghost>>

-----------------------------------------------------------------------------
(* sfs_create.                                                               *)

Return == pc' = "idle" /\ call' = NoCall /\ inode' = ZeroInode

\* The name is new and sfs_alloc_inode finds a number; otherwise -1.
Create(name) ==
    /\ pc = "idle"
    /\ inodes[ROOT_INO].type = "dir" /\ sfs_lookup(name) < 0 /\ FreeInos # {}
    /\ ibm' = ibm \cup {Min(FreeInos)}
    /\ call' = [NoCall EXCEPT !.name = name, !.ino = Min(FreeInos)]
    /\ inode' = inodes[ROOT_INO]
    /\ pc' = "cr_inode"
    /\ UNCHANGED <<magic, bbm, inodes, data, mounted, file_table, ghost>>

\* Mutation of CreateInode: the new inode is not written.
CreateInodeForgotten ==
    /\ pc = "cr_inode" /\ pc' = "cr_slot"
    /\ UNCHANGED <<disk, mounted, file_table, call, inode, ghost>>

CreateInode ==
    /\ pc = "cr_inode" /\ pc' = "cr_slot"
    /\ inodes' = [inodes EXCEPT ![call.ino] = [ZeroInode EXCEPT !.ino = call.ino]]
    /\ UNCHANGED <<magic, ibm, bbm, data, mounted, file_table, call, inode, ghost>>

\* The entry the loop leaves in d: the first free one, or the last of all.
FreePlaces == {k \in Places(inode) : Entry(inode, k).ino = 0}

NewEntry(old) == [ino |-> call.ino, name |-> Copied(old.name, call.name)]

\* A free entry of the directory is filled in.
CreateInPlace ==
    /\ pc = "cr_slot" /\ FreePlaces # {}
    /\ LET k == Min(FreePlaces)
       IN  data' = [data EXCEPT ![inode.blocks[(k \div BLOCK_SIZE) + 1]]
                                [k % BLOCK_SIZE] = NewEntry(@)]
    /\ pc' = "cr_parent"
    /\ UNCHANGED <<magic, ibm, bbm, inodes, mounted, file_table, call, inode, ghost>>

\* The directory is full: allocate a block for it.
CreateGrow ==
    /\ pc = "cr_slot" /\ FreePlaces = {}
    /\ Len(inode.blocks) < DIRECT /\ CanAllocBlock
    /\ bbm' = bbm \cup {Min(FreeBlocks)}
    /\ call' = [call EXCEPT !.blk = Min(FreeBlocks)]
    /\ pc' = "cr_block"
    /\ UNCHANGED <<magic, ibm, inodes, data, mounted, file_table, inode, ghost>>

\* Mutation of CreateFail: the inode number is not freed.
CreateFailLeaks ==
    /\ pc = "cr_slot" /\ FreePlaces = {}
    /\ Len(inode.blocks) >= DIRECT \/ ~CanAllocBlock
    /\ Return
    /\ UNCHANGED <<disk, mounted, file_table, ghost>>

\* No entry and no block: sfs_free_inode, -1.
CreateFail ==
    /\ pc = "cr_slot" /\ FreePlaces = {}
    /\ Len(inode.blocks) >= DIRECT \/ ~CanAllocBlock
    /\ ibm' = ibm \ {call.ino}
    /\ Return
    /\ UNCHANGED <<magic, bbm, inodes, data, mounted, file_table, ghost>>

\* Mutation of CreateBlock: the directory's inode does not get the block.
CreateBlockUnlinked ==
    LET last == Entry(inode, Len(inode.blocks) * BLOCK_SIZE - 1)
    IN  /\ pc = "cr_block" /\ pc' = "cr_parent"
        /\ data' = [data EXCEPT ![call.blk] = [ZeroBlock EXCEPT ![0] = NewEntry(last)]]
        /\ UNCHANGED <<magic, ibm, bbm, inodes, mounted, file_table, call, inode, ghost>>

\* The new block begins with the new entry, built on the last entry that was read.
CreateBlock ==
    LET last == Entry(inode, Len(inode.blocks) * BLOCK_SIZE - 1)
    IN  /\ pc = "cr_block" /\ pc' = "cr_parent"
        /\ data' = [data EXCEPT ![call.blk] = [ZeroBlock EXCEPT ![0] = NewEntry(last)]]
        /\ inode' = [inode EXCEPT !.blocks = Append(@, call.blk)]
        /\ UNCHANGED <<magic, ibm, bbm, inodes, mounted, file_table, call, ghost>>

\* The directory's inode is written back and the new number returned.
CreateParent ==
    /\ pc = "cr_parent"
    /\ inodes' = [inodes EXCEPT ![ROOT_INO] = [inode EXCEPT !.size = @ + 1]]
    /\ created' = created \cup {[name |-> call.name, ino |-> call.ino]}
    /\ content' = [content EXCEPT ![call.ino] = <<>>]
    /\ Return
    /\ UNCHANGED <<magic, ibm, bbm, data, mounted, file_table, crashes>>

-----------------------------------------------------------------------------
(* sys_open, sys_close, sys_read.                                            *)

FreeFds == {f \in Fds : ~file_table[f].in_use}

Open(path) ==
    /\ pc = "idle" /\ mounted
    /\ sfs_lookup(Parsed(path)) >= 0 /\ FreeFds # {}
    /\ file_table' = [file_table EXCEPT ![Min(FreeFds)] =
                         [ino |-> sfs_lookup(Parsed(path)), offset |-> 0, in_use |-> TRUE]]
    /\ UNCHANGED <<disk, mounted, pc, call, inode, ghost>>

Close(fd) ==
    /\ pc = "idle" /\ file_table[fd].in_use
    /\ file_table' = [file_table EXCEPT ![fd].in_use = FALSE]
    /\ UNCHANGED <<disk, mounted, pc, call, inode, ghost>>

\* The data read goes to the program; the offset moves on by as much.
Read(fd, count) ==
    LET f == file_table[fd]
    IN  /\ pc = "idle" /\ f.in_use
        /\ file_table' = [file_table EXCEPT ![fd].offset =
                             @ + Len(sfs_read_file(inodes[f.ino], count, @))]
        /\ UNCHANGED <<disk, mounted, pc, call, inode, ghost>>

-----------------------------------------------------------------------------
(* sys_write, sfs_write_file.                                                *)

Write(fd, buf) ==
    /\ pc = "idle" /\ file_table[fd].in_use
    /\ call' = [NoCall EXCEPT !.fd = fd, !.buf = buf, !.ino = file_table[fd].ino]
    /\ inode' = inodes[file_table[fd].ino]
    /\ pc' = "wr_loop"
    /\ UNCHANGED <<disk, mounted, file_table, ghost>>

\* Where the next unit goes.
At == file_table[call.fd].offset + call.n
BlockIdx == At \div BLOCK_SIZE

\* The block is there.
WriteNext ==
    /\ pc = "wr_loop" /\ call.n < Len(call.buf) /\ BlockIdx < Len(inode.blocks)
    /\ pc' = "wr_block"
    /\ UNCHANGED <<disk, mounted, file_table, call, inode, ghost>>

\* Mutation of WriteGrow: the block is not marked in use.
WriteGrowUnmarked ==
    /\ pc = "wr_loop" /\ call.n < Len(call.buf) /\ BlockIdx >= Len(inode.blocks)
    /\ BlockIdx < DIRECT /\ CanAllocBlock
    /\ inode' = [inode EXCEPT !.blocks = Append(@, Min(FreeBlocks))]
    /\ pc' = "wr_block"
    /\ UNCHANGED <<disk, mounted, file_table, call, ghost>>

\* The file grows by a block.
WriteGrow ==
    /\ pc = "wr_loop" /\ call.n < Len(call.buf) /\ BlockIdx >= Len(inode.blocks)
    /\ BlockIdx < DIRECT /\ CanAllocBlock
    /\ bbm' = bbm \cup {Min(FreeBlocks)}
    /\ inode' = [inode EXCEPT !.blocks = Append(@, Min(FreeBlocks))]
    /\ pc' = "wr_block"
    /\ UNCHANGED <<magic, ibm, inodes, data, mounted, file_table, call, ghost>>

\* Everything is written, or there is no room for more.
WriteStop ==
    /\ pc = "wr_loop"
    /\ \/ call.n >= Len(call.buf)
       \/ /\ BlockIdx >= Len(inode.blocks)
          /\ BlockIdx >= DIRECT \/ ~CanAllocBlock
    /\ pc' = "wr_inode"
    /\ UNCHANGED <<disk, mounted, file_table, call, inode, ghost>>

\* Mutation of ToCopy: the offset within the block is not taken off.
ToCopyWhole == Min({BLOCK_SIZE, Len(call.buf) - call.n})

ToCopy == Min({BLOCK_SIZE - (At % BLOCK_SIZE), Len(call.buf) - call.n})

\* Read the block, copy as much as fits, write it back.
WriteBlock ==
    LET off == At % BLOCK_SIZE
    IN  /\ pc = "wr_block" /\ pc' = "wr_loop"
        /\ data' = [data EXCEPT ![inode.blocks[BlockIdx + 1]] =
                       [o \in Offsets |-> IF o \in off .. off + ToCopy - 1
                                          THEN call.buf[call.n + 1 + o - off] ELSE @[o]]]
        /\ call' = [call EXCEPT !.n = @ + ToCopy]
        /\ UNCHANGED <<magic, ibm, bbm, inodes, mounted, file_table, inode, ghost>>

\* s with buf written over it from offset on.
Overwritten(s, buf, offset) ==
    [i \in 1 .. Max({Len(s), offset + Len(buf)}) |->
        IF i \in offset + 1 .. offset + Len(buf) THEN buf[i - offset] ELSE s[i]]

NewSize == IF At > inode.size THEN At ELSE inode.size

\* The offset moves on and the inode is written back; n is returned.
WriteInode ==
    LET f == file_table[call.fd]
    IN  /\ pc = "wr_inode"
        /\ inodes' = [inodes EXCEPT ![inode.ino] = [inode EXCEPT !.size = NewSize]]
        /\ file_table' = [file_table EXCEPT ![call.fd].offset = At]
        /\ content' = [content EXCEPT ![f.ino] =
                          Overwritten(@, SubSeq(call.buf, 1, call.n), f.offset)]
        /\ Return
        /\ UNCHANGED <<magic, ibm, bbm, data, mounted, created, crashes>>

-----------------------------------------------------------------------------
\* Power fails: memory is lost.  Of a file being written, what the disk holds counts.
Crash ==
    /\ pc \in CrashAt /\ crashes < MaxCrashes
    /\ crashes' = crashes + 1
    /\ pc' = "boot" /\ mounted' = FALSE
    /\ file_table' = [f \in Fds |-> ClosedFile]
    /\ call' = NoCall /\ inode' = ZeroInode
    /\ content' = IF pc \in WriteLabels
                  THEN [content EXCEPT ![call.ino] =
                           sfs_read_file(inodes[call.ino], inodes[call.ino].size, 0)]
                  ELSE content
    /\ UNCHANGED <<disk, created>>

Bufs == UNION {[1 .. k -> Values] : k \in 1 .. MaxCount}

Format == FmtIbm \/ FmtBbm \/ FmtTable \/ FmtAlloc \/ FmtDir \/ FmtInode \/ FmtRoot

CallStep ==
    \/ CreateInode \/ CreateInPlace \/ CreateGrow \/ CreateFail \/ CreateBlock \/ CreateParent
    \/ WriteNext \/ WriteGrow \/ WriteStop \/ WriteBlock \/ WriteInode

Next ==
    \/ Boot \/ Format \/ Mount \/ CallStep \/ Crash
    \/ \E name \in Names : Create(name) \/ Open(name)
    \/ \E fd \in Fds :
          \/ Close(fd)
          \/ \E count \in 1 .. MaxCount : Read(fd, count)
          \/ \E buf \in Bufs : Write(fd, buf)

Spec == Init /\ [][Next]_vars

-----------------------------------------------------------------------------
\* The inode table, the bitmaps and the open files have their types.
TypeOK ==
    /\ ibm \subseteq 0 .. INODES - 1 /\ bbm \subseteq Blocks
    /\ \A i \in Inos :
          /\ inodes[i].ino \in {0} \cup Inos /\ inodes[i].size \in Nat
          /\ Len(inodes[i].blocks) <= DIRECT /\ Range0(inodes[i].blocks) \subseteq Blocks
    /\ \A f \in Fds : file_table[f].ino \in {0} \cup Inos /\ file_table[f].offset \in Nat
    /\ pc \in Labels /\ magic \in BOOLEAN /\ mounted \in BOOLEAN

\* The directory the disk holds, and the inodes it names.
Formatted == inodes[ROOT_INO].type = "dir"
Root == inodes[ROOT_INO]
Listed == {Entry(Root, k).ino : k \in Places(Root)} \ {0}

\* The blocks an inode of the table refers to, as (inode, index) pairs.
Refs == {r \in Inos \X (1 .. DIRECT) : r[2] <= Len(inodes[r[1]].blocks)}
RefBlock(r) == inodes[r[1]].blocks[r[2]]

\* At every step and after every crash, each directory entry names an inode that
\* is marked in use and has been written: create writes the entry last.
EntriesValid ==
    /\ TypeOK
    /\ Formatted /\ pc \notin FormatLabels =>
          \A i \in Listed : i \in ibm /\ inodes[i].ino = i

\* At every step and after every crash, each block an inode refers to is marked in
\* use and belongs to that inode alone, so no write reaches another file's data.
BlocksOwned ==
    /\ \A r \in Refs : RefBlock(r) \in bbm /\ RefBlock(r) >= DATA_START
    /\ \A r, s \in Refs : RefBlock(r) = RefBlock(s) => r = s

\* Every read of a file, at any offset and of any length, returns what the writes
\* that completed left there, whatever was written to other files and wherever the
\* machine crashed; a crash costs at most the file that was being written.
ContentKept ==
    \A c \in created :
        (pc \in WriteLabels => call.ino # c.ino) =>
            \A offset \in 0 .. DIRECT * BLOCK_SIZE, count \in 1 .. MaxCount :
                sfs_read_file(inodes[c.ino], count, offset)
                    = SubSeq(content[c.ino], offset + 1,
                             Min({offset + count, Len(content[c.ino])}))

\* A file that was created is found under its name, by this boot and later ones.
CreatedIsFound == \A c \in created : sfs_lookup(c.name) = c.ino

\* Without crashes no inode number and no block is lost: between calls exactly the
\* listed inodes and the blocks in use are marked.
NothingLeaks ==
    (pc = "idle" /\ crashes = 0) =>
        /\ ibm = {0} \cup Listed
        /\ bbm = (0 .. DATA_START - 1) \cup {RefBlock(r) : r \in Refs}
=============================================================================
