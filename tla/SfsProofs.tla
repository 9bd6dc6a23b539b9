----------------------------- MODULE SfsProofs -----------------------------
(***************************************************************************)
(* Proofs about the file system, for every disk size, every set of names   *)
(* and values and every number of power failures.  The hypothesis Settled  *)
(* is the setting in which the code keeps its promises: power does not     *)
(* fail inside sfs_format, and no program opens the directory itself (the  *)
(* names . and .. are files to sys_open).  CreatedAlwaysFound needs names  *)
(* of one length as well.                                                  *)
(*                                                                         *)
(* None of the properties is inductive: what a block write does depends on *)
(* the inode the call holds in memory.  SfsInv says how that inode relates *)
(* to the table at every step of a call, that a free inode has no blocks,  *)
(* and that the blocks of the file being written hold its old content with *)
(* the copied part of the buffer over it.  The first parts are about       *)
(* places, blocks and directories; then there is one lemma per action; the *)
(* theorems follow.                                                        *)
(***************************************************************************)
EXTENDS Sfs, TLAPS, SequenceTheorems, WellFoundedInduction

\* Power does not fail inside sfs_format, and no program opens the directory itself.
Settled ==
    /\ CrashAt \cap FormatLabels = {}
    /\ \A x \in Names : Parsed(x) \notin {Dot, DotDot}

-----------------------------------------------------------------------------
\* What an inode can be.
Nodes == [ino : {0} \cup Inos, size : Nat, type : {"file", "dir"}, blocks : Seq(Blocks)]

\* What the locals of a call can be.
CallRecords == [name : Names \cup {NoName}, ino : {0} \cup Inos, blk : Blocks, fd : Nat,
                buf : Seq(Values), n : Nat]

\* The types of the variables.
Shape ==
    /\ magic \in BOOLEAN /\ mounted \in BOOLEAN /\ pc \in Labels
    /\ ibm \subseteq 0 .. INODES - 1 /\ bbm \subseteq Blocks
    /\ inodes \in [Inos -> Nodes] /\ inode \in Nodes
    /\ data = [b \in Blocks |-> [o \in Offsets |-> data[b][o]]]
    /\ file_table \in [Fds -> [ino : {0} \cup Inos, offset : Nat, in_use : BOOLEAN]]
    /\ call \in CallRecords
    /\ content = [i \in Inos |-> content[i]]
    /\ created \subseteq [name : Names, ino : Inos] /\ crashes \in Nat

\* The entries of a directory.
Entries(dir, d) == {d[dir.blocks[x]][o] : x \in 1 .. Len(dir.blocks), o \in Offsets}

\* The inodes a directory lists.
ListedIn(dir, d) == {e.ino : e \in Entries(dir, d)} \ {0}

\* The directory block sfs_format writes.
RootBlock == [ZeroBlock EXCEPT ![0] = [ino |-> ROOT_INO, name |-> Dot],
                               ![1] = [ino |-> ROOT_INO, name |-> DotDot]]

\* No inode has been written.
Blank == \A i \in Inos : inodes[i] = ZeroInode

\* The steps before the first call.
Settling == {"boot", "mount"} \cup FormatLabels

\* sfs_format on a blank disk.
FormatInv ==
    /\ ~magic => pc = "boot"
    /\ ~magic \/ pc \in FormatLabels \ {"fmt_root"} => Blank
    /\ ~magic \/ pc \in FormatLabels => created = {}
    /\ pc \in {"fmt_bbm", "fmt_table", "fmt_alloc", "fmt_dir", "fmt_inode", "fmt_root"} => ibm = {0}
    /\ pc \in {"fmt_table", "fmt_alloc"} => bbm = 0 .. DATA_START - 1
    /\ pc \in {"fmt_dir", "fmt_inode"} => bbm = (0 .. DATA_START - 1) \cup {call.blk}
                                          /\ call.blk >= DATA_START
    /\ pc = "fmt_inode" => data[call.blk] = RootBlock
    /\ pc \in Settling => \A f \in Fds : ~file_table[f].in_use

\* The disk has a root directory.
Ready == magic /\ pc \notin FormatLabels \ {"fmt_root"}

\* node's blocks are marked, none of the metadata, and different.
GoodBlocks(node) ==
    /\ Len(node.blocks) <= DIRECT
    /\ \A x \in 1 .. Len(node.blocks) : node.blocks[x] \in bbm /\ node.blocks[x] >= DATA_START
    /\ \A x, y \in 1 .. Len(node.blocks) : node.blocks[x] = node.blocks[y] => x = y

\* Two inodes have no block in common.
Apart(m, n) == \A x \in 1 .. Len(m.blocks), y \in 1 .. Len(n.blocks) : m.blocks[x] # n.blocks[y]

\* Every block of the table's inodes is marked, and belongs to one of them.
BlocksInv ==
    /\ \A i \in Inos : GoodBlocks(inodes[i])
    /\ \A i, j \in Inos : i # j => Apart(inodes[i], inodes[j])

\* There is a directory, and its entries name inodes that are marked and written; the
\* directory itself is listed as . and .. only.
DirInv ==
    Ready =>
        /\ Root.type = "dir" /\ Root.ino = ROOT_INO /\ 0 \in ibm /\ Len(Root.blocks) > 0
        /\ pc # "fmt_root" => ROOT_INO \in ibm
        /\ \A e \in Entries(Root, data) :
              /\ e.ino \in {0} \cup Inos
              /\ e.ino \in {0, ROOT_INO} \cup ibm
              /\ e.ino # 0 => inodes[e.ino].ino = e.ino
              /\ e.ino = ROOT_INO => e.name \in {Dot, DotDot}

\* Files end inside their blocks; an inode the directory does not list has none; open and
\* created files are listed.
FilesInv ==
    /\ \A i \in Inos : i # ROOT_INO =>
          inodes[i].type = "file" /\ inodes[i].size <= Len(inodes[i].blocks) * BLOCK_SIZE
    /\ \A i \in Inos : i # ROOT_INO /\ i \notin ListedIn(Root, data) =>
          inodes[i].size = 0 /\ inodes[i].blocks = << >>
    /\ \A f \in Fds : file_table[f].in_use =>
          /\ file_table[f].ino \in ListedIn(Root, data) \ {ROOT_INO}
          /\ file_table[f].offset <= inodes[file_table[f].ino].size
    /\ \A c \in created : c.ino \in ListedIn(Root, data) \ {ROOT_INO}

\* The block the directory grows by is nobody's yet.
Fresh(b) == /\ b \in bbm /\ b >= DATA_START
            /\ \A i \in Inos : \A x \in 1 .. Len(inodes[i].blocks) : inodes[i].blocks[x] # b

\* The root inode once the directory has its new block.
Grown == [Root EXCEPT !.blocks = Append(@, call.blk)]

\* How far sfs_create has come.
CreateInv ==
    pc \in CreateLabels =>
        /\ call.ino \in ibm \ {0, ROOT_INO} /\ call.name \in Names
        /\ pc \in {"cr_inode", "cr_slot", "cr_block"} =>
              inode = Root /\ call.ino \notin ListedIn(Root, data)
        /\ pc # "cr_inode" => inodes[call.ino] = [ZeroInode EXCEPT !.ino = call.ino]
        /\ pc = "cr_block" => Fresh(call.blk) /\ Len(Root.blocks) < DIRECT
        /\ pc = "cr_parent" =>
              \/ inode = Root /\ call.ino \in ListedIn(Root, data)
              \/ /\ inode = Grown /\ call.ino \notin ListedIn(Root, data)
                 /\ Fresh(call.blk) /\ Len(Root.blocks) < DIRECT
                 /\ data[call.blk][0].ino = call.ino
                 /\ \A o \in Offsets \ {0} : data[call.blk][o] = Zero

\* How far sys_write has come: the inode in memory is the table's with blocks added.
WriteInv ==
    pc \in WriteLabels =>
        /\ call.fd \in Fds /\ call.ino = file_table[call.fd].ino /\ file_table[call.fd].in_use
        /\ inode.ino = call.ino /\ inode.type = "file" /\ call.n <= Len(call.buf)
        /\ inode.size = inodes[call.ino].size
        /\ GoodBlocks(inode)
        /\ \A j \in Inos : j # call.ino => Apart(inode, inodes[j])
        /\ Len(inode.blocks) >= Len(inodes[call.ino].blocks)
        /\ \A x \in 1 .. Len(inodes[call.ino].blocks) : inode.blocks[x] = inodes[call.ino].blocks[x]
        /\ At <= Len(inode.blocks) * BLOCK_SIZE
        /\ pc = "wr_block" => call.n < Len(call.buf) /\ BlockIdx < Len(inode.blocks)

\* The k-th unit of the file whose inode is node, and the first size units.
Unit(node, k, d) == d[node.blocks[((k - 1) \div BLOCK_SIZE) + 1]][(k - 1) % BLOCK_SIZE]
Image(node, size, d) == [k \in 1 .. size |-> Unit(node, k, d)]

\* A file that no call is writing has its content; of the one being written, the
\* blocks hold the old content with the units copied so far over it.
KeptInv ==
    /\ \A i \in Inos : i # ROOT_INO /\ (pc \in WriteLabels => i # call.ino) =>
          content[i] = Image(inodes[i], inodes[i].size, data)
    /\ pc \in WriteLabels =>
          /\ content[call.ino] = [k \in 1 .. inode.size |-> content[call.ino][k]]
          /\ \A k \in 1 .. NewSize :
                Unit(inode, k, data) =
                    IF k \in file_table[call.fd].offset + 1 .. At
                    THEN call.buf[k - file_table[call.fd].offset] ELSE content[call.ino][k]

\* The blocks the inode table refers to.
InodeBlocks == UNION {Range0(inodes[i].blocks) : i \in Inos}

\* Without crashes the bitmaps mark what is in use, and what the call in progress has taken.
LeakInv ==
    Ready /\ crashes = 0 =>
        /\ ibm \cup {ROOT_INO} = {0} \cup ListedIn(Root, data)
                       \cup (IF pc \in CreateLabels THEN {call.ino} ELSE {})
        /\ bbm = (0 .. DATA_START - 1) \cup InodeBlocks
                    \cup Range0(inode.blocks) \cup (IF pc = "cr_block" THEN {call.blk} ELSE {})

\* Between calls the locals are empty.
IdleInv == pc \notin CreateLabels \cup WriteLabels => inode = ZeroInode

\* The inductive invariant.
SfsInv == /\ Shape /\ FormatInv /\ BlocksInv /\ DirInv /\ FilesInv /\ CreateInv /\ WriteInv
          /\ KeptInv /\ LeakInv /\ IdleInv

-----------------------------------------------------------------------------
(* Where a unit of a file is: places, blocks and offsets.                    *)

\* A place is a number of blocks and an offset.
LEMMA PlaceParts ==
    ASSUME NEW x \in Nat
    PROVE  /\ x \div BLOCK_SIZE \in Nat /\ x % BLOCK_SIZE \in Offsets
           /\ x = BLOCK_SIZE * (x \div BLOCK_SIZE) + (x % BLOCK_SIZE)
BY SfsAssumption DEF Offsets

\* Blocks are as far apart as they are long.
LEMMA BlocksBetween ==
    ASSUME NEW p \in Nat, NEW q \in Nat, p < q
    PROVE  BLOCK_SIZE * p + BLOCK_SIZE <= BLOCK_SIZE * q
BY SfsAssumption

\* A place is in one block, at one offset.
LEMMA PlaceUnique ==
    ASSUME NEW p \in Nat, NEW r \in Offsets
    PROVE  /\ BLOCK_SIZE * p + r \in Nat
           /\ (BLOCK_SIZE * p + r) \div BLOCK_SIZE = p
           /\ (BLOCK_SIZE * p + r) % BLOCK_SIZE = r
BY SfsAssumption DEF Offsets

\* The first n blocks hold the places below n * BLOCK_SIZE.
LEMMA PlaceBelow ==
    ASSUME NEW x \in Nat, NEW n \in Nat
    PROVE  x \div BLOCK_SIZE < n <=> x < n * BLOCK_SIZE
<1> DEFINE q == x \div BLOCK_SIZE
           r == x % BLOCK_SIZE
<1>1. q \in Nat /\ r \in Offsets /\ x = BLOCK_SIZE * q + r
  BY PlaceParts
<1> HIDE DEF q, r
<1>2. CASE q < n
  <2>1. BLOCK_SIZE * q + BLOCK_SIZE <= BLOCK_SIZE * n
    BY <1>1, <1>2, BlocksBetween
  <2>2. x < BLOCK_SIZE * n
    BY <1>1, <2>1, SfsAssumption DEF Offsets
  <2>3. QED
    BY <1>2, <2>2, SfsAssumption DEF q
<1>3. CASE ~(q < n)
  <2>1. q = n \/ n < q
    BY <1>1, <1>3
  <2>2. BLOCK_SIZE * n <= BLOCK_SIZE * q
    <3>1. CASE q = n
      BY <1>1, <3>1, SfsAssumption
    <3>2. CASE n < q
      <4>1. BLOCK_SIZE * n + BLOCK_SIZE <= BLOCK_SIZE * q
        BY <1>1, <3>2, BlocksBetween
      <4>2. QED
        BY <1>1, <4>1, SfsAssumption
    <3>3. QED
      BY <2>1, <3>1, <3>2
  <2>3. ~(x < BLOCK_SIZE * n)
    BY <1>1, <2>2, SfsAssumption DEF Offsets
  <2>4. QED
    BY <1>3, <2>3, SfsAssumption DEF q
<1>4. QED
  BY <1>2, <1>3

\* The places from x on, as far as x's block goes, are in the same block.
LEMMA SameBlock ==
    ASSUME NEW x \in Nat, NEW y \in Nat, x <= y,
           (x % BLOCK_SIZE) + (y - x) < BLOCK_SIZE
    PROVE  /\ y \div BLOCK_SIZE = x \div BLOCK_SIZE
           /\ y % BLOCK_SIZE = (x % BLOCK_SIZE) + (y - x)
<1> DEFINE q == x \div BLOCK_SIZE
           r == (x % BLOCK_SIZE) + (y - x)
<1>1. q \in Nat /\ x % BLOCK_SIZE \in Offsets /\ x = BLOCK_SIZE * q + (x % BLOCK_SIZE)
  BY PlaceParts
<1>2. r \in Offsets
  BY <1>1, SfsAssumption DEF Offsets
<1>3. y = BLOCK_SIZE * q + r
  <2> DEFINE m == x % BLOCK_SIZE
             b == BLOCK_SIZE * q
  <2>1. m \in Int /\ b \in Int /\ x = b + m
    BY <1>1, SfsAssumption DEF Offsets
  <2> HIDE DEF m, b
  <2>2. y = b + (m + (y - x))
    BY <2>1
  <2>3. QED
    BY <2>2 DEF m, b
<1> HIDE DEF q, r
<1>4. (BLOCK_SIZE * q + r) \div BLOCK_SIZE = q /\ (BLOCK_SIZE * q + r) % BLOCK_SIZE = r
  BY <1>1, <1>2, PlaceUnique
<1>5. QED
  BY <1>3, <1>4 DEF q, r

\* A non-empty set of naturals has a minimum, and Min is it.
LEMMA MinOfNats ==
    ASSUME NEW S \in SUBSET Nat, S # {}
    PROVE  Min(S) \in S /\ \A y \in S : Min(S) <= y
<1>1. PICK x \in S : \A y \in S : ~(<<y, x>> \in OpToRel(<, Nat))
  BY NatLessThanWellFounded, WFMin
<1>2. \A y \in S : x <= y
  <2> SUFFICES ASSUME NEW y \in S PROVE ~(y < x)
    OBVIOUS
  <2>1. <<y, x>> \in Nat \X Nat
    OBVIOUS
  <2>2. QED
    BY <1>1, <2>1 DEF OpToRel
<1>3. QED
  BY <1>2 DEF Min

-----------------------------------------------------------------------------
(* Directories.                                                              *)

\* A place of a directory is one of its entries, and every entry has a place.
LEMMA PlacesAreEntries ==
    ASSUME NEW dir \in Nodes
    PROVE  /\ Places(dir) \subseteq Nat
           /\ \A k \in Places(dir) : /\ (k \div BLOCK_SIZE) + 1 \in 1 .. Len(dir.blocks)
                                     /\ k % BLOCK_SIZE \in Offsets
           /\ \A x \in 1 .. Len(dir.blocks), o \in Offsets :
                 \E k \in Places(dir) : (k \div BLOCK_SIZE) + 1 = x /\ k % BLOCK_SIZE = o
<1> DEFINE n == Len(dir.blocks)
<1>1. n \in Nat
  BY DEF Nodes
<1> HIDE DEF n
<1>2. n * BLOCK_SIZE \in Nat
  BY <1>1, SfsAssumption
<1>3. Places(dir) = 0 .. n * BLOCK_SIZE - 1
  BY DEF Places, n
<1>4. \A k \in Places(dir) : (k \div BLOCK_SIZE) + 1 \in 1 .. n /\ k % BLOCK_SIZE \in Offsets
  <2> TAKE k \in Places(dir)
  <2>1. k \in Nat /\ k < n * BLOCK_SIZE
    BY <1>2, <1>3
  <2>2. k \div BLOCK_SIZE < n /\ k \div BLOCK_SIZE \in Nat /\ k % BLOCK_SIZE \in Offsets
    BY <1>1, <2>1, PlaceBelow, PlaceParts
  <2>3. QED
    BY <1>1, <2>2
<1>5. ASSUME NEW x \in 1 .. n, NEW o \in Offsets
      PROVE  \E k \in Places(dir) : (k \div BLOCK_SIZE) + 1 = x /\ k % BLOCK_SIZE = o
  <2> DEFINE k == BLOCK_SIZE * (x - 1) + o
  <2>1. x - 1 \in Nat /\ x - 1 < n
    BY <1>1, <1>5
  <2>2. k \in Nat /\ k \div BLOCK_SIZE = x - 1 /\ k % BLOCK_SIZE = o
    BY <2>1, PlaceUnique
  <2> HIDE DEF k
  <2>3. k < n * BLOCK_SIZE
    BY <1>1, <2>1, <2>2, PlaceBelow
  <2>4. k \in Places(dir)
    BY <1>2, <1>3, <2>2, <2>3
  <2>5. QED
    BY <2>2, <2>4, <1>5
<1>6. QED
  BY <1>2, <1>3, <1>4, <1>5 DEF n

\* What Listed reads place by place is what the blocks list.
LEMMA ListedByBlocks ==
    ASSUME Root \in Nodes
    PROVE  Listed = ListedIn(Root, data)
<1>1. \A e : (\E k \in Places(Root) : e = Entry(Root, k)) <=> e \in Entries(Root, data)
  BY PlacesAreEntries DEF Entries, Entry
<1>2. QED
  BY <1>1 DEF Listed, ListedIn

\* sfs_lookup finds nothing, or an inode the directory lists under that name.
LEMMA LookupListed ==
    ASSUME Root \in Nodes, NEW name
    PROVE  \/ sfs_lookup(name) = -1
           \/ \E e \in Entries(Root, data) : e.ino # 0 /\ e.name = name /\ sfs_lookup(name) = e.ino
<1>1. CASE Matches(name) = {}
  BY <1>1 DEF sfs_lookup
<1>2. CASE Matches(name) # {}
  <2> DEFINE k == Min(Matches(name))
  <2>1. Matches(name) \subseteq Places(Root) /\ Places(Root) \subseteq Nat
    BY PlacesAreEntries DEF Matches, Root
  <2>2. k \in Matches(name)
    BY <1>2, <2>1, MinOfNats
  <2>3. k \in Places(Root) /\ Entry(Root, k).ino # 0 /\ Entry(Root, k).name = name
    BY <1>2, <2>2 DEF Matches, Root
  <2>4. Entry(Root, k) \in Entries(Root, data)
    BY <2>3, PlacesAreEntries DEF Entries, Entry
  <2>5. sfs_lookup(name) = Entry(Root, k).ino
    BY <1>2 DEF sfs_lookup, Root
  <2>6. QED
    BY <2>3, <2>4, <2>5
<1>3. QED
  BY <1>1, <1>2

-----------------------------------------------------------------------------
(* Files.                                                                    *)

\* A function on 1 .. n is a sequence of length n.
LEMMA FunctionIsSeq ==
    ASSUME NEW n \in Nat, NEW f, f = [k \in 1 .. n |-> f[k]]
    PROVE  Len(f) = n /\ \E T : f \in Seq(T)
<1> DEFINE T == {f[k] : k \in 1 .. n}
<1>1. f \in [1 .. n -> T]
  <2>1. \A k \in 1 .. n : f[k] \in T
    OBVIOUS
  <2> HIDE DEF T
  <2>2. [k \in 1 .. n |-> f[k]] \in [1 .. n -> T]
    BY <2>1
  <2>3. QED
    BY <2>2
<1> HIDE DEF T
<1>2. f \in Seq(T)
  BY <1>1, SeqDef
<1>3. Len(f) \in Nat /\ DOMAIN f = 1 .. Len(f)
  BY <1>2, LenProperties
<1>4. DOMAIN f = 1 .. n
  BY <1>1
<1>5. Len(f) = n
  BY <1>3, <1>4
<1>6. QED
  BY <1>2, <1>5

\* What Min and Max make of a few numbers.
LEMMA MinOfThree ==
    ASSUME NEW a \in Int, NEW b \in Int, NEW c \in Int
    PROVE  /\ Min({a, b, c}) \in {a, b, c}
           /\ Min({a, b, c}) <= a /\ Min({a, b, c}) <= b /\ Min({a, b, c}) <= c
<1>1. \E x \in {a, b, c} : \A y \in {a, b, c} : x <= y
  <2>1. CASE a <= b /\ a <= c
    BY <2>1
  <2>2. CASE b <= a /\ b <= c
    BY <2>2
  <2>3. CASE c <= a /\ c <= b
    BY <2>3
  <2>4. QED
    BY <2>1, <2>2, <2>3
<1>2. QED
  BY <1>1 DEF Min

\* The smaller of two integers.
LEMMA MinOfTwo ==
    ASSUME NEW a \in Int, NEW b \in Int
    PROVE  Min({a, b}) = IF a <= b THEN a ELSE b
BY DEF Min

\* The larger of two integers.
LEMMA MaxOfTwo ==
    ASSUME NEW a \in Int, NEW b \in Int
    PROVE  Max({a, b}) = IF a >= b THEN a ELSE b
BY DEF Max

\* An inode whose blocks can hold its size.
Holds(node) == node.size <= Len(node.blocks) * BLOCK_SIZE

\* How much a read returns, and which units.
LEMMA ReadUnits ==
    ASSUME NEW node \in Nodes, Holds(node), NEW count \in Nat, NEW offset \in Nat
    PROVE  LET r == sfs_read_file(node, count, offset)
               n == IF offset >= node.size THEN 0
                    ELSE IF count <= node.size - offset THEN count ELSE node.size - offset
           IN  n \in Nat /\ Len(r) = n /\ r = [i \in 1 .. n |-> Unit(node, offset + i, data)]
<1> DEFINE r == sfs_read_file(node, count, offset)
           n == IF offset >= node.size THEN 0
                ELSE IF count <= node.size - offset THEN count ELSE node.size - offset
           room == Len(node.blocks) * BLOCK_SIZE - offset
           avail == Min({count, node.size - offset, room})
<1>1. node.size \in Nat /\ room \in Int /\ node.size - offset <= room
  <2>1. node.size \in Nat /\ Len(node.blocks) \in Nat
    BY DEF Nodes
  <2>2. Len(node.blocks) * BLOCK_SIZE \in Nat
    BY <2>1, SfsAssumption
  <2>3. QED
    BY <2>1, <2>2 DEF Holds
<1> HIDE DEF room
<1>2. n \in Nat
  BY <1>1
<1>3. CASE offset >= node.size
  <2>1. r = << >> /\ n = 0
    BY <1>3 DEF sfs_read_file
  <2>2. r = [i \in 1 .. n |-> Unit(node, offset + i, data)]
    BY <2>1
  <2>3. QED
    BY <1>2, <2>1, <2>2
<1>4. CASE ~(offset >= node.size)
  <2>1. /\ avail \in {count, node.size - offset, room}
        /\ avail <= count /\ avail <= node.size - offset /\ avail <= room
    <3>1. node.size - offset \in Int /\ count \in Int /\ room \in Int
      BY <1>1
    <3>2. QED
      BY ONLY <3>1, MinOfThree, Zenon DEF avail
  <2> HIDE DEF avail
  <2>2. avail = n
    BY <1>1, <1>4, <2>1
  <2>3. r = [i \in 1 .. avail |->
                data[node.blocks[((offset + i - 1) \div BLOCK_SIZE) + 1]][(offset + i - 1) % BLOCK_SIZE]]
    BY <1>4 DEF sfs_read_file, avail, room
  <2>4. \A i \in 1 .. n : offset + i - 1 = (offset + i) - 1
    BY <1>2
  <2>5. r = [i \in 1 .. n |-> Unit(node, offset + i, data)]
    BY <2>2, <2>3, <2>4 DEF Unit
  <2>6. r = [i \in 1 .. n |-> r[i]]
    BY <2>5
  <2> HIDE DEF r, n
  <2>7. Len(r) = n
    BY <1>2, <2>6, FunctionIsSeq
  <2>8. QED
    BY <1>2, <2>5, <2>7 DEF r, n
<1>5. QED
  BY <1>3, <1>4

\* A read of a file returns the corresponding part of what its blocks hold.
LEMMA ReadsImage ==
    ASSUME NEW node \in Nodes, Holds(node), NEW s, s = Image(node, node.size, data),
           NEW count \in Nat, NEW offset \in Nat
    PROVE  sfs_read_file(node, count, offset)
               = SubSeq(s, offset + 1, Min({offset + count, Len(s)}))
<1> DEFINE n == IF offset >= node.size THEN 0
                ELSE IF count <= node.size - offset THEN count ELSE node.size - offset
           r == sfs_read_file(node, count, offset)
           m == Min({offset + count, Len(s)})
<1>1. node.size \in Nat
  BY DEF Nodes
<1>2. Len(s) = node.size /\ \E T : s \in Seq(T)
  <2>1. s = [k \in 1 .. node.size |-> s[k]]
    BY DEF Image
  <2>2. QED
    BY <1>1, <2>1, FunctionIsSeq
<1>3. n \in Nat /\ r = [i \in 1 .. n |-> Unit(node, offset + i, data)]
  BY ReadUnits
<1>4. m = IF offset + count <= node.size THEN offset + count ELSE node.size
  BY <1>1, <1>2, MinOfTwo
<1> HIDE DEF m, n, r
<1>5. PICK T : s \in Seq(T)
  BY <1>2
<1>6. CASE offset >= node.size
  <2>1. m < offset + 1 /\ m \in Int /\ n = 0
    BY <1>1, <1>4, <1>6 DEF n
  <2>2. SubSeq(s, offset + 1, m) = << >>
    BY <1>5, <2>1, SubSeqEmpty
  <2>3. r = << >>
    BY <1>3, <2>1
  <2>4. QED
    BY <2>2, <2>3 DEF r, m
<1>7. CASE ~(offset >= node.size)
  <2>1. /\ offset + 1 \in 1 .. Len(s) + 1 /\ m \in offset .. Len(s)
        /\ m - (offset + 1) + 1 = n /\ m = offset + n
    BY <1>1, <1>2, <1>4, <1>7 DEF n
  <2> DEFINE q == SubSeq(s, offset + 1, m)
  <2>2. /\ q \in Seq(T) /\ Len(q) = n
        /\ \A i \in 1 .. n : q[i] = s[offset + 1 + i - 1]
    <3>1. \A i \in offset + 1 .. m : s[i] \in T
      BY <1>5, <2>1
    <3>2. offset + 1 \in Int /\ m \in Int /\ (offset + 1 <= m => m - (offset + 1) + 1 = n)
      BY <2>1
    <3>3. /\ q \in Seq(T) /\ Len(q) = IF offset + 1 <= m THEN m - (offset + 1) + 1 ELSE 0
          /\ \A i \in 1 .. m - (offset + 1) + 1 : q[i] = s[(offset + 1) + i - 1]
      BY <3>1, <3>2, SubSeqProperties
    <3>4. (offset + 1 <= m) \/ n = 0
      BY <1>3, <2>1
    <3>5. \A i \in 1 .. n : (offset + 1) + i - 1 = offset + 1 + i - 1
      BY <1>3
    <3> HIDE DEF q
    <3>6. QED
      BY <2>1, <3>2, <3>3, <3>4, <3>5
  <2> HIDE DEF q
  <2>3. q = [i \in 1 .. n |-> q[i]]
    BY <2>2
  <2>4. \A i \in 1 .. n : q[i] = Unit(node, offset + i, data)
    <3> TAKE i \in 1 .. n
    <3>1. offset + i \in 1 .. node.size /\ offset + 1 + i - 1 = offset + i
      BY <1>1, <1>3, <1>7 DEF n
    <3>2. QED
      BY <2>2, <3>1 DEF Image
  <2>5. QED
    BY <1>3, <2>3, <2>4 DEF r, m, q
<1>8. QED
  BY <1>6, <1>7 DEF r, m

\* The block and the offset of the k-th unit.
LEMMA UnitPlace ==
    ASSUME NEW node \in Nodes, NEW k \in Nat \ {0}, k <= Len(node.blocks) * BLOCK_SIZE
    PROVE  /\ (k - 1) \div BLOCK_SIZE \in Nat
           /\ ((k - 1) \div BLOCK_SIZE) + 1 \in 1 .. Len(node.blocks)
           /\ (k - 1) % BLOCK_SIZE \in Offsets
<1>1. Len(node.blocks) \in Nat /\ k - 1 \in Nat
  BY DEF Nodes
<1>2. k - 1 < Len(node.blocks) * BLOCK_SIZE
  <2>1. Len(node.blocks) * BLOCK_SIZE \in Nat
    BY <1>1, SfsAssumption
  <2>2. QED
    BY <2>1
<1>3. (k - 1) \div BLOCK_SIZE < Len(node.blocks)
  BY <1>1, <1>2, PlaceBelow
<1>4. (k - 1) \div BLOCK_SIZE \in Nat /\ (k - 1) % BLOCK_SIZE \in Offsets
  BY <1>1, PlaceParts
<1>5. QED
  BY <1>1, <1>3, <1>4

\* A file whose blocks stay as they are stays as it is.
LEMMA ImageSame ==
    ASSUME NEW node \in Nodes, NEW size \in Nat, size <= Len(node.blocks) * BLOCK_SIZE,
           NEW d, NEW e, \A x \in 1 .. Len(node.blocks) : d[node.blocks[x]] = e[node.blocks[x]]
    PROVE  /\ \A k \in 1 .. size : Unit(node, k, d) = Unit(node, k, e)
           /\ Image(node, size, d) = Image(node, size, e)
<1>1. \A k \in 1 .. size : Unit(node, k, d) = Unit(node, k, e)
  <2> TAKE k \in 1 .. size
  <2>1. k \in Nat \ {0} /\ k <= Len(node.blocks) * BLOCK_SIZE
    <3>1. Len(node.blocks) \in Nat
      BY DEF Nodes
    <3>2. Len(node.blocks) * BLOCK_SIZE \in Nat
      BY <3>1, SfsAssumption
    <3>3. QED
      BY <3>2
  <2>2. ((k - 1) \div BLOCK_SIZE) + 1 \in 1 .. Len(node.blocks)
    BY <2>1, UnitPlace
  <2>3. QED
    BY <2>2 DEF Unit
<1>2. QED
  BY <1>1 DEF Image

\* A file that grows by a block keeps its units.
LEMMA UnitsOfPrefix ==
    ASSUME NEW m \in Nodes, NEW n \in Nodes, NEW d,
           \A x \in 1 .. Len(m.blocks) : n.blocks[x] = m.blocks[x],
           NEW k \in Nat \ {0}, k <= Len(m.blocks) * BLOCK_SIZE
    PROVE  Unit(n, k, d) = Unit(m, k, d)
BY UnitPlace DEF Unit

\* e is d with t units of src copied into node's block of place a, from a on.
UnitsInto(node, a, t, d, e, src) ==
    \A x \in 1 .. Len(node.blocks), o \in Offsets :
        e[node.blocks[x]][o] =
            IF x = (a \div BLOCK_SIZE) + 1 /\ o \in a % BLOCK_SIZE .. (a % BLOCK_SIZE) + t - 1
            THEN src[a + (o - (a % BLOCK_SIZE)) + 1] ELSE d[node.blocks[x]][o]

\* What copying t units into the block of place a does to the units of the file.
LEMMA UnitsCopied ==
    ASSUME NEW node \in Nodes, NEW a \in Nat, NEW t \in Nat, NEW d, NEW e, NEW src,
           (a % BLOCK_SIZE) + t <= BLOCK_SIZE, UnitsInto(node, a, t, d, e, src),
           NEW k \in Nat \ {0}, k <= Len(node.blocks) * BLOCK_SIZE
    PROVE  Unit(node, k, e) = IF k \in a + 1 .. a + t THEN src[k] ELSE Unit(node, k, d)
<1> DEFINE x == ((k - 1) \div BLOCK_SIZE) + 1
           o == (k - 1) % BLOCK_SIZE
           q == a \div BLOCK_SIZE
           off == a % BLOCK_SIZE
<1>1. x \in 1 .. Len(node.blocks) /\ o \in Offsets /\ (k - 1) \div BLOCK_SIZE \in Nat
  BY UnitPlace
<1>2. q \in Nat /\ off \in Offsets /\ a = BLOCK_SIZE * q + off
  BY PlaceParts
<1>3. Unit(node, k, e) = e[node.blocks[x]][o] /\ Unit(node, k, d) = d[node.blocks[x]][o]
  BY DEF Unit
<1>4. e[node.blocks[x]][o] = IF x = q + 1 /\ o \in off .. off + t - 1
                             THEN src[a + (o - off) + 1] ELSE d[node.blocks[x]][o]
  BY <1>1 DEF UnitsInto
<1>5. CASE k \in a + 1 .. a + t
  <2>1. k - 1 \in Nat /\ a <= k - 1 /\ off + ((k - 1) - a) < BLOCK_SIZE
    <3>1. off \in Nat /\ BLOCK_SIZE \in Nat /\ off + t <= BLOCK_SIZE
      BY <1>2, SfsAssumption DEF Offsets
    <3> HIDE DEF off
    <3>2. QED
      BY <3>1, <1>5
  <2>2. x = q + 1 /\ o = off + ((k - 1) - a)
    BY <2>1, SameBlock
  <2>3. off \in Nat
    BY <1>2, SfsAssumption DEF Offsets
  <2> HIDE DEF x, o, q, off
  <2>4. o \in off .. off + t - 1 /\ a + (o - off) + 1 = k
    BY <1>5, <2>1, <2>2, <2>3
  <2>5. QED
    BY <1>3, <1>4, <1>5, <2>2, <2>4
<1>6. CASE k \notin a + 1 .. a + t
  <2>1. ~(x = q + 1 /\ o \in off .. off + t - 1)
    <3> SUFFICES ASSUME x = q + 1, o \in off .. off + t - 1 PROVE FALSE
      OBVIOUS
    <3>1. k - 1 = BLOCK_SIZE * ((k - 1) \div BLOCK_SIZE) + o
      BY PlaceParts
    <3>2. (k - 1) \div BLOCK_SIZE = q
      BY <1>1, <1>2
    <3> DEFINE b == BLOCK_SIZE * q
    <3>3. b \in Int /\ off \in Int /\ o \in Int
      BY <1>1, <1>2, SfsAssumption DEF Offsets
    <3>4. k - 1 = b + o /\ a = b + off
      BY <1>2, <3>1, <3>2
    <3> HIDE DEF b, o, off, x, q
    <3>5. QED
      BY <1>6, <3>3, <3>4
  <2>2. QED
    BY <1>3, <1>4, <1>6, <2>1
<1>7. QED
  BY <1>5, <1>6

-----------------------------------------------------------------------------
(* What the parts of the invariant depend on.                                *)

\* Marking more blocks takes none from an inode.
LEMMA BlocksFrame ==
    ASSUME BlocksInv, inodes' = inodes, bbm \subseteq bbm'
    PROVE  BlocksInv'
BY DEF BlocksInv, GoodBlocks, Apart

\* Steps that write no inode and no data leave the directory as it was.
LEMMA DirFrame ==
    ASSUME DirInv, Ready' => Ready, inodes' = inodes, data' = data, ibm \subseteq ibm',
           Ready' /\ pc' # "fmt_root" => ROOT_INO \in ibm'
    PROVE  DirInv'
BY DEF DirInv, Entries, Root

\* Steps that write no inode, no data and no open file leave the files as they were.
LEMMA FilesFrame ==
    ASSUME FilesInv, inodes' = inodes, data' = data, file_table' = file_table, created' = created
    PROVE  FilesInv'
BY DEF FilesInv, ListedIn, Entries, Root

\* Steps outside sys_write that write no inode and no data keep every content.
LEMMA KeptFrame ==
    ASSUME KeptInv, inodes' = inodes, data' = data, content' = content,
           pc \notin WriteLabels, pc' \notin WriteLabels
    PROVE  KeptInv'
BY DEF KeptInv, Image, Unit

\* Once the disk is formatted and mounted nothing is asked of sfs_format.
LEMMA FormatFrame ==
    ASSUME magic', pc' \notin Settling
    PROVE  FormatInv'
BY DEF FormatInv, Settling, FormatLabels

\* The directory lists the same inodes while nothing is written.
LEMMA ListedFrame ==
    ASSUME inodes' = inodes, data' = data
    PROVE  ListedIn(Root, data)' = ListedIn(Root, data)
BY DEF ListedIn, Entries, Root

\* Steps that touch neither bitmap nor what it stands for leak nothing.
LEMMA LeakFrame ==
    ASSUME LeakInv, Ready' => Ready, inodes' = inodes, data' = data, ibm' = ibm, bbm' = bbm,
           crashes' = crashes, inode' = inode, pc \notin CreateLabels, pc' \notin CreateLabels
    PROVE  LeakInv'
<1>1. ListedIn(Root, data)' = ListedIn(Root, data)
  BY ListedFrame
<1>2. InodeBlocks' = InodeBlocks
  BY DEF InodeBlocks, Range0
<1>3. Range0(inode.blocks)' = Range0(inode.blocks)
  BY DEF Range0
<1>4. pc # "cr_block" /\ pc' # "cr_block"
  BY DEF CreateLabels
<1>5. QED
  BY <1>1, <1>2, <1>3, <1>4 DEF LeakInv

-----------------------------------------------------------------------------
(* Boot and format.                                                          *)

\* A blank disk satisfies the invariant.
LEMMA InitSfs == Init => SfsInv
<1> SUFFICES ASSUME Init PROVE SfsInv
  OBVIOUS
<1>1. \A i \in Inos : inodes[i] = ZeroInode
  BY DEF Init
<1>2. ZeroInode \in Nodes /\ ZeroInode.blocks = << >> /\ ZeroInode.size = 0
  BY DEF ZeroInode, Nodes
<1>3. ROOT_INO \in Inos
  BY SfsAssumption DEF ROOT_INO, Inos
<1>4. Len(<< >>) = 0
  OBVIOUS
<1>5. Shape
  <2>1. NoCall.blk \in Blocks
    BY SfsAssumption DEF NoCall, Blocks
  <2>2. data = [b \in Blocks |-> [o \in Offsets |-> data[b][o]]]
    BY DEF Init, ZeroBlock
  <2>3. NoCall \in CallRecords
    BY <2>1 DEF NoCall, CallRecords
  <2>4. QED
    BY <1>2, <2>2, <2>3 DEF Init, Shape, Labels, ClosedFile
<1>6. FormatInv
  BY <1>1 DEF Init, FormatInv, Blank, FormatLabels, ClosedFile
<1>7. BlocksInv
  BY <1>1, <1>2, <1>4, SfsAssumption DEF BlocksInv, GoodBlocks, Apart
<1>8. DirInv /\ LeakInv
  BY DEF Init, DirInv, LeakInv, Ready
<1>9. FilesInv
  BY <1>1, <1>2, <1>4, SfsAssumption DEF Init, FilesInv, ClosedFile, ZeroInode
<1>10. CreateInv /\ WriteInv /\ IdleInv
  BY DEF Init, CreateInv, WriteInv, IdleInv, CreateLabels, WriteLabels
<1>11. KeptInv
  BY <1>1, <1>2 DEF Init, KeptInv, Image, WriteLabels
<1>12. QED
  BY <1>5, <1>6, <1>7, <1>8, <1>9, <1>10, <1>11 DEF SfsInv

\* kernel.c mounts a formatted disk and starts to format a blank one.
LEMMA BootKeeps == ASSUME SfsInv, Boot PROVE SfsInv'
<1> USE DEF Boot
<1>1. Shape'
  BY DEF SfsInv, Shape, Labels, FormatLabels, ghost
<1>2. FormatInv'
  BY DEF SfsInv, FormatInv, Settling, FormatLabels, Blank, ghost
<1>3. BlocksInv' /\ FilesInv'
  BY BlocksFrame, FilesFrame DEF SfsInv, ghost
<1>4. Ready' => Ready /\ pc' = "mount"
  BY DEF Ready, FormatLabels
<1>5. DirInv'
  BY <1>4, DirFrame DEF SfsInv, DirInv
<1>6. CreateInv' /\ WriteInv' /\ IdleInv'
  BY DEF SfsInv, CreateInv, WriteInv, IdleInv, CreateLabels, WriteLabels
<1>7. KeptInv'
  BY KeptFrame DEF SfsInv, WriteLabels, ghost
<1>8. LeakInv'
  BY <1>4, LeakFrame DEF SfsInv, CreateLabels, ghost
<1>9. QED
  BY <1>1, <1>2, <1>3, <1>5, <1>6, <1>7, <1>8 DEF SfsInv

\* sfs_mount closes all files.
LEMMA MountKeeps == ASSUME SfsInv, Mount PROVE SfsInv'
<1> USE DEF Mount
<1>0. magic /\ UNCHANGED <<magic, ibm, bbm, inodes, data, content, created, crashes>>
  BY DEF SfsInv, FormatInv, disk, ghost
<1>1. Shape'
  BY <1>0 DEF SfsInv, Shape, Labels
<1>2. FormatInv'
  BY <1>0, FormatFrame DEF Settling, FormatLabels
<1>3. BlocksInv'
  BY <1>0, BlocksFrame DEF SfsInv
<1>4. FilesInv'
  <2>1. \A f \in Fds : ~file_table'[f].in_use
    BY DEF SfsInv, Shape
  <2>2. ListedIn(Root, data)' = ListedIn(Root, data)
    BY <1>0, ListedFrame
  <2>3. QED
    BY <1>0, <2>1, <2>2 DEF SfsInv, FilesInv
<1>5. Ready' /\ Ready
  BY <1>0 DEF Ready, FormatLabels
<1>6. DirInv'
  BY <1>0, <1>5, DirFrame DEF SfsInv, DirInv
<1>7. CreateInv' /\ WriteInv' /\ IdleInv'
  BY DEF SfsInv, CreateInv, WriteInv, IdleInv, CreateLabels, WriteLabels
<1>8. KeptInv'
  BY <1>0, KeptFrame DEF SfsInv, WriteLabels
<1>9. LeakInv'
  BY <1>0, <1>5, LeakFrame DEF SfsInv, CreateLabels
<1>10. QED
  BY <1>1, <1>2, <1>3, <1>4, <1>6, <1>7, <1>8, <1>9 DEF SfsInv

\* While the disk is still blank only sfs_format's own part of the invariant matters.
LEMMA BlankSuffices ==
    ASSUME SfsInv, Blank, Shape', FormatInv', Blank', pc' \in FormatLabels \ {"fmt_root"},
           content' = content, file_table' = file_table, inode' = inode, pc \in FormatLabels
    PROVE  SfsInv'
<1>1. ~Ready' /\ pc' \notin CreateLabels \cup WriteLabels /\ pc \notin CreateLabels \cup WriteLabels
  BY DEF Ready, CreateLabels, WriteLabels, FormatLabels
<1>2. ZeroInode.blocks = << >> /\ ZeroInode.size = 0 /\ ZeroInode.type = "file" /\ Len(<< >>) = 0
  BY DEF ZeroInode
<1>3. BlocksInv'
  BY <1>2, SfsAssumption DEF Blank, BlocksInv, GoodBlocks, Apart
<1>4. DirInv' /\ LeakInv' /\ CreateInv' /\ WriteInv'
  BY <1>1 DEF DirInv, LeakInv, CreateInv, WriteInv
<1>5. IdleInv'
  BY <1>1 DEF SfsInv, IdleInv
<1>6. FilesInv'
  <2>1. created' = {} /\ \A f \in Fds : ~file_table'[f].in_use
    BY DEF FormatInv, Settling
  <2>2. QED
    BY <1>2, <2>1, SfsAssumption DEF Blank, FilesInv
<1>7. KeptInv'
  <2>1. \A i \in Inos : i # ROOT_INO => content[i] = Image(inodes[i], inodes[i].size, data)
    BY <1>1 DEF SfsInv, KeptInv
  <2>2. \A i \in Inos : i # ROOT_INO => content'[i] = Image(inodes'[i], inodes'[i].size, data')
    BY <1>2, <2>1 DEF Blank, Image
  <2>3. QED
    BY <1>1, <2>2 DEF KeptInv
<1>8. QED
  BY <1>3, <1>4, <1>5, <1>6, <1>7 DEF SfsInv

\* The bitmaps and the inode table of a blank disk are written.
LEMMA FormatSets ==
    ASSUME SfsInv, FmtIbm \/ FmtBbm \/ FmtTable
    PROVE  SfsInv'
<1>1. /\ pc \in FormatLabels \ {"fmt_root"} /\ pc' \in FormatLabels \ {"fmt_root"}
      /\ content' = content /\ file_table' = file_table /\ inode' = inode /\ created' = created
      /\ data' = data /\ call' = call /\ magic' = magic /\ mounted' = mounted /\ crashes' = crashes
  BY DEF FmtIbm, FmtBbm, FmtTable, FormatLabels, ghost
<1>2. Blank /\ created = {} /\ magic /\ \A f \in Fds : ~file_table[f].in_use
  BY <1>1 DEF SfsInv, FormatInv, Settling, FormatLabels
<1>3. Blank'
  BY <1>2 DEF FmtIbm, FmtBbm, FmtTable, Blank
<1>4. Shape'
  <2>1. inodes' \in [Inos -> Nodes] /\ ibm' \subseteq 0 .. INODES - 1 /\ bbm' \subseteq Blocks
    <3>1. inodes \in [Inos -> Nodes] /\ ibm \subseteq 0 .. INODES - 1 /\ bbm \subseteq Blocks
      BY DEF SfsInv, Shape
    <3>2. ZeroInode \in Nodes
      BY DEF ZeroInode, Nodes
    <3>3. {0} \subseteq 0 .. INODES - 1 /\ 0 .. DATA_START - 1 \subseteq Blocks
      BY SfsAssumption DEF ROOT_INO, Blocks
    <3>4. QED
      BY <3>1, <3>2, <3>3 DEF FmtIbm, FmtBbm, FmtTable
  <2>2. pc' \in Labels
    BY <1>1 DEF Labels
  <2>3. QED
    BY <1>1, <2>1, <2>2 DEF SfsInv, Shape
<1>5. FormatInv'
  BY <1>1, <1>2, <1>3 DEF SfsInv, FormatInv, FmtIbm, FmtBbm, FmtTable, FormatLabels, Settling
<1>6. QED
  BY <1>1, <1>2, <1>3, <1>4, <1>5, BlankSuffices

\* The directory's block is the first behind the metadata.
LEMMA FormatAllocs == ASSUME SfsInv, FmtAlloc PROVE SfsInv'
<1> DEFINE b == Min(FreeBlocks)
<1>1. /\ pc = "fmt_alloc" /\ pc' = "fmt_dir" /\ bbm' = bbm \cup {b} /\ call' = [call EXCEPT !.blk = b]
      /\ content' = content /\ file_table' = file_table /\ inode' = inode /\ created' = created
      /\ inodes' = inodes /\ ibm' = ibm
      /\ data' = data /\ magic' = magic /\ mounted' = mounted /\ crashes' = crashes
  BY DEF FmtAlloc, ghost
<1>2. /\ Blank /\ created = {} /\ magic /\ ibm = {0} /\ bbm = 0 .. DATA_START - 1
      /\ \A f \in Fds : ~file_table[f].in_use
  BY <1>1 DEF SfsInv, FormatInv, Settling, FormatLabels
<1>3. b \in Blocks /\ b >= DATA_START
  <2>1. FreeBlocks \subseteq Nat /\ DATA_START \in FreeBlocks
    BY <1>2, SfsAssumption DEF FreeBlocks, Blocks
  <2>2. b \in FreeBlocks
    BY <2>1, MinOfNats
  <2> HIDE DEF b
  <2>3. QED
    BY <1>2, <2>2, SfsAssumption DEF FreeBlocks, Blocks
<1> HIDE DEF b
<1>4. Blank'
  BY <1>1, <1>2 DEF Blank
<1>5. Shape' /\ call'.blk = b
  BY <1>1, <1>3 DEF SfsInv, Shape, Labels, FormatLabels, CallRecords
<1>6. FormatInv'
  BY <1>1, <1>2, <1>3, <1>4, <1>5 DEF FormatInv, FormatLabels, Settling
<1>7. QED
  BY <1>1, <1>2, <1>4, <1>5, <1>6, BlankSuffices DEF FormatLabels

\* The directory's block is written before the inode that refers to it.
LEMMA FormatDirectory == ASSUME SfsInv, FmtDir PROVE SfsInv'
<1>1. /\ pc = "fmt_dir" /\ pc' = "fmt_inode" /\ bbm' = bbm /\ call' = call
      /\ data' = [data EXCEPT ![call.blk] = RootBlock]
      /\ content' = content /\ file_table' = file_table /\ inode' = inode /\ created' = created
      /\ inodes' = inodes /\ ibm' = ibm
      /\ magic' = magic /\ mounted' = mounted /\ crashes' = crashes
  BY DEF FmtDir, ghost, RootBlock
<1>2. /\ Blank /\ created = {} /\ magic /\ ibm = {0} /\ bbm = (0 .. DATA_START - 1) \cup {call.blk}
      /\ call.blk >= DATA_START /\ \A f \in Fds : ~file_table[f].in_use
  BY <1>1 DEF SfsInv, FormatInv, Settling, FormatLabels
<1>3. Blank'
  BY <1>1, <1>2 DEF Blank
<1>4. call.blk \in Blocks /\ data = [b \in Blocks |-> [o \in Offsets |-> data[b][o]]]
  BY DEF SfsInv, Shape, CallRecords
<1>5. RootBlock = [o \in Offsets |-> RootBlock[o]]
  BY DEF RootBlock, ZeroBlock
<1>6. data'[call.blk] = RootBlock /\ data' = [b \in Blocks |-> [o \in Offsets |-> data'[b][o]]]
  BY <1>1, <1>4, <1>5
<1>7. Shape'
  BY <1>1, <1>6 DEF SfsInv, Shape, Labels, FormatLabels
<1>8. FormatInv'
  BY <1>1, <1>2, <1>3, <1>6 DEF FormatInv, FormatLabels, Settling
<1>9. QED
  BY <1>1, <1>2, <1>3, <1>7, <1>8, BlankSuffices DEF FormatLabels

\* The root inode: from here on there is a directory.
LEMMA FormatRootInode == ASSUME SfsInv, FmtInode PROVE SfsInv'
<1> DEFINE b == call.blk
           root == [ino |-> ROOT_INO, size |-> 2, type |-> "dir", blocks |-> <<b>>]
<1>1. /\ pc = "fmt_inode" /\ pc' = "fmt_root" /\ bbm' = bbm /\ call' = NoCall
      /\ inodes' = [inodes EXCEPT ![ROOT_INO] = root] /\ data' = data
      /\ content' = content /\ file_table' = file_table /\ inode' = inode /\ created' = created
      /\ ibm' = ibm /\ magic' = magic /\ mounted' = mounted /\ crashes' = crashes
  BY DEF FmtInode, ghost
<1>2. /\ Blank /\ created = {} /\ magic /\ ibm = {0} /\ bbm = (0 .. DATA_START - 1) \cup {b}
      /\ b >= DATA_START /\ data[b] = RootBlock /\ \A f \in Fds : ~file_table[f].in_use
  BY <1>1 DEF SfsInv, FormatInv, Settling, FormatLabels
<1>3. b \in Blocks /\ ROOT_INO \in Inos /\ inodes \in [Inos -> Nodes]
  BY SfsAssumption DEF SfsInv, Shape, CallRecords, ROOT_INO, Inos
<1>4. /\ root \in Nodes /\ root.blocks = <<b>> /\ root.ino = ROOT_INO /\ root.type = "dir"
      /\ Len(<<b>>) = 1 /\ <<b>>[1] = b
  BY <1>3 DEF Nodes
<1> HIDE DEF b, root
<1>5. /\ inodes'[ROOT_INO] = root /\ \A i \in Inos : i # ROOT_INO => inodes'[i] = ZeroInode
      /\ inodes' \in [Inos -> Nodes]
  BY <1>1, <1>2, <1>3, <1>4 DEF Blank
<1>6. ZeroInode.blocks = << >> /\ ZeroInode.size = 0 /\ ZeroInode.type = "file" /\ Len(<< >>) = 0
  BY DEF ZeroInode
<1>7. pc \notin CreateLabels \cup WriteLabels /\ pc' \notin CreateLabels \cup WriteLabels
  BY <1>1 DEF CreateLabels, WriteLabels
<1>8. Shape'
  <2>1. NoCall.blk \in Blocks
    BY SfsAssumption DEF NoCall, Blocks
  <2>2. NoCall \in CallRecords
    BY <2>1 DEF NoCall, CallRecords
  <2>3. QED
    BY <1>1, <1>5, <2>2 DEF SfsInv, Shape, Labels, FormatLabels
<1>9. FormatInv'
  BY <1>1, <1>2 DEF FormatInv, FormatLabels, Settling
<1>10. BlocksInv'
  <2>1. \A i \in Inos : inodes'[i].blocks = << >> \/ (i = ROOT_INO /\ inodes'[i].blocks = <<b>>)
    BY <1>4, <1>5, <1>6
  <2>2. b \in bbm' /\ DIRECT >= 1 /\ DIRECT \in Nat
    BY <1>1, <1>2, SfsAssumption
  <2>3. \A i \in Inos : GoodBlocks(inodes[i])'
    <3> TAKE i \in Inos
    <3>1. CASE inodes'[i].blocks = << >>
      BY <1>6, <2>2, <3>1 DEF GoodBlocks
    <3>2. CASE inodes'[i].blocks = <<b>>
      BY <1>2, <1>4, <2>2, <3>2 DEF GoodBlocks
    <3>3. QED
      BY <2>1, <3>1, <3>2
  <2>4. \A i, j \in Inos : i # j => Apart(inodes[i], inodes[j])'
    BY <1>4, <1>6, <2>1 DEF Apart
  <2>5. QED
    BY <2>3, <2>4 DEF BlocksInv
<1>11. \A e \in Entries(Root, data)' : e = Zero \/ (e.ino = ROOT_INO /\ e.name \in {Dot, DotDot})
  <2>1. \A o \in Offsets : RootBlock[o] = Zero
           \/ (RootBlock[o].ino = ROOT_INO /\ RootBlock[o].name \in {Dot, DotDot})
    <3> TAKE o \in Offsets
    <3>1. CASE o = 0
      BY <3>1 DEF RootBlock, ZeroBlock
    <3>2. CASE o = 1
      BY <3>2 DEF RootBlock, ZeroBlock
    <3>3. CASE o \notin {0, 1}
      BY <3>3 DEF RootBlock, ZeroBlock
    <3>4. QED
      BY <3>1, <3>2, <3>3
  <2>2. \A e \in Entries(Root, data)' : \E o \in Offsets : e = RootBlock[o]
    BY <1>1, <1>2, <1>4, <1>5 DEF Entries, Root
  <2>3. QED
    BY <2>1, <2>2
<1>12. DirInv'
  <2>1. Root' = root
    BY <1>5 DEF Root
  <2>2. Zero.ino = 0
    BY DEF Zero
  <2>3. QED
    BY <1>1, <1>2, <1>3, <1>4, <1>5, <1>11, <2>1, <2>2 DEF DirInv
<1>13. FilesInv'
  BY <1>1, <1>2, <1>5, <1>6, SfsAssumption DEF FilesInv
<1>14. CreateInv' /\ WriteInv'
  BY <1>7 DEF CreateInv, WriteInv
<1>15. IdleInv'
  BY <1>1, <1>7 DEF SfsInv, IdleInv
<1>16. KeptInv'
  <2>1. \A i \in Inos : i # ROOT_INO => content[i] = Image(inodes[i], inodes[i].size, data)
    BY <1>7 DEF SfsInv, KeptInv
  <2>2. \A i \in Inos : i # ROOT_INO => inodes'[i] = inodes[i]
    BY <1>2, <1>5 DEF Blank
  <2>3. QED
    BY <1>1, <1>7, <2>1, <2>2 DEF KeptInv
<1>17. LeakInv'
  <2>1. ListedIn(Root, data)' = {ROOT_INO}
    <3>1. ROOT_INO \in ListedIn(Root, data)'
      <4>1. RootBlock[0].ino = ROOT_INO /\ 0 \in Offsets
        BY SfsAssumption DEF RootBlock, ZeroBlock, Offsets
      <4>2. RootBlock[0] \in Entries(Root, data)'
        <5>1. Root'.blocks = <<b>>
          BY <1>4, <1>5 DEF Root
        <5>2. 1 \in 1 .. Len(Root'.blocks) /\ data'[Root'.blocks[1]][0] = RootBlock[0]
          BY <1>1, <1>2, <1>4, <5>1
        <5>3. QED
          BY <4>1, <5>2 DEF Entries
      <4>3. QED
        BY <4>1, <4>2 DEF ListedIn, ROOT_INO
    <3>2. QED
      BY <1>11, <3>1 DEF ListedIn, Zero
  <2>2. ibm' \cup {ROOT_INO} = {0} \cup ListedIn(Root, data)'
    BY <1>1, <1>2, <2>1
  <2>3. /\ Range0(inodes'[ROOT_INO].blocks) = {b}
        /\ \A i \in Inos : i # ROOT_INO => Range0(inodes'[i].blocks) = {}
        /\ Range0(inode'.blocks) = {}
    <3>1. inode' = ZeroInode
      BY <1>1, <1>7 DEF SfsInv, IdleInv
    <3>2. Range0(<<b>>) = {b} /\ Range0(<< >>) = {}
      BY DEF Range0
    <3>3. QED
      BY <1>4, <1>5, <1>6, <3>1, <3>2
  <2>4. InodeBlocks' = {b}
    BY <1>3, <2>3 DEF InodeBlocks
  <2>5. pc' # "cr_block"
    BY <1>1
  <2>6. QED
    BY <1>1, <1>2, <1>7, <2>2, <2>3, <2>4, <2>5 DEF LeakInv
<1>18. QED
  BY <1>8, <1>9, <1>10, <1>12, <1>13, <1>14, <1>15, <1>16, <1>17 DEF SfsInv

\* The root inode's bit is set last.
LEMMA FormatRootBit == ASSUME SfsInv, FmtRoot PROVE SfsInv'
<1>1. /\ pc = "fmt_root" /\ pc' = "mount" /\ ibm' = ibm \cup {ROOT_INO}
      /\ UNCHANGED <<magic, bbm, inodes, data, mounted, file_table, call, inode, content, created,
                     crashes>>
  BY DEF FmtRoot, ghost
<1>2. magic /\ \A f \in Fds : ~file_table[f].in_use
  BY <1>1 DEF SfsInv, FormatInv, Settling, FormatLabels
<1>3. Ready /\ Ready'
  BY <1>1, <1>2 DEF Ready, FormatLabels
<1>4. pc \notin CreateLabels \cup WriteLabels /\ pc' \notin CreateLabels \cup WriteLabels
  BY <1>1 DEF CreateLabels, WriteLabels
<1>5. Shape'
  BY <1>1, SfsAssumption DEF SfsInv, Shape, Labels, ROOT_INO
<1>6. FormatInv'
  BY <1>1, <1>2 DEF FormatInv, FormatLabels, Settling
<1>7. BlocksInv' /\ FilesInv' /\ DirInv' /\ KeptInv'
  BY <1>1, <1>3, <1>4, BlocksFrame, FilesFrame, DirFrame, KeptFrame DEF SfsInv
<1>8. CreateInv' /\ WriteInv' /\ IdleInv'
  BY <1>1, <1>4 DEF SfsInv, CreateInv, WriteInv, IdleInv
<1>9. LeakInv'
  <2>1. ListedIn(Root, data)' = ListedIn(Root, data)
    BY <1>1, ListedFrame
  <2>2. /\ inodes' = inodes /\ inode' = inode /\ bbm' = bbm /\ crashes' = crashes /\ call' = call
        /\ ibm' \cup {ROOT_INO} = ibm \cup {ROOT_INO} /\ pc # "cr_block" /\ pc' # "cr_block"
    BY <1>1
  <2>3. InodeBlocks' = InodeBlocks /\ Range0(inode.blocks)' = Range0(inode.blocks)
    BY <2>2 DEF InodeBlocks, Range0
  <2>4. QED
    BY <1>3, <1>4, <2>1, <2>2, <2>3 DEF SfsInv, LeakInv
<1>10. QED
  BY <1>5, <1>6, <1>7, <1>8, <1>9 DEF SfsInv

-----------------------------------------------------------------------------
(* sfs_create.                                                               *)

\* What can be said of the root directory between boot and power off.
LEMMA RootFacts ==
    ASSUME SfsInv, pc \notin Settling
    PROVE  /\ Ready /\ magic /\ ROOT_INO \in Inos /\ Root \in Nodes /\ Root = inodes[ROOT_INO]
           /\ 0 \in ibm /\ ROOT_INO \in ibm /\ Len(Root.blocks) \in Nat \ {0}
           /\ ListedIn(Root, data) \subseteq ibm \cap Inos
           /\ \A i \in ListedIn(Root, data) : inodes[i].ino = i
<1>1. Ready /\ magic /\ pc # "fmt_root"
  BY DEF SfsInv, FormatInv, Ready, Settling, FormatLabels
<1>2. ROOT_INO \in Inos /\ Root \in Nodes /\ Root = inodes[ROOT_INO]
  <2>1. ROOT_INO \in Inos
    BY SfsAssumption DEF ROOT_INO, Inos
  <2>2. QED
    BY <2>1 DEF SfsInv, Shape, Root
<1>3. Len(Root.blocks) \in Nat
  BY <1>2 DEF Nodes
<1>4. QED
  BY <1>1, <1>2, <1>3 DEF SfsInv, DirInv, ListedIn

\* sfs_create takes an inode number that the directory does not list.
LEMMA CreateKeeps == ASSUME SfsInv, NEW name \in Names, Create(name) PROVE SfsInv'
<1> DEFINE i == Min(FreeInos)
<1>1. /\ pc = "idle" /\ pc' = "cr_inode" /\ FreeInos # {} /\ ibm' = ibm \cup {i}
      /\ call' = [NoCall EXCEPT !.name = name, !.ino = i] /\ inode' = inodes[ROOT_INO]
      /\ UNCHANGED <<magic, bbm, inodes, data, mounted, file_table, content, created, crashes>>
  BY DEF Create, ghost
<1>2. pc \notin Settling \cup CreateLabels \cup WriteLabels /\ pc' \notin Settling \cup WriteLabels
  BY <1>1 DEF Settling, FormatLabels, CreateLabels, WriteLabels
<1>3. /\ Ready /\ magic /\ ROOT_INO \in Inos /\ Root \in Nodes /\ Root = inodes[ROOT_INO]
      /\ 0 \in ibm /\ ROOT_INO \in ibm
      /\ ListedIn(Root, data) \subseteq ibm \cap Inos
  BY <1>2, RootFacts
<1>4. i \in Inos /\ i # ROOT_INO /\ i # 0 /\ i \notin ibm
  <2>1. FreeInos \subseteq Nat
    BY SfsAssumption DEF FreeInos
  <2>2. i \in FreeInos
    BY <1>1, <2>1, MinOfNats
  <2> HIDE DEF i
  <2>3. QED
    BY <1>3, <2>2, SfsAssumption DEF FreeInos, Inos
<1> HIDE DEF i
<1>5. call'.ino = i /\ call'.name = name
  BY <1>1 DEF NoCall
<1>6. Shape'
  <2>1. call' \in CallRecords
    <3>1. call' = [name |-> name, ino |-> i, blk |-> 0, fd |-> 0, buf |-> << >>, n |-> 0]
      BY <1>1 DEF NoCall
    <3>2. << >> \in Seq(Values) /\ 0 \in Blocks
      BY SfsAssumption DEF Blocks
    <3>3. QED
      BY <1>4, <3>1, <3>2 DEF CallRecords
  <2>2. pc' \in Labels /\ ibm' \subseteq 0 .. INODES - 1
    BY <1>1, <1>4 DEF Labels, CreateLabels, SfsInv, Shape, Inos
  <2>3. QED
    BY <1>1, <1>3, <2>1, <2>2 DEF SfsInv, Shape
<1>7. FormatInv' /\ BlocksInv' /\ FilesInv'
  BY <1>1, <1>2, <1>3, FormatFrame, BlocksFrame, FilesFrame DEF SfsInv
<1>8. DirInv' /\ KeptInv'
  BY <1>1, <1>2, <1>3, DirFrame, KeptFrame DEF SfsInv
<1>9. ListedIn(Root, data)' = ListedIn(Root, data) /\ Root' = Root
  BY <1>1, ListedFrame DEF Root
<1>10. CreateInv'
  BY <1>1, <1>3, <1>4, <1>5, <1>9 DEF CreateInv
<1>11. WriteInv' /\ IdleInv'
  BY <1>1, <1>2 DEF WriteInv, IdleInv, CreateLabels
<1>12. LeakInv'
  <2>1. inode = ZeroInode /\ Range0(ZeroInode.blocks) = {}
    BY <1>2 DEF SfsInv, IdleInv, ZeroInode, Range0
  <2>2. ASSUME crashes = 0
        PROVE  /\ ibm \cup {ROOT_INO} = {0} \cup ListedIn(Root, data)
               /\ bbm = (0 .. DATA_START - 1) \cup InodeBlocks
    BY <1>1, <1>2, <1>3, <2>1, <2>2 DEF SfsInv, LeakInv, CreateLabels
  <2>3. Range0(inode'.blocks) \subseteq InodeBlocks
    BY <1>1, <1>3 DEF InodeBlocks
  <2>4. pc' \in CreateLabels /\ pc' # "cr_block"
    BY <1>1 DEF CreateLabels
  <2>5. InodeBlocks' = InodeBlocks
    BY <1>1 DEF InodeBlocks
  <2>6. ASSUME crashes' = 0
        PROVE  /\ ibm' \cup {ROOT_INO} = {0} \cup ListedIn(Root, data)' \cup {call'.ino}
               /\ bbm' = (0 .. DATA_START - 1) \cup InodeBlocks'
                            \cup Range0(inode'.blocks)
    <3>1. crashes = 0
      BY <1>1, <2>6
    <3>2. ibm' \cup {ROOT_INO} = {0} \cup ListedIn(Root, data)' \cup {call'.ino}
      BY <1>1, <1>5, <1>9, <2>2, <3>1
    <3>3. bbm' = (0 .. DATA_START - 1) \cup InodeBlocks'
      BY <1>1, <2>2, <2>5, <3>1
    <3>4. QED
      BY <2>3, <2>5, <3>2, <3>3
  <2>7. QED
    BY <2>4, <2>6 DEF LeakInv
<1>13. QED
  BY <1>6, <1>7, <1>8, <1>10, <1>11, <1>12 DEF SfsInv

\* The new inode overwrites one without blocks.
LEMMA CreateInodeKeeps == ASSUME SfsInv, CreateInode PROVE SfsInv'
<1> DEFINE i == call.ino
           new == [ZeroInode EXCEPT !.ino = i]
<1>1. /\ pc = "cr_inode" /\ pc' = "cr_slot" /\ inodes' = [inodes EXCEPT ![i] = new]
      /\ UNCHANGED <<magic, ibm, bbm, data, mounted, file_table, call, inode, content, created, crashes>>
  BY DEF CreateInode, ghost
<1>2. /\ pc \notin Settling \cup WriteLabels /\ pc' \notin Settling \cup WriteLabels
      /\ pc \in CreateLabels /\ pc' \in CreateLabels
  BY <1>1 DEF Settling, FormatLabels, CreateLabels, WriteLabels
<1>3. /\ Ready /\ magic /\ ROOT_INO \in Inos /\ Root \in Nodes /\ Root = inodes[ROOT_INO]
      /\ ListedIn(Root, data) \subseteq ibm \cap Inos
  BY <1>2, RootFacts
<1>4. /\ i \in Inos /\ i # ROOT_INO /\ i # 0 /\ i \in ibm /\ call.name \in Names
      /\ inode = Root /\ i \notin ListedIn(Root, data)
  BY <1>1, <1>2 DEF SfsInv, CreateInv, Shape, CallRecords
<1>5. /\ new.ino = i /\ new.size = 0 /\ new.type = "file" /\ new.blocks = << >> /\ Len(<< >>) = 0
      /\ new \in Nodes
  <2>1. new = [ino |-> i, size |-> 0, type |-> "file", blocks |-> << >>]
    BY DEF ZeroInode
  <2>2. << >> \in Seq(Blocks) /\ Len(<< >>) = 0 /\ i \in {0} \cup Inos
    BY <1>4
  <2> HIDE DEF new
  <2>3. QED
    BY <2>1, <2>2 DEF Nodes
<1>6. inodes[i].size = 0 /\ inodes[i].blocks = << >>
  BY <1>4 DEF SfsInv, FilesInv
<1>7. inodes \in [Inos -> Nodes]
  BY DEF SfsInv, Shape
<1> HIDE DEF i, new
<1>8. /\ inodes' \in [Inos -> Nodes] /\ inodes'[i] = new
      /\ \A j \in Inos : j # i => inodes'[j] = inodes[j]
      /\ \A j \in Inos : inodes'[j].blocks = inodes[j].blocks /\ inodes'[j].size = inodes[j].size
  BY <1>1, <1>4, <1>5, <1>6, <1>7
<1>9. Root' = Root /\ Entries(Root, data)' = Entries(Root, data) /\ ListedIn(Root, data)' = ListedIn(Root, data)
  BY <1>1, <1>3, <1>4, <1>8 DEF Root, Entries, ListedIn
<1>10. Shape'
  BY <1>1, <1>8 DEF SfsInv, Shape, Labels, CreateLabels
<1>11. FormatInv'
  BY <1>1, <1>2, <1>3, FormatFrame
<1>12. BlocksInv'
  BY <1>1, <1>8 DEF SfsInv, BlocksInv, GoodBlocks, Apart
<1>13. DirInv'
  <2>1. \A e \in Entries(Root, data) : e.ino # 0 => e.ino # i /\ e.ino \in Inos
    BY <1>3, <1>4 DEF ListedIn
  <2>2. Ready' /\ pc # "fmt_root" /\ pc' # "fmt_root"
    BY <1>1, <1>3 DEF Ready, FormatLabels
  <2>3. QED
    BY <1>1, <1>3, <1>8, <1>9, <2>1, <2>2 DEF SfsInv, DirInv
<1>14. FilesInv'
  <2>1. inodes'[i].type = "file" /\ \A j \in Inos : j # i => inodes'[j].type = inodes[j].type
    BY <1>5, <1>8
  <2>2. \A j \in Inos : j # ROOT_INO => inodes'[j].type = "file" /\ inodes'[j].size <= Len(inodes'[j].blocks) * BLOCK_SIZE
    BY <1>8, <2>1 DEF SfsInv, FilesInv
  <2>3. \A f \in Fds : file_table[f].in_use => file_table[f].ino \in Inos
    BY <1>3 DEF SfsInv, FilesInv
  <2>4. QED
    BY <1>1, <1>8, <1>9, <2>2, <2>3 DEF SfsInv, FilesInv
<1>15. CreateInv'
  BY <1>1, <1>4, <1>8, <1>9 DEF CreateInv, i, new
<1>16. WriteInv' /\ IdleInv'
  BY <1>2 DEF WriteInv, IdleInv
<1>17. KeptInv'
  <2>1. \A j \in Inos : j # ROOT_INO => content[j] = Image(inodes[j], inodes[j].size, data)
    BY <1>2 DEF SfsInv, KeptInv
  <2>2. QED
    BY <1>1, <1>2, <1>8, <2>1 DEF KeptInv, Image, Unit
<1>18. LeakInv'
  <2>1. InodeBlocks' = InodeBlocks /\ Range0(inode.blocks)' = Range0(inode.blocks)
    BY <1>1, <1>8 DEF InodeBlocks, Range0
  <2>2. pc # "cr_block" /\ pc' # "cr_block"
    BY <1>1
  <2>3. QED
    BY <1>1, <1>2, <1>3, <1>9, <2>1, <2>2 DEF SfsInv, LeakInv
<1>19. QED
  BY <1>10, <1>11, <1>12, <1>13, <1>14, <1>15, <1>16, <1>17, <1>18 DEF SfsInv

\* A write to a block that is not the file's leaves the file as it is.
LEMMA ImageElsewhere ==
    ASSUME SfsInv, NEW b, \A c \in Blocks : c # b => data'[c] = data[c],
           NEW i \in Inos, i # ROOT_INO,
           \A x \in 1 .. Len(inodes[i].blocks) : inodes[i].blocks[x] # b
    PROVE  Image(inodes[i], inodes[i].size, data') = Image(inodes[i], inodes[i].size, data)
<1> DEFINE node == inodes[i]
           size == inodes[i].size
           d == data
           e == data'
<1>1. inodes[i] \in Nodes /\ inodes[i].size \in Nat /\ inodes[i].size <= Len(inodes[i].blocks) * BLOCK_SIZE
  BY DEF SfsInv, Shape, FilesInv, Nodes
<1>2. \A x \in 1 .. Len(inodes[i].blocks) : inodes[i].blocks[x] \in Blocks
  BY <1>1 DEF Nodes
<1>3. \A x \in 1 .. Len(inodes[i].blocks) : data[inodes[i].blocks[x]] = data'[inodes[i].blocks[x]]
  BY <1>2
<1>4. /\ node \in Nodes /\ size \in Nat /\ size <= Len(node.blocks) * BLOCK_SIZE
      /\ \A x \in 1 .. Len(node.blocks) : d[node.blocks[x]] = e[node.blocks[x]]
  BY <1>1, <1>3
<1> HIDE DEF node, size, d, e
<1>5. Image(node, size, d) = Image(node, size, e)
  BY <1>4, ImageSame
<1>6. QED
  BY <1>5 DEF node, size, d, e

\* A write to a block of the directory, or to a block of nobody, leaves all files as they are.
LEMMA KeptElsewhere ==
    ASSUME SfsInv, pc \notin WriteLabels, pc' \notin WriteLabels, inodes' = inodes, content' = content,
           NEW b, \A c \in Blocks : c # b => data'[c] = data[c],
           \A i \in Inos : i # ROOT_INO =>
               \A x \in 1 .. Len(inodes[i].blocks) : inodes[i].blocks[x] # b
    PROVE  KeptInv'
<1>1. \A i \in Inos : i # ROOT_INO => content[i] = Image(inodes[i], inodes[i].size, data)
  BY DEF SfsInv, KeptInv
<1>2. \A i \in Inos : i # ROOT_INO =>
         Image(inodes[i], inodes[i].size, data') = Image(inodes[i], inodes[i].size, data)
  BY ImageElsewhere
<1>3. QED
  BY <1>1, <1>2 DEF KeptInv

\* The free entry of the directory becomes the new file's.
LEMMA CreateInPlaceKeeps == ASSUME SfsInv, CreateInPlace PROVE SfsInv'
<1> DEFINE i == call.ino
           k == Min(FreePlaces)
           x == (k \div BLOCK_SIZE) + 1
           b == inode.blocks[x]
           p == k % BLOCK_SIZE
           new == NewEntry(data[b][p])
<1>1. /\ pc = "cr_slot" /\ pc' = "cr_parent" /\ FreePlaces # {}
      /\ data' = [data EXCEPT ![b][p] = new]
      /\ UNCHANGED <<magic, ibm, bbm, inodes, mounted, file_table, call, inode, content, created, crashes>>
  BY DEF CreateInPlace, ghost
<1>2. /\ pc \notin Settling \cup WriteLabels /\ pc' \notin Settling \cup WriteLabels
      /\ pc \in CreateLabels /\ pc' \in CreateLabels
  BY <1>1 DEF Settling, FormatLabels, CreateLabels, WriteLabels
<1>3. /\ Ready /\ magic /\ ROOT_INO \in Inos /\ Root \in Nodes /\ Root = inodes[ROOT_INO]
      /\ ListedIn(Root, data) \subseteq ibm \cap Inos
  BY <1>2, RootFacts
<1>4. /\ i \in Inos /\ i # ROOT_INO /\ i # 0 /\ i \in ibm /\ call.name \in Names
      /\ inode = Root /\ i \notin ListedIn(Root, data)
      /\ inodes[i] = [ZeroInode EXCEPT !.ino = i]
  BY <1>1, <1>2 DEF SfsInv, CreateInv, Shape, CallRecords
<1>5. x \in 1 .. Len(Root.blocks) /\ p \in Offsets /\ data[b][p].ino = 0 /\ b = Root.blocks[x]
  <2>1. FreePlaces \subseteq Places(Root) /\ Places(Root) \subseteq Nat
    BY <1>3, <1>4, PlacesAreEntries DEF FreePlaces
  <2>2. k \in FreePlaces
    BY <1>1, <2>1, MinOfNats
  <2>3. k \in Places(Root) /\ Entry(inode, k).ino = 0
    BY <2>1, <2>2 DEF FreePlaces
  <2>4. x \in 1 .. Len(Root.blocks) /\ p \in Offsets
    BY <1>3, <2>3, PlacesAreEntries
  <2>5. QED
    BY <1>4, <2>3, <2>4 DEF Entry
<1>6. b \in Blocks /\ data = [c \in Blocks |-> [o \in Offsets |-> data[c][o]]]
  BY <1>3, <1>5 DEF SfsInv, Shape, Nodes
<1>7. new.ino = i
  BY DEF NewEntry
<1> HIDE DEF i, k, x, b, p, new
<1>8. /\ data' = [c \in Blocks |-> [o \in Offsets |-> data'[c][o]]]
      /\ data'[b][p] = new /\ \A c \in Blocks : c # b => data'[c] = data[c]
      /\ \A c \in Blocks, o \in Offsets : c # b \/ o # p => data'[c][o] = data[c][o]
  BY <1>1, <1>5, <1>6
<1>9. Root' = Root /\ \A y \in 1 .. Len(Root.blocks) : Root.blocks[y] \in Blocks
  BY <1>1, <1>3 DEF Root, Nodes
<1>10. /\ new \in Entries(Root, data)' /\ Entries(Root, data)' \subseteq Entries(Root, data) \cup {new}
       /\ \A e \in Entries(Root, data) : e.ino # 0 => e \in Entries(Root, data)'
  <2>1. new \in Entries(Root, data)'
    BY <1>5, <1>8, <1>9 DEF Entries
  <2>2. Entries(Root, data)' \subseteq Entries(Root, data) \cup {new}
    BY <1>5, <1>8, <1>9 DEF Entries
  <2>3. ASSUME NEW e \in Entries(Root, data), e.ino # 0
        PROVE  e \in Entries(Root, data)'
    <3>1. PICK y \in 1 .. Len(Root.blocks), o \in Offsets : e = data[Root.blocks[y]][o]
      BY DEF Entries
    <3>2. Root.blocks[y] # b \/ o # p
      BY <1>5, <2>3, <3>1
    <3>3. data'[Root.blocks[y]][o] = e
      BY <1>8, <1>9, <3>1, <3>2
    <3>4. QED
      BY <1>9, <3>1, <3>3 DEF Entries
  <2>4. QED
    BY <2>1, <2>2, <2>3
<1>11. ListedIn(Root, data)' = ListedIn(Root, data) \cup {i}
  BY <1>4, <1>7, <1>10 DEF ListedIn
<1>12. Shape'
  BY <1>1, <1>8 DEF SfsInv, Shape, Labels, CreateLabels
<1>13. FormatInv' /\ BlocksInv'
  BY <1>1, <1>2, <1>3, FormatFrame, BlocksFrame DEF SfsInv
<1>14. DirInv'
  <2>1. pc # "fmt_root" /\ pc' # "fmt_root"
    BY <1>1
  <2>2. inodes[i].ino = i
    BY <1>4 DEF ZeroInode
  <2>3. QED
    BY <1>1, <1>3, <1>4, <1>7, <1>9, <1>10, <2>1, <2>2 DEF SfsInv, DirInv
<1>15. FilesInv'
  BY <1>1, <1>11 DEF SfsInv, FilesInv
<1>16. CreateInv'
  BY <1>1, <1>4, <1>9, <1>11 DEF CreateInv, i
<1>17. WriteInv' /\ IdleInv'
  BY <1>2 DEF WriteInv, IdleInv
<1>18. KeptInv'
  <2>1. \A j \in Inos : j # ROOT_INO =>
           \A y \in 1 .. Len(inodes[j].blocks) : inodes[j].blocks[y] # b
    BY <1>3, <1>5 DEF SfsInv, BlocksInv, Apart
  <2>2. QED
    BY <1>1, <1>2, <1>8, <2>1, KeptElsewhere
<1>19. LeakInv'
  <2>1. InodeBlocks' = InodeBlocks /\ Range0(inode.blocks)' = Range0(inode.blocks)
    BY <1>1 DEF InodeBlocks, Range0
  <2>2. pc # "cr_block" /\ pc' # "cr_block" /\ call'.ino = i /\ call.ino = i
    BY <1>1 DEF i
  <2>3. QED
    BY <1>1, <1>2, <1>3, <1>11, <2>1, <2>2 DEF SfsInv, LeakInv
<1>20. QED
  BY <1>12, <1>13, <1>14, <1>15, <1>16, <1>17, <1>18, <1>19 DEF SfsInv

\* A block that sfs_alloc_block returns is free, and not of the metadata.
LEMMA AllocatedBlock ==
    ASSUME SfsInv, CanAllocBlock
    PROVE  /\ Min(FreeBlocks) \in Blocks /\ Min(FreeBlocks) \notin bbm /\ Min(FreeBlocks) >= DATA_START
           /\ \A i \in Inos : \A x \in 1 .. Len(inodes[i].blocks) : inodes[i].blocks[x] # Min(FreeBlocks)
<1>1. FreeBlocks \subseteq Nat /\ FreeBlocks # {}
  BY SfsAssumption DEF CanAllocBlock, FreeBlocks, Blocks
<1>2. Min(FreeBlocks) \in FreeBlocks
  BY <1>1, MinOfNats
<1>3. \A i \in Inos : \A x \in 1 .. Len(inodes[i].blocks) : inodes[i].blocks[x] \in bbm
  BY DEF SfsInv, BlocksInv, GoodBlocks
<1>4. QED
  BY <1>2, <1>3 DEF FreeBlocks, CanAllocBlock

\* The block the directory will grow by is taken from the bitmap.
LEMMA CreateGrowKeeps == ASSUME SfsInv, CreateGrow PROVE SfsInv'
<1>0. PICK b : b = Min(FreeBlocks)
  OBVIOUS
<1>1. /\ pc = "cr_slot" /\ pc' = "cr_block" /\ Len(inode.blocks) < DIRECT /\ CanAllocBlock
      /\ bbm' = bbm \cup {b} /\ call' = [call EXCEPT !.blk = b]
      /\ UNCHANGED <<magic, ibm, inodes, data, mounted, file_table, inode, content, created, crashes>>
  BY <1>0 DEF CreateGrow, ghost
<1>2. /\ pc \notin Settling \cup WriteLabels /\ pc' \notin Settling \cup WriteLabels
      /\ pc \in CreateLabels /\ pc' \in CreateLabels
  BY <1>1 DEF Settling, FormatLabels, CreateLabels, WriteLabels
<1>3. Ready /\ Ready' /\ magic /\ ROOT_INO \in ibm
  BY <1>1, <1>2, RootFacts DEF Ready, Settling
<1>4. /\ b \in Blocks /\ b \notin bbm /\ b >= DATA_START
      /\ \A i \in Inos : \A x \in 1 .. Len(inodes[i].blocks) : inodes[i].blocks[x] # b
  BY <1>0, <1>1, AllocatedBlock
<1>5. call'.blk = b /\ call'.ino = call.ino /\ call'.name = call.name
  BY <1>1 DEF SfsInv, Shape, CallRecords
<1>6. Shape'
  BY <1>1, <1>4 DEF SfsInv, Shape, Labels, CreateLabels, CallRecords
<1>7. FormatInv' /\ BlocksInv' /\ FilesInv'
  BY <1>1, <1>2, <1>3, FormatFrame, BlocksFrame, FilesFrame DEF SfsInv
<1>8. DirInv' /\ KeptInv'
  BY <1>1, <1>2, <1>3, DirFrame, KeptFrame DEF SfsInv
<1>9. ListedIn(Root, data)' = ListedIn(Root, data) /\ Root' = Root
  BY <1>1, ListedFrame DEF Root
<1>10. CreateInv'
  <2>1. /\ call.ino \in ibm \ {0, ROOT_INO} /\ call.name \in Names /\ inode = Root
        /\ call.ino \notin ListedIn(Root, data) /\ inodes[call.ino] = [ZeroInode EXCEPT !.ino = call.ino]
    BY <1>1, <1>2 DEF SfsInv, CreateInv
  <2>2. Fresh(b)'
    BY <1>1, <1>4 DEF Fresh
  <2>3. QED
    BY <1>1, <1>5, <1>9, <2>1, <2>2 DEF CreateInv, Fresh
<1>11. WriteInv' /\ IdleInv'
  BY <1>2 DEF WriteInv, IdleInv
<1>12. LeakInv'
  <2>1. InodeBlocks' = InodeBlocks /\ Range0(inode.blocks)' = Range0(inode.blocks)
    BY <1>1 DEF InodeBlocks, Range0
  <2>2. pc # "cr_block"
    BY <1>1
  <2>3. QED
    BY <1>1, <1>2, <1>3, <1>5, <1>9, <2>1, <2>2 DEF SfsInv, LeakInv
<1>13. QED
  BY <1>6, <1>7, <1>8, <1>10, <1>11, <1>12 DEF SfsInv

\* The inode number is given back; no entry names it.
LEMMA CreateFailKeeps == ASSUME SfsInv, CreateFail PROVE SfsInv'
<1> DEFINE i == call.ino
<1>1. /\ pc = "cr_slot" /\ pc' = "idle" /\ ibm' = ibm \ {i} /\ call' = NoCall /\ inode' = ZeroInode
      /\ UNCHANGED <<magic, bbm, inodes, data, mounted, file_table, content, created, crashes>>
  BY DEF CreateFail, Return, ghost
<1>2. /\ pc \notin Settling \cup WriteLabels /\ pc' \notin Settling \cup WriteLabels \cup CreateLabels
      /\ pc \in CreateLabels
  BY <1>1 DEF Settling, FormatLabels, CreateLabels, WriteLabels
<1>3. /\ Ready /\ Ready' /\ magic /\ ROOT_INO \in ibm /\ 0 \in ibm /\ ROOT_INO \in Inos
      /\ Root = inodes[ROOT_INO]
  BY <1>1, <1>2, RootFacts DEF Ready, Settling
<1>4. i # ROOT_INO /\ i # 0 /\ inode = Root /\ i \notin ListedIn(Root, data)
  BY <1>1, <1>2 DEF SfsInv, CreateInv
<1> HIDE DEF i
<1>5. Shape'
  <2>1. NoCall \in CallRecords /\ ZeroInode \in Nodes
    BY SfsAssumption DEF NoCall, CallRecords, Blocks, ZeroInode, Nodes
  <2>2. QED
    BY <1>1, <2>1 DEF SfsInv, Shape, Labels
<1>6. FormatInv' /\ BlocksInv' /\ FilesInv' /\ KeptInv'
  BY <1>1, <1>2, <1>3, FormatFrame, BlocksFrame, FilesFrame, KeptFrame DEF SfsInv
<1>7. Root' = Root /\ Entries(Root, data)' = Entries(Root, data) /\ ListedIn(Root, data)' = ListedIn(Root, data)
  BY <1>1 DEF Root, Entries, ListedIn
<1>8. DirInv'
  <2>1. \A e \in Entries(Root, data) : e.ino # 0 => e.ino # i
    BY <1>4 DEF ListedIn
  <2>2. pc # "fmt_root" /\ pc' # "fmt_root"
    BY <1>1
  <2>3. QED
    BY <1>1, <1>3, <1>4, <1>7, <2>1, <2>2 DEF SfsInv, DirInv
<1>9. CreateInv' /\ WriteInv' /\ IdleInv'
  BY <1>1, <1>2 DEF CreateInv, WriteInv, IdleInv
<1>10. LeakInv'
  <2>1. InodeBlocks' = InodeBlocks /\ Range0(inode'.blocks) = {}
    BY <1>1 DEF InodeBlocks, Range0, ZeroInode
  <2>2. Range0(inode.blocks) \subseteq InodeBlocks
    BY <1>3, <1>4 DEF InodeBlocks
  <2>3. pc # "cr_block" /\ pc' # "cr_block"
    BY <1>1
  <2>4. ASSUME crashes' = 0
        PROVE  /\ ibm \cup {ROOT_INO} = {0} \cup ListedIn(Root, data) \cup {i}
               /\ bbm = (0 .. DATA_START - 1) \cup InodeBlocks \cup Range0(inode.blocks)
    BY <1>1, <1>2, <1>3, <2>3, <2>4 DEF SfsInv, LeakInv, i
  <2>5. ASSUME crashes' = 0
        PROVE  /\ ibm' \cup {ROOT_INO} = {0} \cup ListedIn(Root, data)
               /\ bbm' = (0 .. DATA_START - 1) \cup InodeBlocks
    BY <1>1, <1>3, <1>4, <2>2, <2>4, <2>5
  <2>6. QED
    BY <1>1, <1>2, <1>7, <2>1, <2>3, <2>5 DEF LeakInv
<1>11. QED
  BY <1>5, <1>6, <1>8, <1>9, <1>10 DEF SfsInv

\* The blocks of a directory with one more.
LEMMA AppendedBlock ==
    ASSUME NEW s \in Seq(Blocks), NEW b \in Blocks
    PROVE  /\ Append(s, b) \in Seq(Blocks) /\ Len(s) \in Nat /\ Len(Append(s, b)) = Len(s) + 1
           /\ \A x \in 1 .. Len(s) : Append(s, b)[x] = s[x]
           /\ Append(s, b)[Len(s) + 1] = b
           /\ Range0(Append(s, b)) = Range0(s) \cup {b}
<1>1. /\ Append(s, b) \in Seq(Blocks) /\ Len(s) \in Nat /\ Len(Append(s, b)) = Len(s) + 1
      /\ \A x \in 1 .. Len(s) : Append(s, b)[x] = s[x]
      /\ Append(s, b)[Len(s) + 1] = b
  BY AppendProperties
<1> DEFINE t == Append(s, b)
           n == Len(s)
<1>2. n \in Nat /\ Len(t) = n + 1 /\ (\A x \in 1 .. n : t[x] = s[x]) /\ t[n + 1] = b
  BY <1>1
<1> HIDE DEF t, n
<1>3. 1 .. n + 1 = (1 .. n) \cup {n + 1}
  BY <1>2
<1>4. {t[x] : x \in 1 .. n + 1} = {s[x] : x \in 1 .. n} \cup {b}
  BY <1>2, <1>3
<1>5. Range0(t) = Range0(s) \cup {b}
  BY <1>2, <1>4 DEF Range0, n
<1>6. QED
  BY <1>1, <1>5 DEF t

\* The new directory block is written before the inode that refers to it.
LEMMA CreateBlockKeeps == ASSUME SfsInv, CreateBlock PROVE SfsInv'
<1>0. PICK last : last = Entry(inode, Len(inode.blocks) * BLOCK_SIZE - 1)
  OBVIOUS
<1> DEFINE i == call.ino
           b == call.blk
           block == [ZeroBlock EXCEPT ![0] = NewEntry(last)]
<1>1. /\ pc = "cr_block" /\ pc' = "cr_parent" /\ data' = [data EXCEPT ![b] = block]
      /\ inode' = [inode EXCEPT !.blocks = Append(@, b)]
      /\ UNCHANGED <<magic, ibm, bbm, inodes, mounted, file_table, call, content, created, crashes>>
  BY <1>0 DEF CreateBlock, ghost
<1>2. /\ pc \notin Settling \cup WriteLabels /\ pc' \notin Settling \cup WriteLabels
      /\ pc \in CreateLabels /\ pc' \in CreateLabels
  BY <1>1 DEF Settling, FormatLabels, CreateLabels, WriteLabels
<1>3. /\ Ready /\ magic /\ ROOT_INO \in Inos /\ Root \in Nodes /\ Root = inodes[ROOT_INO]
  BY <1>2, RootFacts
<1>4. /\ i \in ibm \ {0, ROOT_INO} /\ call.name \in Names
      /\ inode = Root /\ i \notin ListedIn(Root, data)
      /\ inodes[i] = [ZeroInode EXCEPT !.ino = i] /\ Fresh(b) /\ Len(Root.blocks) < DIRECT
  BY <1>1, <1>2 DEF SfsInv, CreateInv
<1>5. /\ b \in Blocks /\ data = [c \in Blocks |-> [o \in Offsets |-> data[c][o]]]
      /\ Root.blocks \in Seq(Blocks)
  BY <1>3 DEF SfsInv, Shape, CallRecords, Nodes
<1>6. /\ block = [o \in Offsets |-> block[o]] /\ block[0].ino = i
      /\ \A o \in Offsets \ {0} : block[o] = Zero
  <2>1. 0 \in Offsets
    BY SfsAssumption DEF Offsets
  <2>2. NewEntry(last).ino = i
    BY DEF NewEntry
  <2>3. block = [o \in Offsets |-> IF o = 0 THEN NewEntry(last) ELSE Zero]
    BY DEF ZeroBlock
  <2> HIDE DEF block, i
  <2>4. QED
    BY <2>1, <2>2, <2>3
<1> HIDE DEF i, b, block
<1>7. /\ data' = [c \in Blocks |-> [o \in Offsets |-> data'[c][o]]]
      /\ data'[b] = block /\ \A c \in Blocks : c # b => data'[c] = data[c]
  BY <1>1, <1>5, <1>6
<1>8. /\ inode' \in Nodes /\ inode' = [Root EXCEPT !.blocks = Append(Root.blocks, b)]
      /\ inode'.blocks = Append(Root.blocks, b)
  <2>1. Append(Root.blocks, b) \in Seq(Blocks)
    BY <1>5, AppendedBlock
  <2>2. QED
    BY <1>1, <1>3, <1>4, <2>1 DEF Nodes
<1>9. Root' = Root
  BY <1>1 DEF Root
<1>10. \A j \in Inos : \A x \in 1 .. Len(inodes[j].blocks) : inodes[j].blocks[x] # b
  BY <1>4 DEF Fresh
<1>11. Entries(Root, data)' = Entries(Root, data) /\ ListedIn(Root, data)' = ListedIn(Root, data)
  <2>1. \A x \in 1 .. Len(Root.blocks) : data'[Root.blocks[x]] = data[Root.blocks[x]]
    BY <1>3, <1>5, <1>7, <1>10
  <2>2. Entries(Root, data)' = Entries(Root, data)
    BY <1>9, <2>1 DEF Entries
  <2>3. QED
    BY <2>2 DEF ListedIn
<1>12. Shape'
  BY <1>1, <1>7, <1>8 DEF SfsInv, Shape, Labels, CreateLabels
<1>13. FormatInv' /\ BlocksInv'
  BY <1>1, <1>2, <1>3, FormatFrame, BlocksFrame DEF SfsInv
<1>14. DirInv'
  <2>1. pc # "fmt_root" /\ pc' # "fmt_root"
    BY <1>1
  <2>2. QED
    BY <1>1, <1>3, <1>9, <1>11, <2>1 DEF SfsInv, DirInv
<1>15. FilesInv'
  BY <1>1, <1>11 DEF SfsInv, FilesInv
<1>16. CreateInv'
  <2>1. Fresh(call.blk)' /\ call'.blk = b /\ call'.ino = i
    BY <1>1, <1>4 DEF Fresh, b, i
  <2>2. inode' = Grown'
    BY <1>8, <1>9, <2>1 DEF Grown
  <2>3. QED
    BY <1>1, <1>4, <1>6, <1>7, <1>9, <1>11, <2>1, <2>2 DEF CreateInv
<1>17. WriteInv' /\ IdleInv'
  BY <1>2 DEF WriteInv, IdleInv
<1>18. KeptInv'
  BY <1>1, <1>2, <1>7, <1>10, KeptElsewhere
<1>19. LeakInv'
  <2>1. InodeBlocks' = InodeBlocks
    BY <1>1 DEF InodeBlocks, Range0
  <2>2. Range0(inode'.blocks) = Range0(inode.blocks) \cup {b}
    BY <1>4, <1>5, <1>8, AppendedBlock
  <2>3. pc = "cr_block" /\ pc' # "cr_block" /\ call'.ino = call.ino /\ call.blk = b
    BY <1>1 DEF b
  <2>4. ASSUME crashes' = 0
        PROVE  /\ ibm \cup {ROOT_INO} = {0} \cup ListedIn(Root, data) \cup {call.ino}
               /\ bbm = (0 .. DATA_START - 1) \cup InodeBlocks \cup Range0(inode.blocks) \cup {b}
    BY <1>1, <1>2, <1>3, <2>3, <2>4 DEF SfsInv, LeakInv
  <2>5. QED
    BY <1>1, <1>2, <1>11, <2>1, <2>2, <2>3, <2>4 DEF LeakInv
<1>20. QED
  BY <1>12, <1>13, <1>14, <1>15, <1>16, <1>17, <1>18, <1>19 DEF SfsInv

\* The directory's inode is written back, with the new block if there is one.
LEMMA CreateParentKeeps == ASSUME SfsInv, CreateParent PROVE SfsInv'
<1> DEFINE i == call.ino
           b == call.blk
           dir == [inode EXCEPT !.size = @ + 1]
<1>1. /\ pc = "cr_parent" /\ pc' = "idle" /\ inodes' = [inodes EXCEPT ![ROOT_INO] = dir]
      /\ created' = created \cup {[name |-> call.name, ino |-> i]}
      /\ content' = [content EXCEPT ![i] = << >>] /\ call' = NoCall /\ inode' = ZeroInode
      /\ UNCHANGED <<magic, ibm, bbm, data, mounted, file_table, crashes>>
  BY DEF CreateParent, Return
<1>2. /\ pc \notin Settling \cup WriteLabels /\ pc' \notin Settling \cup WriteLabels \cup CreateLabels
      /\ pc \in CreateLabels
  BY <1>1 DEF Settling, FormatLabels, CreateLabels, WriteLabels
<1>3. /\ Ready /\ Ready' /\ magic /\ ROOT_INO \in Inos /\ Root \in Nodes /\ Root = inodes[ROOT_INO]
      /\ Len(Root.blocks) \in Nat \ {0} /\ ROOT_INO \in ibm
      /\ ListedIn(Root, data) \subseteq ibm \cap Inos
  BY <1>1, <1>2, RootFacts DEF Ready, Settling
<1>4. /\ i \in Inos /\ i # ROOT_INO /\ i # 0 /\ i \in ibm /\ call.name \in Names
      /\ inodes[i] = [ZeroInode EXCEPT !.ino = i]
  BY <1>1, <1>2 DEF SfsInv, CreateInv, Shape, CallRecords
<1>5. /\ inodes \in [Inos -> Nodes] /\ inode \in Nodes /\ b \in Blocks /\ Root.blocks \in Seq(Blocks)
      /\ content = [j \in Inos |-> content[j]]
  BY <1>3 DEF SfsInv, Shape, CallRecords, Nodes
<1>6. \/ inode = Root /\ i \in ListedIn(Root, data)
      \/ /\ inode = [Root EXCEPT !.blocks = Append(Root.blocks, b)]
         /\ i \notin ListedIn(Root, data) /\ Fresh(b) /\ Len(Root.blocks) < DIRECT
         /\ data[b][0].ino = i /\ \A o \in Offsets \ {0} : data[b][o] = Zero
  BY <1>1, <1>2 DEF SfsInv, CreateInv, Grown
<1>7. /\ dir \in Nodes /\ dir.blocks = inode.blocks /\ dir.ino = ROOT_INO /\ dir.type = "dir"
  <2>1. inode.ino = ROOT_INO /\ inode.type = "dir"
    BY <1>3, <1>6 DEF SfsInv, DirInv, Nodes
  <2>2. inode.size + 1 \in Nat
    BY <1>5 DEF Nodes
  <2>3. QED
    BY <1>5, <2>1, <2>2 DEF Nodes
<1>8. /\ inodes[i].ino = i /\ inodes[i].size = 0 /\ inodes[i].blocks = << >>
  BY <1>4 DEF ZeroInode
<1> HIDE DEF i, b, dir
<1>9. /\ inodes' \in [Inos -> Nodes] /\ Root' = dir /\ inodes'[ROOT_INO] = dir
      /\ \A j \in Inos : j # ROOT_INO => inodes'[j] = inodes[j]
  BY <1>1, <1>3, <1>5, <1>7 DEF Root
<1>10. /\ Len(dir.blocks) \in Nat \ {0} /\ Len(dir.blocks) >= Len(Root.blocks)
       /\ \A x \in 1 .. Len(Root.blocks) : dir.blocks[x] = Root.blocks[x]
       /\ \/ dir.blocks = Root.blocks
          \/ Len(dir.blocks) = Len(Root.blocks) + 1 /\ dir.blocks[Len(Root.blocks) + 1] = b
             /\ dir.blocks = Append(Root.blocks, b) /\ inode.blocks = Append(Root.blocks, b)
  <2>1. CASE inode = Root
    BY <1>3, <1>7, <2>1
  <2>2. CASE inode = [Root EXCEPT !.blocks = Append(Root.blocks, b)]
    <3>1. dir.blocks = Append(Root.blocks, b)
      BY <1>3, <1>7, <2>2 DEF Nodes
    <3>2. /\ Len(Append(Root.blocks, b)) = Len(Root.blocks) + 1
          /\ \A x \in 1 .. Len(Root.blocks) : Append(Root.blocks, b)[x] = Root.blocks[x]
          /\ Append(Root.blocks, b)[Len(Root.blocks) + 1] = b
      BY <1>5, AppendedBlock
    <3>3. QED
      BY <1>3, <1>7, <3>1, <3>2
  <2>3. QED
    BY <1>6, <2>1, <2>2
<1>11. /\ Entries(Root, data) \subseteq Entries(Root, data)'
       /\ \A e \in Entries(Root, data)' : e \in Entries(Root, data) \/ e = Zero \/ e.ino = i
       /\ i \in ListedIn(Root, data)'
  <2>1. Entries(Root, data)' = {data[dir.blocks[x]][o] : x \in 1 .. Len(dir.blocks), o \in Offsets}
    BY <1>1, <1>9 DEF Entries
  <2>2. Entries(Root, data) \subseteq Entries(Root, data)'
    <3>1. \A x \in 1 .. Len(Root.blocks) : x \in 1 .. Len(dir.blocks)
      BY <1>3, <1>10
    <3>2. ASSUME NEW e \in Entries(Root, data) PROVE e \in Entries(Root, data)'
      <4>1. PICK x \in 1 .. Len(Root.blocks), o \in Offsets : e = data[Root.blocks[x]][o]
        BY DEF Entries
      <4>2. x \in 1 .. Len(dir.blocks) /\ e = data[dir.blocks[x]][o]
        BY <1>10, <3>1, <4>1
      <4>3. QED
        BY <2>1, <4>2
    <3>3. QED
      BY <3>2
  <2>3. CASE inode = Root
    <3>1. Entries(Root, data)' = Entries(Root, data)
      <4>1. dir.blocks = Root.blocks
        BY <1>7, <2>3
      <4>2. Entries(Root, data) = {data[dir.blocks[x]][o] : x \in 1 .. Len(dir.blocks), o \in Offsets}
        BY ONLY <4>1 DEF Entries
      <4>3. QED
        BY <2>1, <4>2
    <3>2. i \in ListedIn(Root, data)
      <4>1. inode # [Root EXCEPT !.blocks = Append(Root.blocks, b)]
        <5>1. Len(Append(Root.blocks, b)) # Len(Root.blocks)
          BY <1>3, <1>5, AppendedBlock
        <5>2. [Root EXCEPT !.blocks = Append(Root.blocks, b)].blocks = Append(Root.blocks, b)
          BY <1>3 DEF Nodes
        <5>3. QED
          BY <2>3, <5>1, <5>2
      <4>2. QED
        BY <1>6, <4>1
    <3>3. QED
      BY <3>1, <3>2 DEF ListedIn
  <2>4. CASE ~(inode = Root)
    <3>1. /\ inode = [Root EXCEPT !.blocks = Append(Root.blocks, b)]
          /\ data[b][0].ino = i /\ \A o \in Offsets \ {0} : data[b][o] = Zero
      BY <1>6, <2>4
    <3>2. dir.blocks = Append(Root.blocks, b)
      BY <1>3, <1>7, <3>1 DEF Nodes
    <3>3. /\ Len(dir.blocks) = Len(Root.blocks) + 1 /\ dir.blocks[Len(Root.blocks) + 1] = b
      BY <1>5, <3>2, AppendedBlock
    <3>4. \A x \in 1 .. Len(dir.blocks) : x \in 1 .. Len(Root.blocks) \/ dir.blocks[x] = b
      BY <1>3, <3>3
    <3>5. \A e \in Entries(Root, data)' : e \in Entries(Root, data) \/ e = Zero \/ e.ino = i
      <4> TAKE e \in Entries(Root, data)'
      <4>1. PICK x \in 1 .. Len(dir.blocks), o \in Offsets : e = data[dir.blocks[x]][o]
        BY <2>1
      <4>2. CASE x \in 1 .. Len(Root.blocks)
        BY <1>10, <4>1, <4>2 DEF Entries
      <4>3. CASE dir.blocks[x] = b
        BY <3>1, <4>1, <4>3
      <4>4. QED
        BY <3>4, <4>2, <4>3
    <3>6. i \in ListedIn(Root, data)'
      <4>1. 0 \in Offsets /\ Len(Root.blocks) + 1 \in 1 .. Len(dir.blocks)
        BY <1>3, <3>3, SfsAssumption DEF Offsets
      <4>2. data[b][0] \in Entries(Root, data)'
        BY <2>1, <3>3, <4>1
      <4>3. QED
        BY <1>4, <3>1, <4>2 DEF ListedIn
    <3>7. QED
      BY <2>2, <3>5, <3>6
  <2>5. QED
    BY <2>2, <2>3, <2>4
<1>12. ListedIn(Root, data)' = ListedIn(Root, data) \cup {i}
  BY <1>4, <1>11 DEF ListedIn, Zero
<1>13. Shape'
  <2>1. NoCall \in CallRecords /\ ZeroInode \in Nodes
    BY SfsAssumption DEF NoCall, CallRecords, Blocks, ZeroInode, Nodes
  <2>2. created' \subseteq [name : Names, ino : Inos]
    BY <1>1, <1>4 DEF SfsInv, Shape
  <2>3. content' = [j \in Inos |-> content'[j]]
    BY <1>1, <1>5
  <2>4. QED
    BY <1>1, <1>9, <2>1, <2>2, <2>3 DEF SfsInv, Shape, Labels
<1>14. FormatInv'
  BY <1>1, <1>2, <1>3, FormatFrame
<1>15. BlocksInv'
  <2>1. /\ GoodBlocks(Root) /\ \A j \in Inos : GoodBlocks(inodes[j])
        /\ \A j, l \in Inos : j # l => Apart(inodes[j], inodes[l])
    BY <1>3 DEF SfsInv, BlocksInv
  <2>2. \/ dir.blocks = Root.blocks
        \/ /\ Len(dir.blocks) = Len(Root.blocks) + 1 /\ dir.blocks[Len(Root.blocks) + 1] = b
           /\ Fresh(b) /\ Len(Root.blocks) < DIRECT
    BY <1>3, <1>6, <1>7, <1>10
  <2>3. \A x \in 1 .. Len(dir.blocks) :
           x \in 1 .. Len(Root.blocks) \/ (x = Len(Root.blocks) + 1 /\ dir.blocks[x] = b /\ Fresh(b))
    BY <1>3, <2>2
  <2>4. Len(dir.blocks) <= DIRECT
    BY <1>3, <2>1, <2>2, SfsAssumption DEF GoodBlocks
  <2>5. \A x \in 1 .. Len(dir.blocks) : dir.blocks[x] \in bbm' /\ dir.blocks[x] >= DATA_START
    BY <1>1, <1>10, <2>1, <2>3 DEF GoodBlocks, Fresh
  <2>6. \A x, y \in 1 .. Len(dir.blocks) : dir.blocks[x] = dir.blocks[y] => x = y
    <3> TAKE x, y \in 1 .. Len(dir.blocks)
    <3>1. \A l \in 1 .. Len(Root.blocks) : Fresh(b) => dir.blocks[l] # b
      BY <1>3, <1>10 DEF Fresh
    <3>2. QED
      BY <1>10, <2>1, <2>3, <3>1 DEF GoodBlocks
  <2>7. ASSUME NEW j \in Inos, j # ROOT_INO
        PROVE  Apart(dir, inodes[j]) /\ Apart(inodes[j], dir)
    <3>1. Apart(Root, inodes[j])
      BY <1>3, <2>1, <2>7
    <3>2. \A x \in 1 .. Len(dir.blocks), y \in 1 .. Len(inodes[j].blocks) : dir.blocks[x] # inodes[j].blocks[y]
      BY <1>10, <2>3, <3>1 DEF Apart, Fresh
    <3>3. QED
      BY <3>2 DEF Apart
  <2>8. \A j \in Inos : GoodBlocks(inodes[j])'
    BY <1>1, <1>9, <2>1, <2>4, <2>5, <2>6 DEF GoodBlocks
  <2>9. \A j, l \in Inos : j # l => Apart(inodes[j], inodes[l])'
    BY <1>9, <2>1, <2>7 DEF Apart
  <2>10. QED
    BY <2>8, <2>9 DEF BlocksInv
<1>16. DirInv'
  <2>1. pc # "fmt_root" /\ pc' # "fmt_root" /\ 0 \in ibm
    BY <1>1, <1>2, RootFacts
  <2>2. \A e \in Entries(Root, data) :
           /\ e.ino \in {0} \cup Inos /\ e.ino \in {0, ROOT_INO} \cup ibm
           /\ e.ino # 0 => inodes[e.ino].ino = e.ino
           /\ e.ino = ROOT_INO => e.name \in {Dot, DotDot}
    BY <1>3 DEF SfsInv, DirInv
  <2>3. Zero.ino = 0 /\ 0 # ROOT_INO
    BY DEF Zero, ROOT_INO
  <2>4. \A e \in Entries(Root, data)' :
           /\ e.ino \in {0} \cup Inos /\ e.ino \in {0, ROOT_INO} \cup ibm
           /\ e.ino # 0 => inodes'[e.ino].ino = e.ino
           /\ e.ino = ROOT_INO => e.name \in {Dot, DotDot}
    <3> TAKE e \in Entries(Root, data)'
    <3>1. CASE e \in Entries(Root, data)
      BY <1>7, <1>9, <2>2, <3>1
    <3>2. CASE e = Zero
      BY <2>3, <3>2
    <3>3. CASE e.ino = i
      BY <1>4, <1>8, <1>9, <3>3
    <3>4. QED
      BY <1>11, <3>1, <3>2, <3>3
  <2>5. QED
    BY <1>1, <1>3, <1>7, <1>9, <1>10, <2>1, <2>4 DEF DirInv
<1>17. FilesInv'
  <2>1. \A f \in Fds : file_table[f].in_use => file_table[f].ino \in Inos \ {ROOT_INO}
    BY <1>3 DEF SfsInv, FilesInv
  <2>2. \A j \in Inos : j # ROOT_INO =>
           inodes'[j].type = "file" /\ inodes'[j].size <= Len(inodes'[j].blocks) * BLOCK_SIZE
    BY <1>9 DEF SfsInv, FilesInv
  <2>3. \A c \in created' : c.ino \in ListedIn(Root, data)' \ {ROOT_INO}
    BY <1>1, <1>4, <1>12 DEF SfsInv, FilesInv
  <2>4. \A f \in Fds : file_table'[f].in_use =>
           /\ file_table'[f].ino \in ListedIn(Root, data)' \ {ROOT_INO}
           /\ file_table'[f].offset <= inodes'[file_table'[f].ino].size
    BY <1>1, <1>9, <1>12, <2>1 DEF SfsInv, FilesInv
  <2>5. \A j \in Inos : j # ROOT_INO /\ j \notin ListedIn(Root, data)' =>
           inodes'[j].size = 0 /\ inodes'[j].blocks = << >>
    BY <1>9, <1>12 DEF SfsInv, FilesInv
  <2>6. QED
    BY <2>2, <2>3, <2>4, <2>5 DEF FilesInv
<1>18. CreateInv' /\ WriteInv' /\ IdleInv'
  BY <1>1, <1>2 DEF CreateInv, WriteInv, IdleInv
<1>19. KeptInv'
  <2>1. \A j \in Inos : j # ROOT_INO => content[j] = Image(inodes[j], inodes[j].size, data)
    BY <1>2 DEF SfsInv, KeptInv
  <2>2. Image(inodes[i], inodes[i].size, data) = << >>
    BY <1>8 DEF Image
  <2>3. \A j \in Inos : content'[j] = IF j = i THEN << >> ELSE content[j]
    BY <1>1, <1>5
  <2>4. QED
    BY <1>1, <1>2, <1>4, <1>9, <2>1, <2>2, <2>3 DEF KeptInv
<1>20. LeakInv'
  <2>1. InodeBlocks' = InodeBlocks \cup Range0(inode.blocks)
    <3>1. Range0(inodes'[ROOT_INO].blocks) = Range0(inode.blocks)
      BY <1>7, <1>9
    <3>2. Range0(Root.blocks) \subseteq Range0(inode.blocks)
      <4>1. CASE dir.blocks = Root.blocks
        BY <1>7, <4>1
      <4>2. CASE inode.blocks = Append(Root.blocks, b)
        BY <1>5, <4>2, AppendedBlock
      <4>3. QED
        BY <1>10, <4>1, <4>2
    <3>3. \A j \in Inos : j # ROOT_INO => Range0(inodes'[j].blocks) = Range0(inodes[j].blocks)
      BY <1>9
    <3>4. QED
      BY <1>3, <3>1, <3>2, <3>3 DEF InodeBlocks
  <2>2. Range0(inode'.blocks) = {}
    BY <1>1 DEF Range0, ZeroInode
  <2>3. pc # "cr_block" /\ pc' # "cr_block"
    BY <1>1
  <2>4. ASSUME crashes' = 0
        PROVE  /\ ibm \cup {ROOT_INO} = {0} \cup ListedIn(Root, data) \cup {i}
               /\ bbm = (0 .. DATA_START - 1) \cup InodeBlocks \cup Range0(inode.blocks)
    BY <1>1, <1>2, <1>3, <2>3, <2>4 DEF SfsInv, LeakInv, i
  <2>5. QED
    BY <1>1, <1>2, <1>12, <2>1, <2>2, <2>3, <2>4 DEF LeakInv
<1>21. QED
  BY <1>13, <1>14, <1>15, <1>16, <1>17, <1>18, <1>19, <1>20 DEF SfsInv

-----------------------------------------------------------------------------
(* sys_open, sys_close, sys_read.                                            *)

\* Between calls only the part about open files depends on the file table.
LEMMA TableSuffices ==
    ASSUME SfsInv, pc = "idle", UNCHANGED <<disk, mounted, pc, call, inode, ghost>>,
           file_table' \in [Fds -> [ino : {0} \cup Inos, offset : Nat, in_use : BOOLEAN]],
           \A f \in Fds : file_table'[f].in_use =>
               /\ file_table'[f].ino \in ListedIn(Root, data) \ {ROOT_INO}
               /\ file_table'[f].offset <= inodes[file_table'[f].ino].size
    PROVE  SfsInv'
<1>1. UNCHANGED <<magic, ibm, bbm, inodes, data, mounted, pc, call, inode, content, created, crashes>>
  BY DEF disk, ghost
<1>2. /\ pc \notin Settling \cup CreateLabels \cup WriteLabels
      /\ pc' \notin Settling \cup CreateLabels \cup WriteLabels
  BY <1>1 DEF Settling, FormatLabels, CreateLabels, WriteLabels
<1>3. Ready /\ Ready' /\ magic /\ ROOT_INO \in ibm
  BY <1>1, <1>2, RootFacts DEF Ready
<1>4. Shape'
  BY <1>1 DEF SfsInv, Shape
<1>5. FormatInv' /\ BlocksInv'
  BY <1>1, <1>2, <1>3, FormatFrame, BlocksFrame DEF SfsInv
<1>6. DirInv' /\ KeptInv'
  BY <1>1, <1>2, <1>3, DirFrame, KeptFrame DEF SfsInv
<1>7. ListedIn(Root, data)' = ListedIn(Root, data)
  BY <1>1, ListedFrame
<1>8. FilesInv'
  BY <1>1, <1>7 DEF SfsInv, FilesInv
<1>9. CreateInv' /\ WriteInv' /\ IdleInv'
  BY <1>1, <1>2 DEF SfsInv, CreateInv, WriteInv, IdleInv
<1>10. LeakInv'
  BY <1>1, <1>2, <1>3, LeakFrame DEF SfsInv
<1>11. QED
  BY <1>4, <1>5, <1>6, <1>8, <1>9, <1>10 DEF SfsInv

\* sys_open finds a file, never the directory: its names are . and .. alone.
LEMMA OpenKeeps == ASSUME SfsInv, Settled, NEW path \in Names, Open(path) PROVE SfsInv'
<1> DEFINE g == Min(FreeFds)
           ino == sfs_lookup(Parsed(path))
<1>1. /\ pc = "idle" /\ ino >= 0 /\ FreeFds # {}
      /\ file_table' = [file_table EXCEPT ![g] = [ino |-> ino, offset |-> 0, in_use |-> TRUE]]
      /\ UNCHANGED <<disk, mounted, pc, call, inode, ghost>>
  BY DEF Open
<1>2. pc \notin Settling
  BY <1>1 DEF Settling, FormatLabels
<1>3. /\ Ready /\ Root \in Nodes /\ ListedIn(Root, data) \subseteq ibm \cap Inos
  BY <1>2, RootFacts
<1>4. g \in Fds
  <2>1. FreeFds \subseteq Nat
    BY SfsAssumption DEF FreeFds, Fds
  <2>2. g \in FreeFds
    BY <1>1, <2>1, MinOfNats
  <2>3. QED
    BY <2>2 DEF FreeFds
<1>5. ino \in ListedIn(Root, data) \ {ROOT_INO}
  <2>1. \/ ino = -1
        \/ \E e \in Entries(Root, data) : e.ino # 0 /\ e.name = Parsed(path) /\ ino = e.ino
    BY <1>3, LookupListed
  <2> HIDE DEF ino
  <2>2. PICK e \in Entries(Root, data) : e.ino # 0 /\ e.name = Parsed(path) /\ ino = e.ino
    BY <1>1, <2>1
  <2>3. e.ino # ROOT_INO
    BY <1>3, <2>2 DEF Settled, SfsInv, DirInv
  <2>4. QED
    BY <2>2, <2>3 DEF ListedIn
<1>6. file_table \in [Fds -> [ino : {0} \cup Inos, offset : Nat, in_use : BOOLEAN]]
  BY DEF SfsInv, Shape
<1> HIDE DEF g, ino
<1>7. ino \in Inos /\ inodes[ino].size \in Nat
  BY <1>3, <1>5 DEF SfsInv, Shape, Nodes
<1>8. file_table' \in [Fds -> [ino : {0} \cup Inos, offset : Nat, in_use : BOOLEAN]]
  BY <1>1, <1>4, <1>6, <1>7
<1>9. ASSUME NEW f \in Fds, file_table'[f].in_use
      PROVE  /\ file_table'[f].ino \in ListedIn(Root, data) \ {ROOT_INO}
             /\ file_table'[f].offset <= inodes[file_table'[f].ino].size
  <2>1. CASE f = g
    BY <1>1, <1>4, <1>5, <1>6, <1>7, <2>1
  <2>2. CASE f # g
    BY <1>1, <1>4, <1>6, <1>9, <2>2 DEF SfsInv, FilesInv
  <2>3. QED
    BY <2>1, <2>2
<1>10. QED
  BY <1>1, <1>8, <1>9, TableSuffices

\* sys_close frees an entry of the file table.
LEMMA CloseKeeps == ASSUME SfsInv, NEW fd \in Fds, Close(fd) PROVE SfsInv'
<1>1. /\ pc = "idle" /\ file_table' = [file_table EXCEPT ![fd].in_use = FALSE]
      /\ UNCHANGED <<disk, mounted, pc, call, inode, ghost>>
  BY DEF Close
<1>2. file_table \in [Fds -> [ino : {0} \cup Inos, offset : Nat, in_use : BOOLEAN]]
  BY DEF SfsInv, Shape
<1>3. file_table' \in [Fds -> [ino : {0} \cup Inos, offset : Nat, in_use : BOOLEAN]]
  BY <1>1, <1>2
<1>4. \A f \in Fds : file_table'[f].in_use => f # fd /\ file_table'[f] = file_table[f]
  BY <1>1, <1>2
<1>5. \A f \in Fds : file_table'[f].in_use =>
               /\ file_table'[f].ino \in ListedIn(Root, data) \ {ROOT_INO}
               /\ file_table'[f].offset <= inodes[file_table'[f].ino].size
  BY <1>4 DEF SfsInv, FilesInv
<1>6. QED
  BY <1>1, <1>3, <1>5, TableSuffices

\* sys_read moves the offset on, never past the end of the file.
LEMMA ReadKeeps == ASSUME SfsInv, NEW fd \in Fds, NEW count \in Nat, Read(fd, count) PROVE SfsInv'
<1> DEFINE i == file_table[fd].ino
           off == file_table[fd].offset
           n == Len(sfs_read_file(inodes[i], count, off))
<1>1. /\ pc = "idle" /\ file_table' = [file_table EXCEPT ![fd].offset = off + n]
      /\ file_table[fd].in_use /\ UNCHANGED <<disk, mounted, pc, call, inode, ghost>>
  BY DEF Read
<1>2. pc \notin Settling
  BY <1>1 DEF Settling, FormatLabels
<1>3. file_table \in [Fds -> [ino : {0} \cup Inos, offset : Nat, in_use : BOOLEAN]]
  BY DEF SfsInv, Shape
<1>4. /\ i \in Inos /\ i # ROOT_INO /\ off \in Nat /\ off <= inodes[i].size
      /\ i \in ListedIn(Root, data) \ {ROOT_INO}
  <2>1. ListedIn(Root, data) \subseteq Inos
    BY <1>2, RootFacts
  <2>2. QED
    BY <1>1, <1>3, <2>1 DEF SfsInv, FilesInv
<1>5. inodes[i] \in Nodes /\ inodes[i].size \in Nat /\ Holds(inodes[i])
  BY <1>4 DEF SfsInv, Shape, FilesInv, Nodes, Holds
<1>6. n \in Nat /\ off + n <= inodes[i].size
  <2>1. n = IF off >= inodes[i].size THEN 0
            ELSE IF count <= inodes[i].size - off THEN count ELSE inodes[i].size - off
    BY <1>4, <1>5, ReadUnits
  <2> HIDE DEF n, off
  <2>2. QED
    BY <1>4, <1>5, <2>1
<1> HIDE DEF n
<1>7. file_table' \in [Fds -> [ino : {0} \cup Inos, offset : Nat, in_use : BOOLEAN]]
  BY <1>1, <1>3, <1>4, <1>6
<1>8. ASSUME NEW f \in Fds, file_table'[f].in_use
      PROVE  /\ file_table'[f].ino \in ListedIn(Root, data) \ {ROOT_INO}
             /\ file_table'[f].offset <= inodes[file_table'[f].ino].size
  <2>1. CASE f = fd
    <3>1. file_table'[f].ino = i /\ file_table'[f].offset = off + n
      BY <1>1, <1>3, <2>1
    <3>2. QED
      BY <1>4, <1>6, <3>1
  <2>2. CASE f # fd
    BY <1>1, <1>3, <1>8, <2>2 DEF SfsInv, FilesInv
  <2>3. QED
    BY <2>1, <2>2
<1>9. QED
  BY <1>1, <1>7, <1>8, TableSuffices

-----------------------------------------------------------------------------
(* sys_write and sfs_write_file.                                             *)

\* What a call that writes knows.
LEMMA WriteFacts ==
    ASSUME SfsInv, pc \in WriteLabels
    PROVE  /\ pc \notin Settling \cup CreateLabels
           /\ call.fd \in Fds /\ file_table[call.fd].ino = call.ino /\ file_table[call.fd].in_use
           /\ file_table[call.fd].offset \in Nat /\ file_table[call.fd].offset <= inode.size
           /\ call.ino \in Inos /\ call.ino # ROOT_INO /\ call.ino \in ListedIn(Root, data)
           /\ call.n \in Nat /\ At = file_table[call.fd].offset + call.n /\ At \in Nat
           /\ inode \in Nodes /\ Len(inode.blocks) \in Nat /\ inode.blocks \in Seq(Blocks)
           /\ inode.size \in Nat /\ call.buf \in Seq(Values) /\ Len(call.buf) \in Nat
           /\ inode.size = inodes[call.ino].size /\ inodes[call.ino] \in Nodes
           /\ inode.size <= Len(inodes[call.ino].blocks) * BLOCK_SIZE
           /\ inode.size <= Len(inode.blocks) * BLOCK_SIZE
           /\ Len(inode.blocks) * BLOCK_SIZE \in Nat
<1>1. pc \notin Settling \cup CreateLabels
  BY DEF Settling, FormatLabels, CreateLabels, WriteLabels
<1>2. /\ call.fd \in Fds /\ file_table[call.fd].ino = call.ino /\ file_table[call.fd].in_use
      /\ inode.size = inodes[call.ino].size /\ Len(inode.blocks) >= Len(inodes[call.ino].blocks)
  BY DEF SfsInv, WriteInv
<1>3. ListedIn(Root, data) \subseteq Inos
  BY <1>1, RootFacts
<1>4. /\ call.ino \in Inos /\ call.ino # ROOT_INO /\ call.ino \in ListedIn(Root, data)
      /\ file_table[call.fd].offset <= inode.size
  BY <1>2, <1>3 DEF SfsInv, FilesInv
<1>5. /\ file_table[call.fd].offset \in Nat /\ call.n \in Nat /\ call.buf \in Seq(Values)
      /\ inode \in Nodes /\ inodes[call.ino] \in Nodes
  BY <1>2, <1>4 DEF SfsInv, Shape, CallRecords
<1>6. At = file_table[call.fd].offset + call.n /\ At \in Nat
  BY <1>5 DEF At
<1>7. /\ Len(inode.blocks) \in Nat /\ Len(inodes[call.ino].blocks) \in Nat /\ inode.size \in Nat
      /\ inode.blocks \in Seq(Blocks)
  BY <1>5 DEF Nodes
<1>8. Len(call.buf) \in Nat
  BY <1>5
<1>9. inode.size <= Len(inodes[call.ino].blocks) * BLOCK_SIZE
  BY <1>2, <1>4 DEF SfsInv, FilesInv
<1> DEFINE m == Len(inodes[call.ino].blocks)
           n == Len(inode.blocks)
<1>10. m * BLOCK_SIZE <= n * BLOCK_SIZE /\ n * BLOCK_SIZE \in Nat /\ m * BLOCK_SIZE \in Nat
  <2>1. m \in Nat /\ n \in Nat /\ m <= n
    BY <1>2, <1>7
  <2> HIDE DEF m, n
  <2>2. QED
    BY <2>1, SfsAssumption
<1>11. inode.size <= n * BLOCK_SIZE
  <2> HIDE DEF n
  <2>1. QED
    BY <1>7, <1>9, <1>10
<1>12. QED
  BY <1>1, <1>2, <1>4, <1>5, <1>6, <1>7, <1>8, <1>9, <1>10, <1>11

\* What programs pass to sys_write is a sequence of units.
LEMMA BufIsSeq == ASSUME NEW buf \in Bufs PROVE buf \in Seq(Values)
<1>1. PICK k \in 1 .. MaxCount : buf \in [1 .. k -> Values]
  BY DEF Bufs
<1>2. k \in Nat
  BY <1>1
<1>3. QED
  BY <1>1, <1>2, SeqDef

\* sys_write reads the file's inode into memory.
LEMMA WriteKeeps == ASSUME SfsInv, NEW fd \in Fds, NEW buf \in Bufs, Write(fd, buf) PROVE SfsInv'
<1> DEFINE i == file_table[fd].ino
           off == file_table[fd].offset
<1>1. /\ pc = "idle" /\ pc' = "wr_loop" /\ file_table[fd].in_use
      /\ call' = [NoCall EXCEPT !.fd = fd, !.buf = buf, !.ino = i] /\ inode' = inodes[i]
      /\ UNCHANGED <<magic, ibm, bbm, inodes, data, mounted, file_table, content, created, crashes>>
  BY DEF Write, disk, ghost
<1>2. /\ pc \notin Settling \cup CreateLabels \cup WriteLabels
      /\ pc' \notin Settling \cup CreateLabels /\ pc' \in WriteLabels
  BY <1>1 DEF Settling, FormatLabels, CreateLabels, WriteLabels
<1>3. /\ Ready /\ Ready' /\ magic /\ ROOT_INO \in ibm
      /\ ListedIn(Root, data) \subseteq Inos /\ \A j \in ListedIn(Root, data) : inodes[j].ino = j
  BY <1>1, <1>2, RootFacts DEF Ready, Settling
<1>4. /\ i \in ListedIn(Root, data) /\ i \in Inos /\ i # ROOT_INO /\ off <= inodes[i].size
      /\ inodes[i].ino = i /\ inodes[i].type = "file"
      /\ inodes[i].size <= Len(inodes[i].blocks) * BLOCK_SIZE
  BY <1>1, <1>3 DEF SfsInv, FilesInv
<1>5. /\ inodes[i] \in Nodes /\ inodes[i].size \in Nat /\ Len(inodes[i].blocks) \in Nat /\ off \in Nat
  BY <1>4 DEF SfsInv, Shape, Nodes
<1>6. call' = [name |-> NoName, ino |-> i, blk |-> 0, fd |-> fd, buf |-> buf, n |-> 0]
  BY <1>1 DEF NoCall
<1>7. buf \in Seq(Values) /\ fd \in Nat /\ 0 \in Blocks
  BY BufIsSeq, SfsAssumption DEF Fds, Blocks
<1>8. Len(buf) \in Nat
  BY <1>7
<1> HIDE DEF i, off
<1>9. Shape'
  <2>1. call' \in CallRecords
    BY <1>4, <1>6, <1>7 DEF CallRecords
  <2>2. pc' \in Labels
    BY <1>2 DEF Labels
  <2>3. QED
    BY <1>1, <1>5, <2>1, <2>2 DEF SfsInv, Shape
<1>10. FormatInv' /\ BlocksInv' /\ FilesInv' /\ DirInv'
  BY <1>1, <1>2, <1>3, FormatFrame, BlocksFrame, FilesFrame, DirFrame DEF SfsInv
<1>11. CreateInv' /\ IdleInv'
  BY <1>2 DEF CreateInv, IdleInv
<1>12. /\ At' = off /\ call'.n = 0 /\ call'.ino = i /\ call'.fd = fd /\ call'.buf = buf
       /\ file_table' = file_table /\ inodes' = inodes /\ inode' = inodes[i] /\ NewSize' = inodes[i].size
  <2>1. call'.n = 0 /\ call'.ino = i /\ call'.fd = fd /\ call'.buf = buf
    BY <1>6
  <2>2. file_table' = file_table /\ inodes' = inodes /\ inode' = inodes[i]
    BY <1>1
  <2>3. At' = file_table'[call'.fd].offset + call'.n
    BY DEF At
  <2>4. file_table'[call'.fd].offset = off
    BY <2>1, <2>2 DEF off
  <2>5. At' = off
    BY <1>5, <2>1, <2>3, <2>4
  <2>6. NewSize' = IF At' > inode'.size THEN At' ELSE inode'.size
    BY DEF NewSize
  <2>7. NewSize' = inodes[i].size
    BY <1>4, <1>5, <2>2, <2>5, <2>6
  <2>8. QED
    BY <2>1, <2>2, <2>5, <2>7
<1>13. WriteInv'
  <2>1. off <= Len(inodes[i].blocks) * BLOCK_SIZE
    <3>1. Len(inodes[i].blocks) * BLOCK_SIZE \in Nat
      BY <1>5, SfsAssumption
    <3>2. QED
      BY <1>4, <1>5, <3>1
  <2>2. GoodBlocks(inodes[i]) /\ \A j \in Inos : j # i => Apart(inodes[i], inodes[j])
    BY <1>4 DEF SfsInv, BlocksInv
  <2>3. GoodBlocks(inode)' /\ \A j \in Inos : j # i => Apart(inode, inodes[j])'
    BY <1>1, <1>12, <2>2 DEF GoodBlocks, Apart
  <2>4. pc' # "wr_block" /\ file_table[fd].ino = i
    BY <1>1 DEF i
  <2>5. QED
    BY <1>1, <1>4, <1>5, <1>8, <1>12, <2>1, <2>3, <2>4 DEF WriteInv
<1>14. KeptInv'
  <2>1. \A j \in Inos : j # ROOT_INO => content[j] = Image(inodes[j], inodes[j].size, data)
    BY <1>2 DEF SfsInv, KeptInv
  <2>2. content[i] = [k \in 1 .. inodes[i].size |-> Unit(inodes[i], k, data)]
    BY <1>4, <2>1 DEF Image
  <2>3. \A k \in 1 .. inodes[i].size : content[i][k] = Unit(inodes[i], k, data)
    BY <2>2
  <2>4. content[i] = [k \in 1 .. inodes[i].size |-> content[i][k]]
    BY <2>2
  <2>5. off + 1 .. off = {}
    BY <1>5
  <2>6. file_table'[call'.fd].offset = off
    BY <1>12 DEF off
  <2>7. QED
    BY <1>1, <1>12, <2>1, <2>3, <2>4, <2>5, <2>6 DEF KeptInv
<1>15. LeakInv'
  <2>1. InodeBlocks' = InodeBlocks
    BY <1>1 DEF InodeBlocks
  <2>2. Range0(inode'.blocks) \subseteq InodeBlocks /\ Range0(inode.blocks) = {}
    BY <1>1, <1>2, <1>4 DEF InodeBlocks, SfsInv, IdleInv, ZeroInode, Range0
  <2>3. pc # "cr_block" /\ pc' # "cr_block"
    BY <1>1
  <2>4. ListedIn(Root, data)' = ListedIn(Root, data)
    BY <1>1, ListedFrame
  <2>5. ASSUME crashes' = 0
        PROVE  /\ ibm \cup {ROOT_INO} = {0} \cup ListedIn(Root, data)
               /\ bbm = (0 .. DATA_START - 1) \cup InodeBlocks
    BY <1>1, <1>2, <1>3, <2>2, <2>3, <2>5 DEF SfsInv, LeakInv
  <2>6. QED
    BY <1>1, <1>2, <2>1, <2>2, <2>3, <2>4, <2>5 DEF LeakInv
<1>16. QED
  BY <1>9, <1>10, <1>11, <1>13, <1>14, <1>15 DEF SfsInv

\* Going on to the next block, or to the end, changes nothing but the step.
LEMMA WriteMoves ==
    ASSUME SfsInv, pc \in WriteLabels, pc' \in WriteLabels,
           pc' = "wr_block" => call.n < Len(call.buf) /\ BlockIdx < Len(inode.blocks),
           UNCHANGED <<disk, mounted, file_table, call, inode, ghost>>
    PROVE  SfsInv'
<1>1. UNCHANGED <<magic, ibm, bbm, inodes, data, mounted, file_table, call, inode, content, created, crashes>>
  BY DEF disk, ghost
<1>2. /\ pc \notin Settling \cup CreateLabels /\ pc' \notin Settling \cup CreateLabels
  BY DEF Settling, FormatLabels, CreateLabels, WriteLabels
<1>3. Ready /\ Ready' /\ magic /\ ROOT_INO \in ibm
  BY <1>1, <1>2, RootFacts DEF Ready, Settling
<1>4. Shape'
  BY <1>1 DEF SfsInv, Shape, Labels
<1>5. FormatInv' /\ BlocksInv' /\ FilesInv' /\ DirInv'
  BY <1>1, <1>2, <1>3, FormatFrame, BlocksFrame, FilesFrame, DirFrame DEF SfsInv
<1>6. CreateInv' /\ IdleInv'
  BY <1>2 DEF CreateInv, IdleInv
<1>7. At' = At /\ BlockIdx' = BlockIdx /\ NewSize' = NewSize
  BY <1>1 DEF At, BlockIdx, NewSize
<1>8. WriteInv'
  BY <1>1, <1>7 DEF SfsInv, WriteInv, GoodBlocks, Apart
<1>9. KeptInv'
  BY <1>1, <1>7 DEF SfsInv, KeptInv, Image, Unit
<1>10. LeakInv'
  BY <1>1, <1>2, <1>3, LeakFrame DEF SfsInv
<1>11. QED
  BY <1>4, <1>5, <1>6, <1>8, <1>9, <1>10 DEF SfsInv

\* The next block is there.
LEMMA WriteNextKeeps == ASSUME SfsInv, WriteNext PROVE SfsInv'
BY WriteMoves DEF WriteNext, WriteLabels

\* The loop ends.
LEMMA WriteStopKeeps == ASSUME SfsInv, WriteStop PROVE SfsInv'
BY WriteMoves DEF WriteStop, WriteLabels

\* The file grows by a block of nobody: no unit below the new size is in it.
LEMMA WriteGrowKeeps == ASSUME SfsInv, WriteGrow PROVE SfsInv'
<1>0. PICK b : b = Min(FreeBlocks)
  OBVIOUS
<1>1. /\ pc = "wr_loop" /\ pc' = "wr_block" /\ call.n < Len(call.buf)
      /\ BlockIdx >= Len(inode.blocks) /\ BlockIdx < DIRECT /\ CanAllocBlock
      /\ bbm' = bbm \cup {b} /\ inode' = [inode EXCEPT !.blocks = Append(@, b)]
      /\ UNCHANGED <<magic, ibm, inodes, data, mounted, file_table, call, content, created, crashes>>
  BY <1>0 DEF WriteGrow, ghost
<1>2. /\ pc \in WriteLabels /\ pc' \in WriteLabels
      /\ pc \notin Settling \cup CreateLabels /\ pc' \notin Settling \cup CreateLabels
  BY <1>1 DEF Settling, FormatLabels, CreateLabels, WriteLabels
<1>3. Ready /\ Ready' /\ magic /\ ROOT_INO \in ibm
  BY <1>1, <1>2, RootFacts DEF Ready, Settling
<1>4. /\ b \in Blocks /\ b \notin bbm /\ b >= DATA_START
      /\ \A i \in Inos : \A x \in 1 .. Len(inodes[i].blocks) : inodes[i].blocks[x] # b
  BY <1>0, <1>1, AllocatedBlock
<1>5. /\ call.fd \in Fds /\ file_table[call.fd].offset \in Nat /\ call.ino \in Inos
      /\ file_table[call.fd].offset <= inode.size
      /\ call.n \in Nat /\ At \in Nat /\ inode \in Nodes /\ inode.blocks \in Seq(Blocks)
      /\ inode.size \in Nat /\ inode.size <= Len(inode.blocks) * BLOCK_SIZE
      /\ Len(inode.blocks) * BLOCK_SIZE \in Nat
      /\ inode.size = inodes[call.ino].size /\ inodes[call.ino] \in Nodes
  BY <1>2, WriteFacts
<1>6. At <= Len(inode.blocks) * BLOCK_SIZE /\ GoodBlocks(inode)
  BY <1>2 DEF SfsInv, WriteInv
<1> DEFINE n == Len(inode.blocks)
           s == inode.blocks
<1>7. /\ Append(s, b) \in Seq(Blocks) /\ n \in Nat /\ Len(Append(s, b)) = n + 1
      /\ \A x \in 1 .. n : Append(s, b)[x] = s[x]
      /\ Append(s, b)[n + 1] = b
      /\ Range0(Append(s, b)) = Range0(s) \cup {b}
  BY <1>4, <1>5, AppendedBlock
<1>8. /\ inode' \in Nodes /\ inode'.blocks = Append(s, b) /\ inode'.size = inode.size
      /\ inode'.ino = inode.ino /\ inode'.type = inode.type
  BY <1>1, <1>5, <1>7 DEF Nodes
<1>9. At' = At /\ BlockIdx' = BlockIdx /\ NewSize' = NewSize
  BY <1>1, <1>8 DEF At, BlockIdx, NewSize
<1>10. BlockIdx = n
  <2>1. BlockIdx \in Nat /\ (BlockIdx < n + 1 <=> At < (n + 1) * BLOCK_SIZE)
    <3>1. BlockIdx \in Nat
      BY <1>5, PlaceParts DEF BlockIdx
    <3>2. n + 1 \in Nat
      BY <1>7
    <3> DEFINE m == n + 1
    <3>3. m \in Nat
      BY <3>2
    <3> HIDE DEF m
    <3>4. BlockIdx < m <=> At < m * BLOCK_SIZE
      BY <1>5, <3>3, PlaceBelow DEF BlockIdx
    <3>5. QED
      BY <3>1, <3>4 DEF m
  <2> HIDE DEF n
  <2>2. n * BLOCK_SIZE < (n + 1) * BLOCK_SIZE /\ (n + 1) * BLOCK_SIZE \in Nat /\ n * BLOCK_SIZE \in Nat
    BY <1>7, SfsAssumption
  <2>3. At <= n * BLOCK_SIZE /\ BlockIdx >= n
    BY <1>1, <1>6 DEF n
  <2>4. QED
    BY <1>5, <1>7, <2>1, <2>2, <2>3
<1>11. At <= (n + 1) * BLOCK_SIZE
  <2>1. At <= n * BLOCK_SIZE
    BY <1>6 DEF n
  <2> HIDE DEF n
  <2>2. n * BLOCK_SIZE < (n + 1) * BLOCK_SIZE /\ (n + 1) * BLOCK_SIZE \in Nat /\ n * BLOCK_SIZE \in Nat
    BY <1>7, SfsAssumption
  <2>3. QED
    BY <1>5, <2>1, <2>2
<1>12. Shape'
  BY <1>1, <1>4, <1>8 DEF SfsInv, Shape, Labels, WriteLabels
<1>13. FormatInv' /\ BlocksInv' /\ FilesInv' /\ DirInv'
  BY <1>1, <1>2, <1>3, FormatFrame, BlocksFrame, FilesFrame, DirFrame DEF SfsInv
<1>14. CreateInv' /\ IdleInv'
  BY <1>2 DEF CreateInv, IdleInv
<1>15. WriteInv'
  <2>1. GoodBlocks(inode)'
    <3>1. /\ n <= DIRECT /\ \A x \in 1 .. n : s[x] \in bbm /\ s[x] >= DATA_START
          /\ \A x, y \in 1 .. n : s[x] = s[y] => x = y
      BY <1>6 DEF GoodBlocks
    <3>2. n + 1 <= DIRECT
      BY <1>1, <1>7, <1>10, SfsAssumption
    <3> HIDE DEF n, s
    <3>3. \A x \in 1 .. n + 1 : x \in 1 .. n \/ x = n + 1
      BY <1>7
    <3>4. \A x \in 1 .. n + 1 : Append(s, b)[x] \in bbm' /\ Append(s, b)[x] >= DATA_START
      BY <1>1, <1>4, <1>7, <3>1, <3>3
    <3>5. \A x, y \in 1 .. n + 1 : Append(s, b)[x] = Append(s, b)[y] => x = y
      BY <1>4, <1>7, <3>1, <3>3
    <3>6. QED
      BY <1>7, <1>8, <3>2, <3>4, <3>5 DEF GoodBlocks
  <2>2. \A j \in Inos : j # call.ino => Apart(inode, inodes[j])'
    <3>1. \A j \in Inos : j # call.ino =>
             \A x \in 1 .. n, y \in 1 .. Len(inodes[j].blocks) : s[x] # inodes[j].blocks[y]
      BY <1>2 DEF SfsInv, WriteInv, Apart
    <3> HIDE DEF n, s
    <3>2. \A x \in 1 .. n + 1 : x \in 1 .. n \/ x = n + 1
      BY <1>7
    <3>3. QED
      BY <1>1, <1>4, <1>7, <1>8, <3>1, <3>2 DEF Apart
  <2>3. /\ Len(inodes[call.ino].blocks) <= n /\ Len(inodes[call.ino].blocks) \in Nat
        /\ \A x \in 1 .. Len(inodes[call.ino].blocks) : s[x] = inodes[call.ino].blocks[x]
    BY <1>2, <1>5 DEF SfsInv, WriteInv, Nodes
  <2> DEFINE m == Len(inodes[call.ino].blocks)
  <2>4. n + 1 >= m /\ \A x \in 1 .. m : Append(s, b)[x] = inodes[call.ino].blocks[x]
    <3>1. m \in Nat /\ m <= n /\ \A x \in 1 .. m : s[x] = inodes[call.ino].blocks[x]
      BY <2>3
    <3> HIDE DEF m, n, s
    <3>2. \A x \in 1 .. m : x \in 1 .. n
      BY <1>7, <3>1
    <3>3. QED
      BY <1>7, <3>1, <3>2
  <2>5. BlockIdx' < n + 1
    BY <1>7, <1>9, <1>10
  <2>6. /\ call.ino = file_table[call.fd].ino /\ file_table[call.fd].in_use
        /\ inode.ino = call.ino /\ inode.type = "file" /\ call.n <= Len(call.buf)
    BY <1>2 DEF SfsInv, WriteInv
  <2> HIDE DEF n, s, m
  <2>7. Len(inode'.blocks) = n + 1
    BY <1>7, <1>8
  <2>8. /\ inode'.ino = call'.ino /\ inode'.type = "file" /\ call'.n <= Len(call'.buf)
        /\ inode'.size = inodes'[call'.ino].size /\ At' <= Len(inode'.blocks) * BLOCK_SIZE
        /\ call'.n < Len(call'.buf) /\ BlockIdx' < Len(inode'.blocks)
    BY <1>1, <1>5, <1>8, <1>9, <1>11, <2>5, <2>6, <2>7
  <2>9. /\ Len(inode'.blocks) >= Len(inodes'[call'.ino].blocks)
        /\ \A x \in 1 .. Len(inodes'[call'.ino].blocks) : inode'.blocks[x] = inodes'[call'.ino].blocks[x]
    BY <1>1, <1>8, <2>4, <2>7 DEF m
  <2>10. /\ call'.fd \in Fds /\ call'.ino = file_table'[call'.fd].ino /\ file_table'[call'.fd].in_use
        /\ \A j \in Inos : j # call'.ino => Apart(inode, inodes[j])'
    BY <1>1, <1>5, <2>2, <2>6
  <2>11. QED
    BY <2>1, <2>8, <2>9, <2>10 DEF WriteInv
<1>16. KeptInv'
  <2>1. NewSize \in Nat /\ NewSize <= n * BLOCK_SIZE
    BY <1>5, <1>6 DEF NewSize
  <2>2. ASSUME NEW k \in 1 .. NewSize PROVE Unit(inode', k, data) = Unit(inode, k, data)
    <3>1. k \in Nat \ {0} /\ k <= n * BLOCK_SIZE
      BY <1>5, <2>1
    <3>2. \A x \in 1 .. n : inode'.blocks[x] = inode.blocks[x]
      BY <1>7, <1>8
    <3> DEFINE m0 == inode
               n0 == inode'
               d0 == data
    <3>3. /\ m0 \in Nodes /\ n0 \in Nodes /\ k <= Len(m0.blocks) * BLOCK_SIZE
          /\ \A x \in 1 .. Len(m0.blocks) : n0.blocks[x] = m0.blocks[x]
      BY <1>5, <1>8, <3>1, <3>2
    <3> HIDE DEF m0, n0, d0
    <3>4. Unit(n0, k, d0) = Unit(m0, k, d0)
      BY <3>1, <3>3, UnitsOfPrefix
    <3>5. QED
      BY <3>4 DEF m0, n0, d0
  <2>3. \A k \in 1 .. NewSize :
            Unit(inode, k, data) =
                    IF k \in file_table[call.fd].offset + 1 .. At
                    THEN call.buf[k - file_table[call.fd].offset] ELSE content[call.ino][k]
    BY <1>2 DEF SfsInv, KeptInv
  <2>4. \A k \in 1 .. NewSize :
            Unit(inode', k, data) =
                    IF k \in file_table[call.fd].offset + 1 .. At
                    THEN call.buf[k - file_table[call.fd].offset] ELSE content[call.ino][k]
    BY <2>2, <2>3
  <2>5. content[call.ino] = [k \in 1 .. inode.size |-> content[call.ino][k]]
    BY <1>2 DEF SfsInv, KeptInv
  <2>6. \A i \in Inos : i # ROOT_INO /\ i # call.ino =>
          content[i] = Image(inodes[i], inodes[i].size, data)
    BY <1>2 DEF SfsInv, KeptInv
  <2>7. /\ content'[call'.ino] = [k \in 1 .. inode'.size |-> content'[call'.ino][k]]
        /\ \A i \in Inos : i # ROOT_INO /\ i # call'.ino =>
              content'[i] = Image(inodes'[i], inodes'[i].size, data')
    BY <1>1, <1>8, <2>5, <2>6
  <2>8. \A k \in 1 .. NewSize' :
            Unit(inode', k, data') =
                    IF k \in file_table'[call'.fd].offset + 1 .. At'
                    THEN call'.buf[k - file_table'[call'.fd].offset] ELSE content'[call'.ino][k]
    BY <1>1, <1>9, <2>4
  <2>9. QED
    BY <1>2, <2>7, <2>8 DEF KeptInv
<1>17. LeakInv'
  <2>1. InodeBlocks' = InodeBlocks /\ Range0(inode'.blocks) = Range0(inode.blocks) \cup {b}
    BY <1>1, <1>7, <1>8 DEF InodeBlocks
  <2>2. pc # "cr_block" /\ pc' # "cr_block"
    BY <1>1
  <2>3. ListedIn(Root, data)' = ListedIn(Root, data)
    BY <1>1, ListedFrame
  <2>4. QED
    BY <1>1, <1>2, <1>3, <2>1, <2>2, <2>3 DEF SfsInv, LeakInv
<1>18. QED
  BY <1>12, <1>13, <1>14, <1>15, <1>16, <1>17 DEF SfsInv

\* A block of the file is written: as much of the buffer as fits.
LEMMA WriteBlockKeeps == ASSUME SfsInv, WriteBlock PROVE SfsInv'
<1>0. PICK a, t, b, p, buf, n0 : /\ a = At /\ t = ToCopy /\ b = inode.blocks[BlockIdx + 1]
                                 /\ p = file_table[call.fd].offset /\ buf = call.buf /\ n0 = call.n
  OBVIOUS
<1>d. PICK off, q : off = a % BLOCK_SIZE /\ q = a \div BLOCK_SIZE
  OBVIOUS
<1>1. /\ pc = "wr_block" /\ pc' = "wr_loop"
      /\ data' = [data EXCEPT ![b] =
                    [o \in Offsets |-> IF o \in off .. off + t - 1
                                       THEN buf[n0 + 1 + o - off] ELSE data[b][o]]]
      /\ call' = [call EXCEPT !.n = n0 + t]
      /\ UNCHANGED <<magic, ibm, bbm, inodes, mounted, file_table, inode, content, created, crashes>>
  BY <1>0, <1>d DEF WriteBlock, ghost
<1>2. /\ pc \in WriteLabels /\ pc' \in WriteLabels
      /\ pc \notin Settling \cup CreateLabels /\ pc' \notin Settling \cup CreateLabels
  BY <1>1 DEF Settling, FormatLabels, CreateLabels, WriteLabels
<1>3. /\ Ready /\ Ready' /\ magic /\ ROOT_INO \in ibm /\ ROOT_INO \in Inos /\ Root = inodes[ROOT_INO]
      /\ Root \in Nodes
  BY <1>1, <1>2, RootFacts DEF Ready, Settling
<1>4. /\ call.fd \in Fds /\ p \in Nat /\ call.ino \in Inos /\ call.ino # ROOT_INO
      /\ p <= inode.size /\ a = p + n0
      /\ n0 \in Nat /\ a \in Nat /\ inode \in Nodes /\ inode.blocks \in Seq(Blocks)
      /\ inode.size \in Nat /\ inode.size <= Len(inode.blocks) * BLOCK_SIZE
      /\ Len(inode.blocks) \in Nat /\ Len(inode.blocks) * BLOCK_SIZE \in Nat
      /\ inode.size = inodes[call.ino].size /\ inodes[call.ino] \in Nodes
      /\ buf \in Seq(Values) /\ Len(buf) \in Nat
  BY <1>0, <1>2, WriteFacts
<1>5. /\ a <= Len(inode.blocks) * BLOCK_SIZE /\ GoodBlocks(inode) /\ n0 < Len(buf) /\ q < Len(inode.blocks)
      /\ \A j \in Inos : j # call.ino => Apart(inode, inodes[j])
  BY <1>0, <1>d, <1>1, <1>2 DEF SfsInv, WriteInv, BlockIdx
<1>6. q \in Nat /\ off \in Nat /\ off < BLOCK_SIZE /\ off \in Offsets /\ a = BLOCK_SIZE * q + off
  <2>1. a \in Nat
    BY <1>4
  <2>2. q \in Nat /\ off \in Offsets /\ a = BLOCK_SIZE * q + off
    BY <1>d, <2>1, PlaceParts
  <2>3. off \in Nat /\ off < BLOCK_SIZE
    BY <2>2, SfsAssumption DEF Offsets
  <2>4. QED
    BY <2>2, <2>3
<1>7. t \in Nat /\ t >= 1 /\ off + t <= BLOCK_SIZE /\ n0 + t <= Len(buf)
  <2>1. t = Min({BLOCK_SIZE - off, Len(buf) - n0})
    BY <1>0, <1>d DEF ToCopy
  <2>2. BLOCK_SIZE - off \in Int /\ Len(buf) - n0 \in Int
    BY <1>4, <1>6, SfsAssumption
  <2>3. t = IF BLOCK_SIZE - off <= Len(buf) - n0 THEN BLOCK_SIZE - off ELSE Len(buf) - n0
    BY <2>1, <2>2, MinOfTwo
  <2>4. /\ off \in Nat /\ off < BLOCK_SIZE /\ n0 \in Nat /\ Len(buf) \in Nat /\ n0 < Len(buf)
        /\ BLOCK_SIZE \in Nat
    BY <1>4, <1>5, <1>6, SfsAssumption
  <2>5. QED
    BY <2>3, <2>4
<1>8. call' \in CallRecords /\ call'.n = n0 + t /\ call'.fd = call.fd /\ call'.ino = call.ino /\ call'.buf = buf
  <2>1. call \in CallRecords /\ n0 + t \in Nat
    BY <1>4, <1>7 DEF SfsInv, Shape
  <2>2. QED
    BY <1>0, <1>1, <2>1 DEF CallRecords
<1>9. At' = a + t
  <2>1. At' = file_table'[call'.fd].offset + call'.n
    BY DEF At
  <2>2. At' = p + (n0 + t)
    BY <1>0, <1>1, <1>8, <2>1
  <2>3. QED
    BY <1>4, <1>7, <2>2
<1>10. a + t <= Len(inode.blocks) * BLOCK_SIZE
  <2> DEFINE n == Len(inode.blocks)
  <2>1. n \in Nat /\ q < n
    BY <1>4, <1>5
  <2> HIDE DEF n
  <2>2. BLOCK_SIZE * q + BLOCK_SIZE <= BLOCK_SIZE * n
    BY <1>6, <2>1, BlocksBetween
  <2>3. BLOCK_SIZE * n = n * BLOCK_SIZE /\ BLOCK_SIZE * n \in Nat /\ BLOCK_SIZE * q \in Nat
    BY <1>6, <2>1, SfsAssumption
  <2>4. a + t <= n * BLOCK_SIZE
    BY <1>6, <1>7, <2>2, <2>3, SfsAssumption
  <2>5. QED
    BY <2>4 DEF n
<1>11. /\ q + 1 \in 1 .. Len(inode.blocks) /\ b = inode.blocks[q + 1] /\ b \in Blocks
       /\ \A x \in 1 .. Len(inode.blocks) : inode.blocks[x] \in Blocks
       /\ \A x, y \in 1 .. Len(inode.blocks) : inode.blocks[x] = inode.blocks[y] => x = y
  <2>1. q + 1 \in 1 .. Len(inode.blocks)
    BY <1>4, <1>5, <1>6
  <2>2. b = inode.blocks[q + 1]
    BY <1>0, <1>d DEF BlockIdx
  <2>3. QED
    BY <1>4, <1>5, <2>1, <2>2 DEF GoodBlocks
<1>12. /\ data' = [c \in Blocks |-> [o \in Offsets |-> data'[c][o]]]
       /\ \A c \in Blocks : c # b => data'[c] = data[c]
       /\ \A o \in Offsets : data'[b][o] = IF o \in off .. off + t - 1
                                           THEN buf[n0 + 1 + o - off] ELSE data[b][o]
  <2>1. data = [c \in Blocks |-> [o \in Offsets |-> data[c][o]]]
    BY DEF SfsInv, Shape
  <2>2. QED
    BY <1>1, <1>11, <2>1
<1>13. \A j \in Inos : j # call.ino => \A y \in 1 .. Len(inodes[j].blocks) : inodes[j].blocks[y] # b
  BY <1>5, <1>11 DEF Apart
<1>14. Root' = Root /\ Entries(Root, data)' = Entries(Root, data) /\ ListedIn(Root, data)' = ListedIn(Root, data)
  <2>1. Root' = Root
    BY <1>1 DEF Root
  <2>2. \A y \in 1 .. Len(Root.blocks) : Root.blocks[y] \in Blocks /\ Root.blocks[y] # b
    BY <1>3, <1>4, <1>13 DEF Nodes
  <2>3. \A y \in 1 .. Len(Root.blocks) : data'[Root.blocks[y]] = data[Root.blocks[y]]
    BY <1>12, <2>2
  <2>4. Entries(Root, data)' = Entries(Root, data)
    BY <2>1, <2>3 DEF Entries
  <2>5. QED
    BY <2>1, <2>4 DEF ListedIn
<1>15. Shape'
  BY <1>1, <1>8, <1>12 DEF SfsInv, Shape, Labels, WriteLabels
<1>16. FormatInv' /\ BlocksInv'
  BY <1>1, <1>2, <1>3, FormatFrame, BlocksFrame DEF SfsInv
<1>17. DirInv'
  <2>1. pc # "fmt_root" /\ pc' # "fmt_root"
    BY <1>1
  <2>2. QED
    BY <1>1, <1>3, <1>14, <2>1 DEF SfsInv, DirInv
<1>18. FilesInv'
  BY <1>1, <1>14 DEF SfsInv, FilesInv
<1>19. CreateInv' /\ IdleInv'
  BY <1>2 DEF CreateInv, IdleInv
<1>20. WriteInv'
  <2>1. /\ call'.fd \in Fds /\ call'.ino = file_table'[call'.fd].ino /\ file_table'[call'.fd].in_use
        /\ inode'.ino = call'.ino /\ inode'.type = "file" /\ call'.n <= Len(call'.buf)
        /\ inode'.size = inodes'[call'.ino].size
        /\ GoodBlocks(inode)' /\ \A j \in Inos : j # call'.ino => Apart(inode, inodes[j])'
    BY <1>1, <1>2, <1>7, <1>8 DEF SfsInv, WriteInv, GoodBlocks, Apart
  <2>2. /\ Len(inode'.blocks) >= Len(inodes'[call'.ino].blocks)
        /\ \A x \in 1 .. Len(inodes'[call'.ino].blocks) : inode'.blocks[x] = inodes'[call'.ino].blocks[x]
    BY <1>1, <1>2, <1>8 DEF SfsInv, WriteInv
  <2>3. At' <= Len(inode'.blocks) * BLOCK_SIZE /\ pc' # "wr_block"
    BY <1>1, <1>9, <1>10
  <2>4. QED
    BY <2>1, <2>2, <2>3 DEF WriteInv
<1>21. KeptInv'
  <2>1. \A i \in Inos : i # ROOT_INO /\ i # call.ino =>
          content[i] = Image(inodes[i], inodes[i].size, data)
    BY <1>2 DEF SfsInv, KeptInv
  <2>2. \A i \in Inos : i # ROOT_INO /\ i # call.ino =>
          content'[i] = Image(inodes'[i], inodes'[i].size, data')
    <3> TAKE i \in Inos
    <3> HAVE i # ROOT_INO /\ i # call.ino
    <3>1. \A x \in 1 .. Len(inodes[i].blocks) : inodes[i].blocks[x] # b
      BY <1>13
    <3>2. Image(inodes[i], inodes[i].size, data') = Image(inodes[i], inodes[i].size, data)
      BY <1>12, <3>1, ImageElsewhere
    <3>3. QED
      BY <1>1, <2>1, <3>2
  <2>3. content[call.ino] = [k \in 1 .. inode.size |-> content[call.ino][k]]
    BY <1>2 DEF SfsInv, KeptInv
  <2>4. content'[call'.ino] = [k \in 1 .. inode'.size |-> content'[call'.ino][k]]
    BY <1>1, <1>8, <2>3
  <2>5. \A k \in 1 .. NewSize :
            Unit(inode, k, data) = IF k \in p + 1 .. a THEN buf[k - p] ELSE content[call.ino][k]
    BY <1>0, <1>2 DEF SfsInv, KeptInv
  <2>6. NewSize = (IF a > inode.size THEN a ELSE inode.size)
        /\ NewSize' = (IF a + t > inode.size THEN a + t ELSE inode.size)
    BY <1>0, <1>1, <1>9 DEF NewSize
  <2>7. ASSUME NEW k \in 1 .. NewSize'
        PROVE  Unit(inode, k, data') = IF k \in a + 1 .. a + t THEN buf[k - p] ELSE Unit(inode, k, data)
    <3>1. k \in Nat \ {0} /\ k <= Len(inode.blocks) * BLOCK_SIZE
      BY <1>4, <1>7, <1>10, <2>6
    <3> DEFINE src == [y \in Nat |-> buf[y - p]]
               node == inode
               d == data
               e == data'
    <3>2. ASSUME NEW x \in 1 .. Len(node.blocks), NEW o \in Offsets
          PROVE  e[node.blocks[x]][o] =
                  IF x = q + 1 /\ o \in off .. off + t - 1
                  THEN src[a + (o - off) + 1] ELSE d[node.blocks[x]][o]
      <4>1. CASE x = q + 1
        <5>1. node.blocks[x] = b
          BY <1>11, <4>1
        <5>2. e[b][o] = IF o \in off .. off + t - 1 THEN buf[n0 + 1 + o - off] ELSE d[b][o]
          BY <1>12
        <5>3. o \in Int
          BY SfsAssumption DEF Offsets
        <5>4. ASSUME o \in off .. off + t - 1
              PROVE  buf[n0 + 1 + o - off] = src[a + (o - off) + 1]
          <6>1. a + (o - off) + 1 \in Nat /\ (a + (o - off) + 1) - p = n0 + 1 + o - off
            BY <1>4, <1>6, <1>7, <5>3, <5>4
          <6> DEFINE z == a + (o - off) + 1
          <6>2. z \in Nat /\ z - p = n0 + 1 + o - off
            BY <6>1
          <6> HIDE DEF z
          <6>3. src[z] = buf[z - p]
            BY <6>2
          <6>4. QED
            BY <6>2, <6>3 DEF z
        <5> HIDE DEF src, d, e, node
        <5>5. QED
          BY <4>1, <5>1, <5>2, <5>4
      <4>2. CASE x # q + 1
        <5>1. node.blocks[x] # b /\ node.blocks[x] \in Blocks
          BY <1>11, <4>2
        <5>2. e[node.blocks[x]] = d[node.blocks[x]]
          BY <1>12, <5>1
        <5>3. QED
          BY <4>2, <5>2
      <4>3. QED
        BY <4>1, <4>2
    <3>3. node \in Nodes /\ k <= Len(node.blocks) * BLOCK_SIZE
      BY <1>4, <3>1
    <3>4. (a % BLOCK_SIZE) + t <= BLOCK_SIZE
      BY <1>7, <1>d
    <3>5. UnitsInto(node, a, t, d, e, src)
      BY <1>d, <3>2 DEF UnitsInto
    <3>6. src[k] = buf[k - p]
      BY <3>1
    <3> HIDE DEF src, node, d, e
    <3>7. Unit(node, k, e) = IF k \in a + 1 .. a + t THEN src[k] ELSE Unit(node, k, d)
      <4>1. a \in Nat /\ t \in Nat /\ k \in Nat \ {0}
        BY <1>4, <1>7, <3>1
      <4>2. QED
        BY <3>3, <3>4, <3>5, <4>1, UnitsCopied
    <3>8. QED
      BY <3>6, <3>7 DEF node, d, e
  <2>8. ASSUME NEW k \in 1 .. NewSize'
        PROVE  Unit(inode, k, data') = IF k \in p + 1 .. a + t THEN buf[k - p] ELSE content[call.ino][k]
    <3>1. k \in Nat
      BY <1>4, <1>7, <2>6
    <3>2. CASE k \in a + 1 .. a + t
      <4>1. k \in p + 1 .. a + t
        BY <1>4, <1>7, <3>1, <3>2
      <4>2. QED
        BY <2>7, <3>2, <4>1
    <3>3. CASE k \notin a + 1 .. a + t
      <4>1. k \in 1 .. NewSize
        BY <1>4, <1>7, <2>6, <3>1, <3>3
      <4>2. k \in p + 1 .. a + t <=> k \in p + 1 .. a
        BY <1>4, <1>7, <3>1, <3>3
      <4>3. QED
        BY <2>5, <2>7, <3>3, <4>1, <4>2
    <3>4. QED
      BY <3>2, <3>3
  <2>9. \A k \in 1 .. NewSize' :
            Unit(inode', k, data') =
                    IF k \in file_table'[call'.fd].offset + 1 .. At'
                    THEN call'.buf[k - file_table'[call'.fd].offset] ELSE content'[call'.ino][k]
    BY <1>0, <1>1, <1>8, <1>9, <2>8
  <2>10. QED
    BY <1>2, <1>8, <2>2, <2>4, <2>9 DEF KeptInv
<1>22. LeakInv'
  <2>1. InodeBlocks' = InodeBlocks /\ Range0(inode.blocks)' = Range0(inode.blocks)
    BY <1>1 DEF InodeBlocks, Range0
  <2>2. pc # "cr_block" /\ pc' # "cr_block"
    BY <1>1
  <2>3. QED
    BY <1>1, <1>2, <1>3, <1>14, <2>1, <2>2 DEF SfsInv, LeakInv
<1>23. QED
  BY <1>15, <1>16, <1>17, <1>18, <1>19, <1>20, <1>21, <1>22 DEF SfsInv

\* The blocks hold what the completed call leaves in the file.
LEMMA WrittenImage ==
    ASSUME SfsInv, pc = "wr_inode"
    PROVE  Overwritten(content[call.ino], SubSeq(call.buf, 1, call.n), file_table[call.fd].offset)
               = Image(inode, NewSize, data)
<1>0. PICK a, p, buf, n, c, size, new : /\ a = At /\ p = file_table[call.fd].offset /\ buf = call.buf
                                        /\ n = call.n /\ c = content[call.ino]
                                        /\ size = inode.size /\ new = NewSize
  OBVIOUS
<1>1. pc \in WriteLabels
  BY DEF WriteLabels
<1>2. /\ p \in Nat /\ p <= size /\ a = p + n /\ n \in Nat /\ a \in Nat /\ size \in Nat
      /\ buf \in Seq(Values) /\ Len(buf) \in Nat
  BY <1>0, <1>1, WriteFacts
<1>3. n <= Len(buf)
  BY <1>0, <1>1 DEF SfsInv, WriteInv
<1>4. /\ c = [k \in 1 .. size |-> c[k]]
      /\ \A k \in 1 .. new : Unit(inode, k, data) = IF k \in p + 1 .. a THEN buf[k - p] ELSE c[k]
  BY <1>0, <1>1 DEF SfsInv, KeptInv
<1>5. new = IF a > size THEN a ELSE size
  BY <1>0 DEF NewSize
<1>6. Len(c) = size
  BY <1>2, <1>4, FunctionIsSeq
<1> DEFINE s == SubSeq(buf, 1, n)
<1>7. Len(s) = n /\ \A j \in 1 .. n : s[j] = buf[j]
  BY <1>2, <1>3
<1> HIDE DEF s
<1>8. Max({Len(c), p + Len(s)}) = new
  <2>1. Max({size, a}) = IF size >= a THEN size ELSE a
    BY <1>2, MaxOfTwo
  <2>2. QED
    BY <1>2, <1>5, <1>6, <1>7, <2>1
<1>9. Overwritten(c, s, p) = [k \in 1 .. new |-> IF k \in p + 1 .. p + Len(s) THEN s[k - p] ELSE c[k]]
  BY <1>8 DEF Overwritten
<1>10. \A k \in 1 .. new : (IF k \in p + 1 .. p + Len(s) THEN s[k - p] ELSE c[k]) = Unit(inode, k, data)
  <2> TAKE k \in 1 .. new
  <2>1. k \in Nat
    BY <1>2, <1>5
  <2>2. CASE k \in p + 1 .. a
    <3>1. k - p \in 1 .. n /\ k \in p + 1 .. p + Len(s)
      BY <1>2, <1>7, <2>1, <2>2
    <3>2. QED
      BY <1>4, <1>7, <2>2, <3>1
  <2>3. CASE k \notin p + 1 .. a
    <3>1. k \notin p + 1 .. p + Len(s)
      BY <1>2, <1>7, <2>3
    <3>2. QED
      BY <1>4, <2>3, <3>1
  <2>4. QED
    BY <2>2, <2>3
<1>11. Overwritten(c, s, p) = Image(inode, new, data)
  BY <1>9, <1>10 DEF Image
<1>12. QED
  BY <1>0, <1>11 DEF s

\* The inode is written back: the file has its blocks, and its new content.
LEMMA WriteInodeKeeps == ASSUME SfsInv, WriteInode PROVE SfsInv'
<1>0. PICK a, i, p, new, fd : /\ a = At /\ i = call.ino /\ p = file_table[call.fd].offset
                              /\ new = NewSize /\ fd = call.fd
  OBVIOUS
<1>a. PICK node : node = [inode EXCEPT !.size = new]
  OBVIOUS
<1>1. pc = "wr_inode" /\ pc' = "idle" /\ pc \in WriteLabels
  BY DEF WriteInode, Return, WriteLabels
<1>2. inode.ino = i /\ file_table[fd].ino = i
  BY <1>0, <1>1 DEF SfsInv, WriteInv
<1>3. /\ inodes' = [inodes EXCEPT ![i] = node]
      /\ file_table' = [file_table EXCEPT ![fd].offset = a]
      /\ call' = NoCall /\ inode' = ZeroInode
      /\ UNCHANGED <<magic, ibm, bbm, data, mounted, created, crashes>>
  BY <1>0, <1>a, <1>2 DEF WriteInode, Return
<1>4. content' = [content EXCEPT ![i] = Image(inode, new, data)]
  <2>1. content' = [content EXCEPT ![i] = Overwritten(content[i], SubSeq(call.buf, 1, call.n), p)]
    BY <1>0, <1>2 DEF WriteInode
  <2>2. QED
    BY <1>0, <1>1, <2>1, WrittenImage
<1>5. /\ pc \notin Settling \cup CreateLabels /\ pc' \notin Settling \cup CreateLabels \cup WriteLabels
  BY <1>1 DEF Settling, FormatLabels, CreateLabels, WriteLabels
<1>6. /\ Ready /\ Ready' /\ magic /\ ROOT_INO \in ibm /\ ROOT_INO \in Inos /\ Root = inodes[ROOT_INO]
      /\ Root \in Nodes
  BY <1>3, <1>5, RootFacts DEF Ready, Settling
<1>7. /\ fd \in Fds /\ p \in Nat /\ i \in Inos /\ i # ROOT_INO /\ i \in ListedIn(Root, data)
      /\ p <= inode.size /\ a = p + call.n /\ call.n \in Nat /\ a \in Nat
      /\ inode \in Nodes /\ inode.size \in Nat /\ inode.size <= Len(inode.blocks) * BLOCK_SIZE
      /\ Len(inode.blocks) \in Nat /\ Len(inode.blocks) * BLOCK_SIZE \in Nat
      /\ inode.size = inodes[i].size /\ inodes[i] \in Nodes
  BY <1>0, <1>1, WriteFacts
<1>8. /\ a <= Len(inode.blocks) * BLOCK_SIZE /\ GoodBlocks(inode) /\ inode.type = "file"
      /\ \A j \in Inos : j # i => Apart(inode, inodes[j])
      /\ Len(inode.blocks) >= Len(inodes[i].blocks)
      /\ \A x \in 1 .. Len(inodes[i].blocks) : inode.blocks[x] = inodes[i].blocks[x]
  BY <1>0, <1>1 DEF SfsInv, WriteInv
<1>9. /\ new \in Nat /\ a <= new /\ inode.size <= new /\ new <= Len(inode.blocks) * BLOCK_SIZE
  <2>1. new = IF a > inode.size THEN a ELSE inode.size
    BY <1>0 DEF NewSize
  <2>2. QED
    BY <1>7, <1>8, <2>1
<1>10. /\ node \in Nodes /\ node.blocks = inode.blocks /\ node.size = new /\ node.type = "file"
       /\ node.ino = i
  BY <1>a, <1>2, <1>7, <1>8, <1>9 DEF Nodes
<1>11. inodes \in [Inos -> Nodes] /\ file_table \in [Fds -> [ino : {0} \cup Inos, offset : Nat, in_use : BOOLEAN]]
       /\ content = [j \in Inos |-> content[j]]
  BY DEF SfsInv, Shape
<1>12. /\ inodes' \in [Inos -> Nodes] /\ inodes'[i] = node /\ \A j \in Inos : j # i => inodes'[j] = inodes[j]
  BY <1>3, <1>7, <1>10, <1>11
<1>13. /\ file_table' \in [Fds -> [ino : {0} \cup Inos, offset : Nat, in_use : BOOLEAN]]
       /\ file_table'[fd].offset = a
       /\ \A f \in Fds : file_table'[f].ino = file_table[f].ino /\ file_table'[f].in_use = file_table[f].in_use
       /\ \A f \in Fds : f # fd => file_table'[f] = file_table[f]
  BY <1>3, <1>7, <1>11
<1>14. /\ content' = [j \in Inos |-> content'[j]] /\ content'[i] = Image(inode, new, data)
       /\ \A j \in Inos : j # i => content'[j] = content[j]
  BY <1>4, <1>7, <1>11
<1>15. Root' = Root /\ Entries(Root, data)' = Entries(Root, data) /\ ListedIn(Root, data)' = ListedIn(Root, data)
  BY <1>3, <1>6, <1>7, <1>12 DEF Root, Entries, ListedIn
<1>16. Shape'
  <2>1. NoCall \in CallRecords /\ ZeroInode \in Nodes
    BY SfsAssumption DEF NoCall, CallRecords, Blocks, ZeroInode, Nodes
  <2>2. QED
    BY <1>1, <1>3, <1>12, <1>13, <1>14, <2>1 DEF SfsInv, Shape, Labels
<1>17. FormatInv'
  BY <1>3, <1>5, <1>6, FormatFrame
<1>18. BlocksInv'
  <2>1. \A j \in Inos : GoodBlocks(inodes[j])'
    BY <1>3, <1>8, <1>10, <1>12 DEF SfsInv, BlocksInv, GoodBlocks
  <2>2. \A j \in Inos : j # i => Apart(node, inodes[j]) /\ Apart(inodes[j], node)
    BY <1>8, <1>10 DEF Apart
  <2>3. \A j, k \in Inos : j # k => Apart(inodes'[j], inodes'[k])
    <3> TAKE j, k \in Inos
    <3> HAVE j # k
    <3>1. CASE j = i
      BY <1>12, <2>2, <3>1
    <3>2. CASE k = i
      BY <1>12, <2>2, <3>2
    <3>3. CASE j # i /\ k # i
      BY <1>12, <3>3 DEF SfsInv, BlocksInv
    <3>4. QED
      BY <3>1, <3>2, <3>3
  <2>4. QED
    BY <2>1, <2>3 DEF BlocksInv, Apart
<1>19. DirInv'
  <2>1. pc # "fmt_root" /\ pc' # "fmt_root"
    BY <1>1
  <2>2. \A j \in Inos : inodes[j].ino = j => inodes'[j].ino = j
    BY <1>10, <1>12
  <2>3. QED
    BY <1>3, <1>6, <1>15, <2>1, <2>2 DEF SfsInv, DirInv
<1>20. FilesInv'
  <2>1. \A j \in Inos : j # ROOT_INO =>
           inodes'[j].type = "file" /\ inodes'[j].size <= Len(inodes'[j].blocks) * BLOCK_SIZE
    BY <1>9, <1>10, <1>12 DEF SfsInv, FilesInv
  <2>2. \A j \in Inos : j # ROOT_INO /\ j \notin ListedIn(Root, data) =>
           inodes'[j].size = 0 /\ inodes'[j].blocks = << >>
    BY <1>7, <1>12 DEF SfsInv, FilesInv
  <2>3. ASSUME NEW f \in Fds, file_table'[f].in_use
        PROVE  /\ file_table'[f].ino \in ListedIn(Root, data) \ {ROOT_INO}
               /\ file_table'[f].offset <= inodes'[file_table'[f].ino].size
    <3>1. /\ file_table[f].ino \in ListedIn(Root, data) \ {ROOT_INO}
          /\ file_table[f].offset <= inodes[file_table[f].ino].size
      BY <1>13, <2>3 DEF SfsInv, FilesInv
    <3>2. file_table[f].ino \in Inos /\ file_table[f].offset \in Nat
      BY <1>5, <1>11, <3>1, RootFacts
    <3>3. CASE f = fd
      BY <1>2, <1>9, <1>10, <1>12, <1>13, <3>1, <3>3
    <3>4. CASE f # fd /\ file_table[f].ino = i
      <4>1. file_table'[f] = file_table[f] /\ inodes'[file_table'[f].ino].size = new
        BY <1>10, <1>12, <1>13, <3>4
      <4>2. file_table[f].offset <= inode.size
        BY <1>7, <3>1, <3>4
      <4>3. file_table[f].offset <= new
        BY <1>7, <1>9, <3>2, <4>2
      <4>4. QED
        BY <3>1, <4>1, <4>3
    <3>5. CASE f # fd /\ file_table[f].ino # i
      BY <1>12, <1>13, <3>1, <3>2, <3>5
    <3>6. QED
      BY <3>3, <3>4, <3>5
  <2>4. \A c \in created : c.ino \in ListedIn(Root, data) \ {ROOT_INO}
    BY DEF SfsInv, FilesInv
  <2>5. QED
    BY <1>3, <1>15, <2>1, <2>2, <2>3, <2>4 DEF FilesInv
<1>21. CreateInv' /\ WriteInv' /\ IdleInv'
  BY <1>3, <1>5 DEF CreateInv, WriteInv, IdleInv
<1>22. KeptInv'
  <2>1. \A j \in Inos : j # ROOT_INO /\ j # i => content[j] = Image(inodes[j], inodes[j].size, data)
    BY <1>0, <1>1 DEF SfsInv, KeptInv
  <2>2. Image(node, new, data) = Image(inode, new, data)
    BY <1>10 DEF Image, Unit
  <2>3. \A j \in Inos : j # ROOT_INO => content'[j] = Image(inodes'[j], inodes'[j].size, data')
    BY <1>3, <1>10, <1>12, <1>14, <2>1, <2>2
  <2>4. QED
    BY <1>5, <2>3 DEF KeptInv
<1>23. LeakInv'
  <2>1. Range0(inodes[i].blocks) \subseteq Range0(inode.blocks)
    <3>1. Len(inodes[i].blocks) \in Nat
      BY <1>7 DEF Nodes
    <3>2. \A x \in 1 .. Len(inodes[i].blocks) : x \in 1 .. Len(inode.blocks)
      BY <1>7, <1>8, <3>1
    <3>3. QED
      BY <1>8, <3>2 DEF Range0
  <2>2. InodeBlocks' = InodeBlocks \cup Range0(inode.blocks)
    <3>1. \A j \in Inos : Range0(inodes'[j].blocks) = IF j = i THEN Range0(inode.blocks) ELSE Range0(inodes[j].blocks)
      BY <1>10, <1>12
    <3>2. ASSUME NEW y \in InodeBlocks' PROVE y \in InodeBlocks \cup Range0(inode.blocks)
      BY <3>1, <3>2 DEF InodeBlocks
    <3>3. ASSUME NEW y \in InodeBlocks \cup Range0(inode.blocks) PROVE y \in InodeBlocks'
      <4>1. \E j \in Inos : y \in Range0(inodes'[j].blocks)
        BY <1>7, <2>1, <3>1, <3>3 DEF InodeBlocks
      <4>2. QED
        BY <4>1 DEF InodeBlocks
    <3>4. QED
      BY <3>2, <3>3
  <2>3. Range0(inode'.blocks) = {}
    BY <1>3 DEF Range0, ZeroInode
  <2>4. pc # "cr_block" /\ pc' # "cr_block"
    BY <1>1
  <2>5. ASSUME crashes' = 0
        PROVE  /\ ibm \cup {ROOT_INO} = {0} \cup ListedIn(Root, data)
               /\ bbm = (0 .. DATA_START - 1) \cup InodeBlocks \cup Range0(inode.blocks)
    BY <1>3, <1>5, <1>6, <2>4, <2>5 DEF SfsInv, LeakInv
  <2>6. QED
    BY <1>3, <1>5, <1>15, <2>2, <2>3, <2>4, <2>5 DEF LeakInv
<1>24. QED
  BY <1>16, <1>17, <1>18, <1>19, <1>20, <1>21, <1>22, <1>23 DEF SfsInv

-----------------------------------------------------------------------------
(* Power failure.                                                            *)

\* Nothing that the disk holds is lost; of the file being written, what a read
\* would return is its content from now on.
LEMMA CrashKeeps == ASSUME SfsInv, Settled, Crash PROVE SfsInv'
<1>0. PICK i : i = call.ino
  OBVIOUS
<1>1. /\ pc \in CrashAt /\ pc' = "boot" /\ mounted' = FALSE /\ crashes' = crashes + 1
      /\ file_table' = [f \in Fds |-> ClosedFile] /\ call' = NoCall /\ inode' = ZeroInode
      /\ content' = IF pc \in WriteLabels
                    THEN [content EXCEPT ![i] = sfs_read_file(inodes[i], inodes[i].size, 0)]
                    ELSE content
      /\ UNCHANGED <<magic, ibm, bbm, inodes, data, created>>
  BY <1>0 DEF Crash, disk
<1>2. /\ pc \notin FormatLabels /\ pc' \notin FormatLabels \cup CreateLabels \cup WriteLabels
      /\ pc' \in Settling /\ pc # "fmt_root"
  BY <1>1 DEF Settled, FormatLabels, CreateLabels, WriteLabels, Settling
<1>3. crashes \in Nat /\ crashes' \in Nat /\ crashes' # 0
  BY <1>1 DEF SfsInv, Shape
<1>4. \A f \in Fds : ~file_table'[f].in_use
  BY <1>1 DEF ClosedFile
<1>5. content' = [j \in Inos |-> content'[j]]
  BY <1>1 DEF SfsInv, Shape
<1>6. Shape'
  <2>1. NoCall \in CallRecords /\ ZeroInode \in Nodes
    BY SfsAssumption DEF NoCall, CallRecords, Blocks, ZeroInode, Nodes
  <2>2. file_table' \in [Fds -> [ino : {0} \cup Inos, offset : Nat, in_use : BOOLEAN]]
    BY <1>1 DEF ClosedFile
  <2>3. QED
    BY <1>1, <1>3, <1>5, <2>1, <2>2 DEF SfsInv, Shape, Labels
<1>7. FormatInv'
  BY <1>1, <1>2, <1>4 DEF SfsInv, FormatInv, Blank, FormatLabels
<1>8. BlocksInv'
  BY <1>1, BlocksFrame DEF SfsInv
<1>9. DirInv'
  <2>1. Ready' => Ready
    BY <1>1, <1>2 DEF Ready
  <2>2. Ready => ROOT_INO \in ibm
    BY <1>2 DEF SfsInv, DirInv
  <2>3. QED
    BY <1>1, <2>1, <2>2, DirFrame DEF SfsInv
<1>10. FilesInv'
  <2>1. ListedIn(Root, data)' = ListedIn(Root, data)
    BY <1>1, ListedFrame
  <2>2. QED
    BY <1>1, <1>4, <2>1 DEF SfsInv, FilesInv
<1>11. CreateInv' /\ WriteInv' /\ IdleInv'
  BY <1>1, <1>2 DEF CreateInv, WriteInv, IdleInv
<1>12. KeptInv'
  <2>1. CASE pc \notin WriteLabels
    BY <1>1, <1>2, <2>1, KeptFrame DEF SfsInv
  <2>2. CASE pc \in WriteLabels
    <3>1. i \in Inos /\ i # ROOT_INO /\ inodes[i] \in Nodes
      BY <1>0, <2>2, WriteFacts
    <3>2. content'[i] = sfs_read_file(inodes[i], inodes[i].size, 0)
          /\ \A j \in Inos : j # i => content'[j] = content[j]
      BY <1>1, <2>2, <3>1 DEF SfsInv, Shape
    <3>3. content'[i] = Image(inodes[i], inodes[i].size, data)
      <4> DEFINE node == inodes[i]
                 size == node.size
                 r == sfs_read_file(node, size, 0)
                 n == IF 0 >= size THEN 0 ELSE IF size <= size - 0 THEN size ELSE size - 0
      <4>1. node \in Nodes /\ Holds(node) /\ size \in Nat
        BY <3>1 DEF SfsInv, FilesInv, Holds, Nodes
      <4> HIDE DEF node
      <4>2. r = [k \in 1 .. n |-> Unit(node, 0 + k, data)]
        BY <4>1, ReadUnits
      <4>3. n = size
        <5> HIDE DEF size
        <5>1. QED
          BY <4>1
      <4> HIDE DEF n
      <4>4. \A k \in 1 .. size : 0 + k = k
        OBVIOUS
      <4>5. r = [k \in 1 .. size |-> Unit(node, k, data)]
        BY <4>2, <4>3, <4>4
      <4>6. QED
        BY <3>2, <4>5 DEF Image, node
    <3>4. \A j \in Inos : j # ROOT_INO /\ j # i => content[j] = Image(inodes[j], inodes[j].size, data)
      BY <1>0, <2>2 DEF SfsInv, KeptInv
    <3>5. \A j \in Inos : j # ROOT_INO => content'[j] = Image(inodes'[j], inodes'[j].size, data')
      BY <1>1, <3>2, <3>3, <3>4
    <3>6. QED
      BY <1>2, <3>5 DEF KeptInv
  <2>3. QED
    BY <2>1, <2>2
<1>13. LeakInv'
  BY <1>3 DEF LeakInv
<1>14. QED
  BY <1>6, <1>7, <1>8, <1>9, <1>10, <1>11, <1>12, <1>13 DEF SfsInv

\* Steps that change nothing keep everything.
LEMMA StutterKeeps == ASSUME SfsInv, UNCHANGED vars PROVE SfsInv'
<1>1. UNCHANGED <<magic, ibm, bbm, inodes, data, mounted, file_table, pc, call, inode, content, created,
                  crashes>>
  BY DEF vars, disk, ghost
<1>2. Root' = Root /\ Ready' = Ready /\ Blank' = Blank /\ Entries(Root, data)' = Entries(Root, data)
      /\ ListedIn(Root, data)' = ListedIn(Root, data) /\ InodeBlocks' = InodeBlocks
      /\ At' = At /\ BlockIdx' = BlockIdx /\ NewSize' = NewSize /\ Grown' = Grown
  BY <1>1 DEF Root, Ready, Blank, Entries, ListedIn, InodeBlocks, At, BlockIdx, NewSize, Grown
<1>3. Shape' /\ FormatInv' /\ IdleInv'
  BY <1>1, <1>2 DEF SfsInv, Shape, FormatInv, IdleInv
<1>4. BlocksInv' /\ FilesInv'
  BY <1>1, BlocksFrame, FilesFrame DEF SfsInv
<1>5. DirInv' /\ LeakInv'
  BY <1>1, <1>2 DEF SfsInv, DirInv, LeakInv
<1>6. CreateInv'
  BY <1>1, <1>2 DEF SfsInv, CreateInv, Fresh
<1>7. WriteInv'
  BY <1>1, <1>2 DEF SfsInv, WriteInv, GoodBlocks, Apart
<1>8. KeptInv'
  BY <1>1, <1>2 DEF SfsInv, KeptInv
<1>9. QED
  BY <1>3, <1>4, <1>5, <1>6, <1>7, <1>8 DEF SfsInv

-----------------------------------------------------------------------------
(* The theorems.                                                             *)

\* The inductive invariant: in every reachable state the disk, the open files, the
\* call in progress and the history fit together, wherever power fails outside
\* sfs_format.
THEOREM SfsSound == ASSUME Settled PROVE Spec => []SfsInv
<1>1. Init => SfsInv
  BY InitSfs
<1>2. SfsInv /\ [Next]_vars => SfsInv'
  <2> SUFFICES ASSUME SfsInv, [Next]_vars PROVE SfsInv'
    OBVIOUS
  <2>1. CASE Boot \/ Mount
    BY <2>1, BootKeeps, MountKeeps
  <2>2. CASE Format
    BY <2>2, FormatSets, FormatAllocs, FormatDirectory, FormatRootInode, FormatRootBit DEF Format
  <2>3. CASE CreateInode \/ CreateInPlace \/ CreateGrow \/ CreateFail \/ CreateBlock \/ CreateParent
    BY <2>3, CreateInodeKeeps, CreateInPlaceKeeps, CreateGrowKeeps, CreateFailKeeps, CreateBlockKeeps,
       CreateParentKeeps
  <2>4. CASE WriteNext \/ WriteGrow \/ WriteStop \/ WriteBlock \/ WriteInode
    BY <2>4, WriteNextKeeps, WriteGrowKeeps, WriteStopKeeps, WriteBlockKeeps, WriteInodeKeeps
  <2>5. CASE Crash
    BY <2>5, CrashKeeps
  <2>6. CASE \E name \in Names : Create(name) \/ Open(name)
    BY <2>6, CreateKeeps, OpenKeeps
  <2>7. CASE \E fd \in Fds : Close(fd)
    BY <2>7, CloseKeeps
  <2>8. CASE \E fd \in Fds : \E count \in 1 .. MaxCount : Read(fd, count)
    <3>1. PICK fd \in Fds, count \in 1 .. MaxCount : Read(fd, count)
      BY <2>8
    <3>2. count \in Nat
      BY <3>1, SfsAssumption
    <3>3. QED
      BY <3>1, <3>2, ReadKeeps
  <2>9. CASE \E fd \in Fds : \E buf \in Bufs : Write(fd, buf)
    BY <2>9, WriteKeeps
  <2>10. CASE UNCHANGED vars
    BY <2>10, StutterKeeps
  <2>11. QED
    BY <2>1, <2>2, <2>3, <2>4, <2>5, <2>6, <2>7, <2>8, <2>9, <2>10 DEF Next, CallStep
<1>3. QED
  BY <1>1, <1>2, PTL DEF Spec

\* Whatever was interrupted, each entry of the directory names an inode that is
\* marked in use and has been written.
THEOREM EntriesAlwaysValid == ASSUME Settled PROVE Spec => []EntriesValid
<1>1. SfsInv => EntriesValid
  <2> SUFFICES ASSUME SfsInv PROVE EntriesValid
    OBVIOUS
  <2>1. TypeOK
    <3>1. \A i \in Inos : inodes[i] \in Nodes /\ Len(inodes[i].blocks) <= DIRECT
      BY DEF SfsInv, Shape, BlocksInv, GoodBlocks
    <3>2. \A i \in Inos : /\ inodes[i].ino \in {0} \cup Inos /\ inodes[i].size \in Nat
                          /\ Range0(inodes[i].blocks) \subseteq Blocks
      BY <3>1 DEF Nodes, Range0
    <3>3. QED
      BY <3>1, <3>2 DEF SfsInv, Shape, TypeOK
  <2>2. ASSUME Formatted, pc \notin FormatLabels, NEW i \in Listed
        PROVE  i \in ibm /\ inodes[i].ino = i
    <3>1. ROOT_INO \in Inos
      BY SfsAssumption DEF ROOT_INO, Inos
    <3>2. Root \in Nodes
      BY <3>1 DEF SfsInv, Shape, Root
    <3>3. magic
      BY <2>2, <3>1 DEF SfsInv, FormatInv, Blank, Formatted, ZeroInode
    <3>4. Ready /\ pc # "fmt_root"
      BY <2>2, <3>3 DEF Ready, FormatLabels
    <3>5. i \in ListedIn(Root, data)
      BY <2>2, <3>2, ListedByBlocks
    <3>6. QED
      BY <3>4, <3>5 DEF SfsInv, DirInv, ListedIn
  <2>3. QED
    BY <2>1, <2>2 DEF EntriesValid
<1>2. QED
  BY <1>1, SfsSound, PTL

\* No block is in two files, or twice in one, and every block in use is marked.
THEOREM BlocksAlwaysOwned == ASSUME Settled PROVE Spec => []BlocksOwned
<1>1. SfsInv => BlocksOwned
  <2> SUFFICES ASSUME SfsInv PROVE BlocksOwned
    OBVIOUS
  <2>1. \A r \in Refs : r[1] \in Inos /\ r[2] \in 1 .. Len(inodes[r[1]].blocks)
    <3> TAKE r \in Refs
    <3>1. r[1] \in Inos /\ r[2] \in 1 .. DIRECT /\ r[2] <= Len(inodes[r[1]].blocks)
      BY DEF Refs
    <3>2. inodes[r[1]] \in Nodes
      BY <3>1 DEF SfsInv, Shape
    <3>3. Len(inodes[r[1]].blocks) \in Nat
      BY <3>2 DEF Nodes
    <3>4. QED
      BY <3>1, <3>3
  <2>2. \A r \in Refs : RefBlock(r) \in bbm /\ RefBlock(r) >= DATA_START
    BY <2>1 DEF SfsInv, BlocksInv, GoodBlocks, RefBlock
  <2>3. ASSUME NEW r \in Refs, NEW s \in Refs, RefBlock(r) = RefBlock(s)
        PROVE  r = s
    <3>1. r[1] = s[1]
      BY <2>1, <2>3 DEF SfsInv, BlocksInv, Apart, RefBlock
    <3>2. r[2] = s[2]
      BY <2>1, <2>3, <3>1 DEF SfsInv, BlocksInv, GoodBlocks, RefBlock
    <3>3. r \in Inos \X (1 .. DIRECT) /\ s \in Inos \X (1 .. DIRECT)
      BY DEF Refs
    <3>4. QED
      BY <3>1, <3>2, <3>3
  <2>4. QED
    BY <2>2, <2>3 DEF BlocksOwned
<1>2. QED
  BY <1>1, SfsSound, PTL

\* Every read of a file returns what the completed writes left there.
THEOREM ContentAlwaysKept == ASSUME Settled PROVE Spec => []ContentKept
<1>1. SfsInv => ContentKept
  <2> SUFFICES ASSUME SfsInv, NEW c \in created, pc \in WriteLabels => call.ino # c.ino,
                      NEW offset \in 0 .. DIRECT * BLOCK_SIZE, NEW count \in 1 .. MaxCount
               PROVE  sfs_read_file(inodes[c.ino], count, offset)
                          = SubSeq(content[c.ino], offset + 1, Min({offset + count, Len(content[c.ino])}))
    BY DEF ContentKept
  <2>1. c.ino \in Inos /\ c.ino # ROOT_INO
    BY DEF SfsInv, Shape, FilesInv
  <2>2. /\ inodes[c.ino] \in Nodes /\ Holds(inodes[c.ino])
        /\ content[c.ino] = Image(inodes[c.ino], inodes[c.ino].size, data)
    BY <2>1 DEF SfsInv, Shape, FilesInv, Holds, KeptInv
  <2>3. offset \in Nat /\ count \in Nat
    <3>1. DIRECT * BLOCK_SIZE \in Nat
      BY SfsAssumption
    <3>2. QED
      BY <3>1, SfsAssumption
  <2> DEFINE node == inodes[c.ino]
             s == content[c.ino]
  <2>4. node \in Nodes /\ Holds(node) /\ s = Image(node, node.size, data)
    BY <2>2
  <2> HIDE DEF node, s
  <2>5. sfs_read_file(node, count, offset) = SubSeq(s, offset + 1, Min({offset + count, Len(s)}))
    BY <2>3, <2>4, ReadsImage
  <2>6. QED
    BY <2>5 DEF node, s
<1>2. QED
  BY <1>1, SfsSound, PTL

\* As long as power does not fail, no inode number and no block is lost.
THEOREM NothingEverLeaks == ASSUME Settled PROVE Spec => []NothingLeaks
<1>1. SfsInv => NothingLeaks
  <2> SUFFICES ASSUME SfsInv, pc = "idle", crashes = 0
               PROVE  /\ ibm = {0} \cup Listed
                      /\ bbm = (0 .. DATA_START - 1) \cup {RefBlock(r) : r \in Refs}
    BY DEF NothingLeaks
  <2>1. pc \notin Settling \cup CreateLabels \cup WriteLabels /\ pc # "cr_block"
    BY DEF Settling, FormatLabels, CreateLabels, WriteLabels
  <2>2. Ready /\ Root \in Nodes /\ ROOT_INO \in ibm
    BY <2>1, RootFacts
  <2>3. inode = ZeroInode /\ Range0(ZeroInode.blocks) = {}
    BY <2>1 DEF SfsInv, IdleInv, ZeroInode, Range0
  <2>4. /\ ibm \cup {ROOT_INO} = {0} \cup ListedIn(Root, data)
        /\ bbm = (0 .. DATA_START - 1) \cup InodeBlocks
    BY <2>1, <2>2, <2>3 DEF SfsInv, LeakInv
  <2>5. ibm = {0} \cup Listed
    BY <2>2, <2>4, ListedByBlocks
  <2>6. InodeBlocks = {RefBlock(r) : r \in Refs}
    <3>1. \A i \in Inos : Len(inodes[i].blocks) \in Nat /\ Len(inodes[i].blocks) <= DIRECT
      BY DEF SfsInv, Shape, BlocksInv, GoodBlocks, Nodes
    <3>2. ASSUME NEW b \in InodeBlocks PROVE b \in {RefBlock(r) : r \in Refs}
      <4>1. PICK i \in Inos : b \in Range0(inodes[i].blocks)
        BY DEF InodeBlocks
      <4>2. PICK x \in 1 .. Len(inodes[i].blocks) : b = inodes[i].blocks[x]
        BY <4>1 DEF Range0
      <4>3. x \in 1 .. DIRECT /\ x <= Len(inodes[i].blocks)
        BY <3>1, <4>2, SfsAssumption
      <4>4. <<i, x>> \in Refs /\ RefBlock(<<i, x>>) = b
        BY <4>2, <4>3 DEF Refs, RefBlock
      <4>5. QED
        BY <4>4
    <3>3. ASSUME NEW r \in Refs PROVE RefBlock(r) \in InodeBlocks
      <4>1. r[1] \in Inos /\ r[2] \in 1 .. DIRECT /\ r[2] <= Len(inodes[r[1]].blocks)
        BY DEF Refs
      <4>2. r[2] \in 1 .. Len(inodes[r[1]].blocks)
        BY <3>1, <4>1
      <4>3. RefBlock(r) \in Range0(inodes[r[1]].blocks)
        BY <4>2 DEF RefBlock, Range0
      <4>4. QED
        BY <4>1, <4>3 DEF InodeBlocks
    <3>4. QED
      BY <3>2, <3>3
  <2>7. QED
    BY <2>4, <2>5, <2>6
<1>2. QED
  BY <1>1, SfsSound, PTL

-----------------------------------------------------------------------------
(* Names: a created file is found.                                           *)

\* All names have one length, and no shorter one than "..": the copying loop
\* leaves nothing of the entry it builds on.
OneLength == \A x, y \in Names : x.len = y.len /\ x.len >= 2

\* In a directory a name stands for one inode, and leaves room for no tail.
WellNamed(dir, d) ==
    /\ \A e \in Entries(dir, d) : \A y \in Names : e.name.len <= y.len
    /\ \A e, f \in Entries(dir, d) : e.ino # 0 /\ f.ino # 0 /\ e.name = f.name => e.ino = f.ino

\* The directory lists inode i under the name.
Has(dir, d, i, name) == \E e \in Entries(dir, d) : e.ino = i /\ e.name = name

\* No entry has the name.
Unused(dir, d, name) == \A e \in Entries(dir, d) : e.ino # 0 => e.name # name

\* The names in the directory, and how far sfs_create has come with the new one.
NamesInv ==
    Ready =>
        /\ WellNamed(Root, data)
        /\ \A c \in created : Has(Root, data, c.ino, c.name)
        /\ pc \in {"cr_inode", "cr_slot", "cr_block"} => Unused(Root, data, call.name)
        /\ pc = "cr_parent" => /\ WellNamed(inode, data) /\ Has(inode, data, call.ino, call.name)
                               /\ Entries(Root, data) \subseteq Entries(inode, data)

\* sfs_lookup finds every name that is there.
LEMMA LookupFinds ==
    ASSUME Root \in Nodes, Root.type = "dir", NEW name, ~Unused(Root, data, name)
    PROVE  \E e \in Entries(Root, data) : e.ino # 0 /\ e.name = name /\ sfs_lookup(name) = e.ino
<1> DEFINE k == Min(Matches(name))
<1>1. PICK e \in Entries(Root, data) : e.ino # 0 /\ e.name = name
  BY DEF Unused
<1>2. PICK x \in 1 .. Len(Root.blocks), o \in Offsets : e = data[Root.blocks[x]][o]
  BY DEF Entries
<1>3. PICK j \in Places(Root) : (j \div BLOCK_SIZE) + 1 = x /\ j % BLOCK_SIZE = o
  BY <1>2, PlacesAreEntries
<1>4. j \in Matches(name)
  BY <1>1, <1>2, <1>3 DEF Matches, Entry, Root
<1>5. Matches(name) \subseteq Places(Root) /\ Places(Root) \subseteq Nat
  BY PlacesAreEntries DEF Matches, Root
<1>6. k \in Matches(name)
  BY <1>4, <1>5, MinOfNats
<1>7. k \in Places(Root) /\ Entry(Root, k).ino # 0 /\ Entry(Root, k).name = name
  BY <1>6 DEF Matches, Root
<1>8. Entry(Root, k) \in Entries(Root, data)
  <2> HIDE DEF k
  <2>1. (k \div BLOCK_SIZE) + 1 \in 1 .. Len(Root.blocks) /\ k % BLOCK_SIZE \in Offsets
    BY <1>7, PlacesAreEntries
  <2>2. QED
    BY <2>1 DEF Entries, Entry
<1>9. sfs_lookup(name) = Entry(Root, k).ino
  BY <1>4 DEF sfs_lookup, Root
<1>10. QED
  BY <1>7, <1>8, <1>9

\* Steps that leave the directory alone, outside sfs_create.
LEMMA NamesFrame ==
    ASSUME NamesInv, Ready' => Ready, Entries(Root, data)' = Entries(Root, data), created' = created,
           pc' \notin CreateLabels
    PROVE  NamesInv'
BY DEF NamesInv, WellNamed, Has, CreateLabels

\* A step that writes a block of a file leaves the directory alone.
LEMMA DirectoryElsewhere ==
    ASSUME SfsInv, pc \in WriteLabels, Root' = Root, NEW x \in 1 .. Len(inode.blocks),
           \A c \in Blocks : c # inode.blocks[x] => data'[c] = data[c]
    PROVE  Entries(Root, data)' = Entries(Root, data)
<1>1. call.ino # ROOT_INO
  BY WriteFacts
<1>2. ROOT_INO \in Inos /\ Root = inodes[ROOT_INO] /\ Root \in Nodes
  <2>1. pc \notin Settling
    BY DEF Settling, FormatLabels, WriteLabels
  <2>2. QED
    BY <2>1, RootFacts
<1>3. \A y \in 1 .. Len(Root.blocks) : Root.blocks[y] \in Blocks /\ Root.blocks[y] # inode.blocks[x]
  BY <1>1, <1>2 DEF SfsInv, WriteInv, Apart, Nodes
<1>4. \A y \in 1 .. Len(Root.blocks) : data'[Root.blocks[y]] = data[Root.blocks[y]]
  BY <1>3
<1>5. QED
  BY <1>4 DEF Entries

\* The directory sfs_format makes holds two names of one inode.
LEMMA FormatNames == ASSUME SfsInv, OneLength, FmtInode PROVE NamesInv'
<1>0. PICK b : b = call.blk
  OBVIOUS
<1>1. /\ pc = "fmt_inode" /\ pc' = "fmt_root" /\ data' = data /\ created' = created
      /\ inodes' = [inodes EXCEPT ![ROOT_INO] =
                       [ino |-> ROOT_INO, size |-> 2, type |-> "dir", blocks |-> <<b>>]]
  BY <1>0 DEF FmtInode, ghost
<1>2. created = {} /\ data[b] = RootBlock
  BY <1>0, <1>1 DEF SfsInv, FormatInv, FormatLabels
<1>3. Root'.blocks = <<b>>
  <2>1. ROOT_INO \in Inos
    BY SfsAssumption DEF ROOT_INO, Inos
  <2>2. QED
    BY <1>1, <2>1 DEF Root, SfsInv, Shape
<1>4. Entries(Root, data)' = {RootBlock[o] : o \in Offsets}
  <2>1. Len(Root'.blocks) = 1 /\ Root'.blocks[1] = b
    BY <1>3
  <2>2. QED
    BY <1>1, <1>2, <2>1 DEF Entries
<1>5. \A o \in Offsets : RootBlock[o] \in {Zero, [ino |-> ROOT_INO, name |-> Dot],
                                           [ino |-> ROOT_INO, name |-> DotDot]}
  BY DEF RootBlock, ZeroBlock
<1>6. /\ Zero.ino = 0 /\ Zero.name.len = 0 /\ Dot.len = 1 /\ DotDot.len = 2
  BY DEF Zero, NoName, Dot, DotDot
<1>7. \A e \in Entries(Root, data)' : (e.ino = 0 \/ e.ino = ROOT_INO) /\ e.name.len \in {0, 1, 2}
  BY <1>4, <1>5, <1>6
<1>8. WellNamed(Root, data)'
  <2>1. \A y \in Names : y.len \in Nat /\ y.len >= 2
    BY SfsAssumption DEF OneLength
  <2>2. \A e \in Entries(Root, data)' : \A y \in Names : e.name.len <= y.len
    BY <1>7, <2>1
  <2>3. QED
    BY <1>7, <2>2 DEF WellNamed
<1>9. QED
  BY <1>1, <1>2, <1>8 DEF NamesInv

\* sfs_create starts when the name is not there.
LEMMA CreateNames == ASSUME SfsInv, NamesInv, NEW name \in Names, Create(name) PROVE NamesInv'
<1>1. /\ pc = "idle" /\ pc' = "cr_inode" /\ sfs_lookup(name) < 0 /\ call'.name = name
      /\ UNCHANGED <<magic, inodes, data, created>>
  BY DEF Create, ghost, NoCall
<1>2. pc \notin Settling
  BY <1>1 DEF Settling, FormatLabels
<1>3. Ready /\ Root \in Nodes /\ Root.type = "dir" /\ Root' = Root
  BY <1>1, <1>2, RootFacts DEF SfsInv, DirInv, Root
<1>4. Unused(Root, data, name)
  <2>1. \A e \in Entries(Root, data) : e.ino \in Nat
    BY <1>3, SfsAssumption DEF SfsInv, DirInv, Inos
  <2>2. SUFFICES ASSUME ~Unused(Root, data, name) PROVE FALSE
    OBVIOUS
  <2>3. \E e \in Entries(Root, data) : sfs_lookup(name) = e.ino
    BY <1>3, <2>2, LookupFinds
  <2>4. QED
    BY <1>1, <2>1, <2>3
<1>5. QED
  BY <1>1, <1>3, <1>4 DEF NamesInv, WellNamed, Has, Unused, Entries, Root

\* The new entry carries the name, and nothing else.
LEMMA CopiedIsNew ==
    ASSUME OneLength, NEW name \in Names, NEW old, \A y \in Names : old.len <= y.len
    PROVE  Copied(old, name) = name
BY DEF Copied

\* A set of entries with one more, under a name none of them has.
LEMMA OneMoreName ==
    ASSUME OneLength, NEW d, NEW e, NEW dir, NEW new, WellNamed(dir, d), NEW name \in Names,
           Unused(dir, d, name), new.name = name, NEW to,
           \A f \in Entries(to, e) : f \in Entries(dir, d) \/ f = new \/ f = Zero
    PROVE  WellNamed(to, e)
<1>1. \A y \in Names : name.len <= y.len /\ Zero.name.len <= y.len
  BY SfsAssumption DEF OneLength, Zero, NoName
<1>2. Zero.ino = 0
  BY DEF Zero
<1>3. \A f \in Entries(to, e) : f.ino # 0 => f \in Entries(dir, d) \/ f = new
  BY <1>2
<1>4. QED
  BY <1>1, <1>3 DEF WellNamed, Unused

\* An entry that was free gets a name no other entry has.
LEMMA InPlaceNames == ASSUME SfsInv, OneLength, NamesInv, CreateInPlace PROVE NamesInv'
<1> DEFINE k == Min(FreePlaces)
           x == (k \div BLOCK_SIZE) + 1
           b == inode.blocks[x]
           p == k % BLOCK_SIZE
           new == NewEntry(data[b][p])
<1>1. /\ pc = "cr_slot" /\ pc' = "cr_parent" /\ FreePlaces # {}
      /\ data' = [data EXCEPT ![b][p] = new]
      /\ UNCHANGED <<magic, inodes, call, inode, created>>
  BY DEF CreateInPlace, ghost
<1>2. pc \notin Settling /\ pc \in CreateLabels
  BY <1>1 DEF Settling, FormatLabels, CreateLabels
<1>3. /\ Ready /\ Root \in Nodes /\ Root' = Root /\ inode = Root /\ call.name \in Names
  BY <1>1, <1>2, RootFacts DEF SfsInv, CreateInv, Root
<1>4. x \in 1 .. Len(Root.blocks) /\ p \in Offsets /\ data[b][p].ino = 0 /\ b = Root.blocks[x]
  <2>1. FreePlaces \subseteq Places(Root) /\ Places(Root) \subseteq Nat
    BY <1>3, PlacesAreEntries DEF FreePlaces
  <2>2. k \in FreePlaces
    BY <1>1, <2>1, MinOfNats
  <2>3. k \in Places(Root) /\ Entry(inode, k).ino = 0
    BY <2>1, <2>2 DEF FreePlaces
  <2>4. x \in 1 .. Len(Root.blocks) /\ p \in Offsets
    BY <1>3, <2>3, PlacesAreEntries
  <2>5. QED
    BY <1>3, <2>3, <2>4 DEF Entry
<1>5. data[b][p] \in Entries(Root, data)
  BY <1>4 DEF Entries
<1>6. WellNamed(Root, data) /\ Unused(Root, data, call.name) /\ \A c \in created : Has(Root, data, c.ino, c.name)
  BY <1>1, <1>3 DEF NamesInv
<1>7. new.name = call.name /\ new.ino = call.ino
  <2>1. \A y \in Names : data[b][p].name.len <= y.len
    BY <1>5, <1>6 DEF WellNamed
  <2> DEFINE old == data[b][p].name
  <2>2. \A y \in Names : old.len <= y.len
    BY <2>1
  <2> HIDE DEF old
  <2>3. Copied(old, call.name) = call.name
    BY <1>3, <2>2, CopiedIsNew
  <2>4. QED
    BY <2>3 DEF NewEntry, old
<1>8. b \in Blocks /\ data = [c \in Blocks |-> [o \in Offsets |-> data[c][o]]]
  BY <1>3, <1>4 DEF SfsInv, Shape, Nodes
<1> HIDE DEF k, x, b, p, new
<1>9. /\ data'[b][p] = new
      /\ \A c \in Blocks, o \in Offsets : c # b \/ o # p => data'[c][o] = data[c][o]
  BY <1>1, <1>4, <1>8
<1>10. \A y \in 1 .. Len(Root.blocks) : Root.blocks[y] \in Blocks
  BY <1>3 DEF Nodes
<1>11. /\ new \in Entries(Root, data)'
       /\ \A f \in Entries(Root, data)' : f \in Entries(Root, data) \/ f = new
       /\ \A e \in Entries(Root, data) : e.ino # 0 => e \in Entries(Root, data)'
  <2>1. new \in Entries(Root, data)'
    BY <1>3, <1>4, <1>9 DEF Entries
  <2>2. \A f \in Entries(Root, data)' : f \in Entries(Root, data) \/ f = new
    BY <1>3, <1>4, <1>9, <1>10 DEF Entries
  <2>3. ASSUME NEW e \in Entries(Root, data), e.ino # 0
        PROVE  e \in Entries(Root, data)'
    <3>1. PICK y \in 1 .. Len(Root.blocks), o \in Offsets : e = data[Root.blocks[y]][o]
      BY DEF Entries
    <3>2. Root.blocks[y] # b \/ o # p
      BY <1>4, <2>3, <3>1
    <3>3. data'[Root.blocks[y]][o] = e
      BY <1>9, <1>10, <3>1, <3>2
    <3>4. QED
      BY <1>3, <3>1, <3>3 DEF Entries
  <2>4. QED
    BY <2>1, <2>2, <2>3
<1>12. WellNamed(Root, data)'
  <2> DEFINE dir == Root
             d == data
             e == data'
             to == Root'
             name == call.name
  <2>1. /\ WellNamed(dir, d) /\ name \in Names /\ Unused(dir, d, name) /\ new.name = name
        /\ \A f \in Entries(to, e) : f \in Entries(dir, d) \/ f = new \/ f = Zero
    BY <1>3, <1>6, <1>7, <1>11
  <2> HIDE DEF dir, d, e, to, name
  <2>2. WellNamed(to, e)
    BY <2>1, OneMoreName
  <2>3. QED
    BY <2>2 DEF to, e
<1>13. \A c \in created' : Has(Root, data, c.ino, c.name)'
  <2>1. \A c \in created : c.ino # 0
    BY SfsAssumption DEF SfsInv, Shape, Inos
  <2>2. QED
    BY <1>1, <1>6, <1>11, <2>1 DEF Has
<1>14. Has(inode, data, call.ino, call.name)' /\ inode' = Root'
  BY <1>1, <1>3, <1>7, <1>11 DEF Has
<1>15. QED
  BY <1>1, <1>12, <1>13, <1>14 DEF NamesInv

\* A new directory block adds one name; the entry it is built on leaves no tail.
LEMMA BlockNames == ASSUME SfsInv, OneLength, NamesInv, CreateBlock PROVE NamesInv'
<1>0. PICK last, b, s : last = Entry(inode, Len(inode.blocks) * BLOCK_SIZE - 1) /\ b = call.blk /\ s = inode.blocks
  OBVIOUS
<1> DEFINE new == NewEntry(last)
           block == [ZeroBlock EXCEPT ![0] = new]
<1>1. /\ pc = "cr_block" /\ pc' = "cr_parent" /\ data' = [data EXCEPT ![b] = block]
      /\ inode' = [inode EXCEPT !.blocks = Append(s, b)]
      /\ UNCHANGED <<magic, inodes, call, created>>
  BY <1>0 DEF CreateBlock, ghost
<1>2. pc \notin Settling /\ pc \in CreateLabels
  BY <1>1 DEF Settling, FormatLabels, CreateLabels
<1>3. /\ Ready /\ Root \in Nodes /\ Root' = Root /\ inode = Root /\ call.name \in Names
      /\ Root = inodes[ROOT_INO] /\ ROOT_INO \in Inos
      /\ Len(Root.blocks) \in Nat \ {0} /\ b \in Blocks /\ Fresh(b)
  <2>1. Fresh(b) /\ inode = Root /\ call.name \in Names
    BY <1>0, <1>1, <1>2 DEF SfsInv, CreateInv
  <2>2. b \in Blocks
    BY <1>0 DEF SfsInv, Shape, CallRecords
  <2>3. QED
    BY <1>1, <1>2, <2>1, <2>2, RootFacts DEF Root
<1>4. last \in Entries(Root, data)
  <2> DEFINE n == Len(Root.blocks)
             k == n * BLOCK_SIZE - 1
  <2>1. n \in Nat \ {0}
    BY <1>3
  <2> HIDE DEF n
  <2>2. n * BLOCK_SIZE \in Nat /\ n * BLOCK_SIZE >= 1
    BY <2>1, SfsAssumption
  <2>3. k \in 0 .. n * BLOCK_SIZE - 1
    BY <2>2
  <2>4. k \in Places(Root)
    BY <2>3 DEF Places, n
  <2>5. last = Entry(Root, k)
    BY <1>0, <1>3 DEF n
  <2> HIDE DEF k
  <2>6. QED
    BY <1>3, <2>4, <2>5, PlacesAreEntries DEF Entries, Entry
<1>5. WellNamed(Root, data) /\ Unused(Root, data, call.name) /\ \A c \in created : Has(Root, data, c.ino, c.name)
  BY <1>1, <1>3 DEF NamesInv
<1>6. new.name = call.name /\ new.ino = call.ino
  <2> DEFINE old == last.name
  <2>1. \A y \in Names : old.len <= y.len
    BY <1>4, <1>5 DEF WellNamed
  <2> HIDE DEF old
  <2>2. Copied(old, call.name) = call.name
    BY <1>3, <2>1, CopiedIsNew
  <2>3. QED
    BY <2>2 DEF NewEntry, old
<1>7. 0 \in Offsets /\ block[0] = new /\ \A o \in Offsets : block[o] = new \/ block[o] = Zero
  BY SfsAssumption DEF Offsets, ZeroBlock
<1> HIDE DEF new, block
<1>8. /\ data'[b] = block /\ \A c \in Blocks : c # b => data'[c] = data[c]
  BY <1>1, <1>3 DEF SfsInv, Shape
<1>9. /\ \A y \in 1 .. Len(Root.blocks) : Root.blocks[y] \in Blocks /\ Root.blocks[y] # b
  BY <1>3 DEF Nodes, Fresh
<1>10. Entries(Root, data)' = Entries(Root, data)
  <2>1. \A y \in 1 .. Len(Root.blocks) : data'[Root.blocks[y]] = data[Root.blocks[y]]
    BY <1>8, <1>9
  <2>2. QED
    BY <1>3, <2>1 DEF Entries
<1>11. /\ s = Root.blocks /\ Len(s) \in Nat /\ inode'.blocks = Append(s, b) /\ Len(Append(s, b)) = Len(s) + 1
       /\ \A y \in 1 .. Len(s) : Append(s, b)[y] = s[y]
       /\ Append(s, b)[Len(s) + 1] = b
  <2>1. s = Root.blocks /\ s \in Seq(Blocks)
    BY <1>0, <1>3 DEF Nodes
  <2>2. inode'.blocks = Append(s, b)
    BY <1>1, <1>3 DEF Nodes
  <2>3. QED
    BY <1>3, <2>1, <2>2, AppendedBlock
<1>12. \A y \in 1 .. Len(s) + 1 : y \in 1 .. Len(s) \/ y = Len(s) + 1
  BY <1>11
<1>13. 1 .. Len(s) \subseteq 1 .. Len(s) + 1 /\ Len(s) + 1 \in 1 .. Len(s) + 1
  BY <1>11
<1>14. /\ Entries(Root, data) \subseteq Entries(inode, data)' /\ new \in Entries(inode, data)'
       /\ \A f \in Entries(inode, data)' : f \in Entries(Root, data) \/ f = new \/ f = Zero
  <2>1. Entries(Root, data)' \subseteq Entries(inode, data)'
    BY <1>3, <1>11, <1>13 DEF Entries
  <2>2. new \in Entries(inode, data)'
    BY <1>7, <1>8, <1>11, <1>13 DEF Entries
  <2>3. ASSUME NEW f \in Entries(inode, data)' PROVE f \in Entries(Root, data)' \/ f = new \/ f = Zero
    <3>1. PICK y \in 1 .. Len(s) + 1, o \in Offsets : f = data'[inode'.blocks[y]][o]
      BY <1>11 DEF Entries
    <3>2. CASE y \in 1 .. Len(s)
      BY <1>3, <1>11, <3>1, <3>2 DEF Entries
    <3>3. CASE y = Len(s) + 1
      BY <1>7, <1>8, <1>11, <3>1, <3>3
    <3>4. QED
      BY <1>12, <3>2, <3>3
  <2>4. QED
    BY <1>10, <2>1, <2>2, <2>3
<1>15. WellNamed(inode, data)'
  <2> DEFINE dir == Root
             d == data
             e == data'
             to == inode'
             name == call.name
  <2>1. /\ WellNamed(dir, d) /\ name \in Names /\ Unused(dir, d, name) /\ new.name = name
        /\ \A f \in Entries(to, e) : f \in Entries(dir, d) \/ f = new \/ f = Zero
    BY <1>3, <1>5, <1>6, <1>14
  <2> HIDE DEF dir, d, e, to, name
  <2>2. WellNamed(to, e)
    BY <2>1, OneMoreName
  <2>3. QED
    BY <2>2 DEF to, e
<1>16. Has(inode, data, call.ino, call.name)'
  BY <1>1, <1>6, <1>14 DEF Has
<1>17. WellNamed(Root, data)' /\ \A c \in created' : Has(Root, data, c.ino, c.name)'
  <2>1. created' = created
    BY <1>1
  <2>2. QED
    BY <1>5, <1>10, <2>1 DEF WellNamed, Has
<1>18. QED
  BY <1>1, <1>10, <1>14, <1>15, <1>16, <1>17 DEF NamesInv

\* Writing the directory's inode back publishes the entry.
LEMMA ParentNames == ASSUME SfsInv, NamesInv, CreateParent PROVE NamesInv'
<1>0. PICK i, name : i = call.ino /\ name = call.name
  OBVIOUS
<1>1. /\ pc = "cr_parent" /\ pc' = "idle" /\ data' = data
      /\ inodes' = [inodes EXCEPT ![ROOT_INO] = [inode EXCEPT !.size = @ + 1]]
      /\ created' = created \cup {[name |-> name, ino |-> i]}
  BY <1>0 DEF CreateParent, Return
<1>2. pc \notin Settling
  BY <1>1 DEF Settling, FormatLabels
<1>3. Ready /\ ROOT_INO \in Inos /\ inodes \in [Inos -> Nodes] /\ inode \in Nodes
  BY <1>2, RootFacts DEF SfsInv, Shape
<1>4. Root'.blocks = inode.blocks
  BY <1>1, <1>3 DEF Root, Nodes
<1>5. Entries(Root, data)' = Entries(inode, data)
  BY <1>1, <1>4 DEF Entries
<1>6. /\ WellNamed(inode, data) /\ Has(inode, data, i, name)
      /\ Entries(Root, data) \subseteq Entries(inode, data)
      /\ \A c \in created : Has(Root, data, c.ino, c.name)
  BY <1>0, <1>1, <1>3 DEF NamesInv
<1>7. WellNamed(Root, data)'
  BY <1>5, <1>6 DEF WellNamed
<1>8. \A c \in created' : Has(Root, data, c.ino, c.name)'
  BY <1>1, <1>5, <1>6 DEF Has
<1>9. QED
  BY <1>1, <1>7, <1>8 DEF NamesInv

\* The steps of sfs_create before the entry is written.
LEMMA CreateOtherNames ==
    ASSUME SfsInv, NamesInv, CreateInode \/ CreateGrow \/ CreateFail
    PROVE  NamesInv'
<1>1. /\ pc \in {"cr_inode", "cr_slot"} /\ pc' \in {"cr_slot", "cr_block", "idle"}
      /\ data' = data /\ created' = created /\ magic' = magic
  BY DEF CreateInode, CreateGrow, CreateFail, Return, ghost
<1>2. pc \notin Settling /\ pc \in CreateLabels
  BY <1>1 DEF Settling, FormatLabels, CreateLabels
<1>3. Ready /\ ROOT_INO \in Inos /\ call.ino # ROOT_INO
  BY <1>2, RootFacts DEF SfsInv, CreateInv
<1>4. inodes'[ROOT_INO] = inodes[ROOT_INO]
  BY <1>3 DEF CreateInode, CreateGrow, CreateFail, SfsInv, Shape
<1>5. Entries(Root, data)' = Entries(Root, data)
  BY <1>1, <1>4 DEF Entries, Root
<1>6. pc' # "idle" => call'.name = call.name
  BY DEF CreateInode, CreateGrow, CreateFail, Return, SfsInv, Shape, CallRecords
<1>7. WellNamed(Root, data) /\ Unused(Root, data, call.name) /\ \A c \in created : Has(Root, data, c.ino, c.name)
  BY <1>1, <1>3 DEF NamesInv
<1>8. WellNamed(Root, data)' /\ \A c \in created' : Has(Root, data, c.ino, c.name)'
  BY <1>1, <1>5, <1>7 DEF WellNamed, Has
<1>9. pc' # "idle" => Unused(Root, data, call.name)'
  BY <1>5, <1>6, <1>7 DEF Unused
<1>10. QED
  BY <1>1, <1>8, <1>9 DEF NamesInv

\* sys_write leaves the directory alone.
LEMMA WriteNames ==
    ASSUME SfsInv, NamesInv, WriteNext \/ WriteGrow \/ WriteStop \/ WriteBlock \/ WriteInode
    PROVE  NamesInv'
<1>1. pc \in WriteLabels /\ pc' \notin CreateLabels \cup Settling /\ created' = created /\ magic' = magic
  BY DEF WriteNext, WriteGrow, WriteStop, WriteBlock, WriteInode, Return, ghost, disk, WriteLabels,
         CreateLabels, Settling, FormatLabels
<1>2. pc \notin Settling
  BY <1>1 DEF Settling, FormatLabels, WriteLabels
<1>3. Ready /\ ROOT_INO \in Inos /\ inodes \in [Inos -> Nodes]
  BY <1>2, RootFacts DEF SfsInv, Shape
<1>4. Entries(Root, data)' = Entries(Root, data)
  <2>1. CASE WriteNext \/ WriteGrow \/ WriteStop
    BY <2>1 DEF WriteNext, WriteGrow, WriteStop, disk, Entries, Root
  <2>2. CASE WriteBlock
    <3>1. PICK x : x = BlockIdx + 1
      OBVIOUS
    <3>2. Root' = Root /\ \A c \in Blocks : c # inode.blocks[x] => data'[c] = data[c]
      BY <2>2, <3>1 DEF WriteBlock, Root, SfsInv, Shape
    <3>3. x \in 1 .. Len(inode.blocks)
      <4>1. BlockIdx \in Nat
        BY <1>1, WriteFacts, PlaceParts DEF BlockIdx
      <4>2. BlockIdx < Len(inode.blocks) /\ Len(inode.blocks) \in Nat
        BY <1>1, <2>2, WriteFacts DEF SfsInv, WriteInv, WriteBlock
      <4>3. QED
        BY <3>1, <4>1, <4>2
    <3>4. QED
      BY <1>1, <3>2, <3>3, DirectoryElsewhere
  <2>3. CASE WriteInode
    <3>1. inode.ino # ROOT_INO /\ data' = data
      BY <1>1, <2>3, WriteFacts DEF WriteInode, SfsInv, WriteInv
    <3>2. inodes'[ROOT_INO] = inodes[ROOT_INO]
      BY <1>3, <2>3, <3>1 DEF WriteInode
    <3>3. QED
      BY <3>1, <3>2 DEF Entries, Root
  <2>4. QED
    BY <2>1, <2>2, <2>3
<1>5. QED
  BY <1>1, <1>3, <1>4, NamesFrame

\* Boot, mount, format, power failure and the calls that only use the file table.
LEMMA OtherNames ==
    ASSUME SfsInv, NamesInv, Settled,
           \/ Boot \/ Mount \/ FmtIbm \/ FmtBbm \/ FmtTable \/ FmtAlloc \/ FmtDir \/ FmtRoot \/ Crash
           \/ \E name \in Names : Open(name)
           \/ \E fd \in Fds : \/ Close(fd)
                              \/ \E count \in 1 .. MaxCount : Read(fd, count)
                              \/ \E buf \in Bufs : Write(fd, buf)
           \/ UNCHANGED vars
    PROVE  NamesInv'
<1>1. CASE FmtIbm \/ FmtBbm \/ FmtTable \/ FmtAlloc \/ FmtDir
  <2>1. ~Ready'
    BY <1>1 DEF FmtIbm, FmtBbm, FmtTable, FmtAlloc, FmtDir, Ready, FormatLabels
  <2>2. QED
    BY <2>1 DEF NamesInv
<1>2. CASE UNCHANGED vars
  <2>1. UNCHANGED <<magic, pc, inodes, data, created, call, inode>>
    BY <1>2 DEF vars, disk, ghost
  <2>2. /\ Ready' = Ready /\ Entries(Root, data)' = Entries(Root, data)
        /\ Entries(inode, data)' = Entries(inode, data)
    BY <2>1 DEF Ready, Entries, Root
  <2>3. QED
    BY <2>1, <2>2 DEF NamesInv, WellNamed, Has, Unused
<1>3. CASE Boot \/ Mount \/ FmtRoot \/ Crash
  <2>1. UNCHANGED <<inodes, data, created>> /\ pc' \notin CreateLabels
    BY <1>3 DEF Boot, Mount, FmtRoot, Crash, disk, ghost, CreateLabels
  <2>2. Ready' => Ready
    BY <1>3 DEF Boot, Mount, FmtRoot, Crash, disk, ghost, Ready, FormatLabels, Settled
  <2>3. QED
    BY <2>1, <2>2, NamesFrame DEF Entries, Root
<1>4. CASE \/ \E name \in Names : Open(name)
           \/ \E fd \in Fds : \/ Close(fd)
                              \/ \E count \in 1 .. MaxCount : Read(fd, count)
                              \/ \E buf \in Bufs : Write(fd, buf)
  <2>1. /\ UNCHANGED <<magic, inodes, data, created>> /\ pc = "idle" /\ pc' \in {"idle", "wr_loop"}
    BY <1>4 DEF Open, Close, Read, Write, disk, ghost
  <2>2. pc' \notin CreateLabels /\ (Ready' => Ready)
    BY <2>1 DEF Ready, FormatLabels, CreateLabels
  <2>3. QED
    BY <2>1, <2>2, NamesFrame DEF Entries, Root
<1>5. QED
  BY <1>1, <1>2, <1>3, <1>4

\* A file that was created is found under its name by this boot and all later
\* ones, when names have one length.
THEOREM CreatedAlwaysFound == ASSUME Settled, OneLength PROVE Spec => []CreatedIsFound
<1>1. Init => NamesInv
  BY DEF Init, NamesInv, Ready
<1>2. SfsInv /\ NamesInv /\ [Next]_vars => NamesInv'
  <2> SUFFICES ASSUME SfsInv, NamesInv, [Next]_vars PROVE NamesInv'
    OBVIOUS
  <2>1. CASE FmtInode
    BY <2>1, FormatNames
  <2>2. CASE \E name \in Names : Create(name)
    BY <2>2, CreateNames
  <2>3. CASE CreateInode \/ CreateGrow \/ CreateFail
    BY <2>3, CreateOtherNames
  <2>4. CASE CreateInPlace \/ CreateBlock \/ CreateParent
    BY <2>4, InPlaceNames, BlockNames, ParentNames
  <2>5. CASE WriteNext \/ WriteGrow \/ WriteStop \/ WriteBlock \/ WriteInode
    BY <2>5, WriteNames
  <2>6. CASE \/ Boot \/ Mount \/ FmtIbm \/ FmtBbm \/ FmtTable \/ FmtAlloc \/ FmtDir \/ FmtRoot \/ Crash
             \/ \E name \in Names : Open(name)
             \/ \E fd \in Fds : \/ Close(fd)
                                \/ \E count \in 1 .. MaxCount : Read(fd, count)
                                \/ \E buf \in Bufs : Write(fd, buf)
             \/ UNCHANGED vars
    BY <2>6, OtherNames
  <2>7. QED
    BY <2>1, <2>2, <2>3, <2>4, <2>5, <2>6 DEF Next, CallStep, Format
<1>3. SfsInv /\ NamesInv => CreatedIsFound
  <2> SUFFICES ASSUME SfsInv, NamesInv, NEW c \in created PROVE sfs_lookup(c.name) = c.ino
    BY DEF CreatedIsFound
  <2>1. Ready /\ c.ino \in Inos
    BY DEF SfsInv, FormatInv, Shape, Ready
  <2>2. Root \in Nodes /\ Root.type = "dir"
    <3>1. ROOT_INO \in Inos
      BY SfsAssumption DEF ROOT_INO, Inos
    <3>2. QED
      BY <2>1, <3>1 DEF SfsInv, Shape, DirInv, Root
  <2>3. c.ino # 0
    BY <2>1, SfsAssumption DEF Inos
  <2>4. PICK e \in Entries(Root, data) : e.ino = c.ino /\ e.name = c.name
    BY <2>1 DEF NamesInv, Has
  <2>5. PICK f \in Entries(Root, data) : f.ino # 0 /\ f.name = c.name /\ sfs_lookup(c.name) = f.ino
    <3>1. ~Unused(Root, data, c.name)
      BY <2>3, <2>4 DEF Unused
    <3>2. QED
      BY <2>2, <3>1, LookupFinds
  <2>6. e.ino = f.ino
    BY <2>1, <2>3, <2>4, <2>5 DEF NamesInv, WellNamed
  <2>7. QED
    BY <2>4, <2>5, <2>6
<1>4. QED
  BY <1>1, <1>2, <1>3, SfsSound, PTL DEF Spec

=============================================================================
