-------------------------- MODULE FileSystemProofs --------------------------
(***************************************************************************)
(* For every ramdisk and every path: the walk of resolve_path is shallow   *)
(* and overruns its buffer only if the path has a component that is too    *)
(* long, else open returns the first file that a path names and that for   *)
(* reading only, readdir the name of its node, and read nothing behind the *)
(* end of a file.                                                          *)
(***************************************************************************)
EXTENDS FileSystem, SequenceTheorems, WellFoundedInduction, TLAPS

(* What the walk has reached at each depth, and what open may return.      *)
Walked ==
  /\ at \in {"walk", "found"} => mode \in Modes /\ depth \in 1..3
  /\ at = "walk" => /\ depth = 1 => dir = Root
                    /\ depth = 2 => dir = Mount
                    /\ depth = 3 => dir \in Nodes
  /\ at = "found" => \E n \in Node \cup {Null} : ret = <<n>>
  /\ OnlyFilesOpen

LEMMA Nodes3 ==
  /\ Nodes \subseteq Nat \ {Null} /\ {Root, Mount, Initrd} \subseteq Nat \ {Null}
  /\ Root \notin Nodes /\ Mount \notin Nodes /\ Initrd \notin Nodes
  /\ Root # Mount /\ Root # Initrd /\ Mount # Initrd
<1>1. Len(Names) \in Nat
  BY FileSystemAssumption
<1>2. QED
  BY <1>1 DEF Nodes, Root, Mount, Initrd, Null

LEMMA Flags ==
  /\ ~IsLink(Root) /\ IsLink(Mount) /\ ~IsLink(Initrd)
  /\ \A f \in Nodes : ~IsLink(f) /\ ~Has(f, "finddir")
  /\ node(Mount).ptr = Initrd
<1>1. /\ node(Root) = rootfs_node /\ node(Mount) = mounted_node
      /\ node(Initrd) = initrd_root_node
      /\ \A f \in Nodes : node(f) = initrd_node(f)
  BY Nodes3 DEF node
<1>2. /\ node(Root).flags = 2 /\ node(Mount).flags = 10 /\ node(Initrd).flags = 2
      /\ \A f \in Nodes : node(f).flags = 1 /\ node(f).ops = {"read", "open", "close"}
      /\ node(Mount).ptr = Initrd
  BY <1>1 DEF rootfs_node, mounted_node, initrd_root_node, initrd_node,
              FS_FILE, FS_DIRECTORY, FS_MOUNTPOINT
<1>3. (2 \div 8) % 2 = 0 /\ (10 \div 8) % 2 = 1 /\ (1 \div 8) % 2 = 0
  OBVIOUS
<1>4. \A f \in Nodes : ~Has(f, "finddir")
  BY <1>2 DEF Has
<1>5. QED
  BY <1>2, <1>3, <1>4 DEF IsLink, IsMountpoint, FS_SYMLINK, FS_MOUNTPOINT

LEMMA FindDir ==
  ASSUME NEW s
  PROVE  /\ fs_finddir(Root, s) \in {Mount, Null}
         /\ fs_finddir(Mount, s) \in Nodes \cup {Null}
         /\ \A f \in Nodes : fs_finddir(f, s) = Null
<1>1. Target(Root) = Root /\ Target(Mount) = Initrd /\ \A f \in Nodes : Target(f) = f
  BY Flags DEF Target
<1>2. fs_finddir(Root, s) \in {Mount, Null}
  BY <1>1 DEF fs_finddir, rootfs_finddir
<1>3. initrd_finddir(Initrd, s) \in Nodes \cup {Null}
  BY DEF initrd_finddir
<1>4. fs_finddir(Mount, s) \in Nodes \cup {Null}
  BY <1>1, <1>3, Nodes3 DEF fs_finddir
<1>5. \A f \in Nodes : fs_finddir(f, s) = Null
  BY <1>1, Flags DEF fs_finddir
<1>6. QED
  BY <1>2, <1>4, <1>5

LEMMA WalkedStep == Walked /\ [Next]_vars => Walked'
<1> SUFFICES ASSUME Walked, [Next]_vars PROVE Walked'
  OBVIOUS
<1>1. ASSUME NEW p \in Paths, NEW m \in Modes, open(p, m) PROVE Walked'
  BY <1>1 DEF open, Walked, OnlyFilesOpen
<1>2. CASE resolve_path
  <2> DEFINE s == Skipped(name)
             k == strchr(s, Slash)
             component == strncpy(s, k - 1)
             new_dir == fs_finddir(dir, component)
  <2>1. mode \in Modes /\ depth \in 1..3 /\ mode' = mode
    BY <1>2 DEF resolve_path, Walked, walk
  <2>2. dir \in Nodes \cup {Root, Mount} /\ fs_finddir(dir, s) \in Node \cup {Null}
    BY <1>2, FindDir DEF resolve_path, Walked, Node
  <2>3. CASE k = 0
    BY <1>2, <2>1, <2>2, <2>3 DEF resolve_path, Walked, walk, OnlyFilesOpen
  <2>7. CASE k # 0 /\ at' = "astray"
    BY <2>7 DEF Walked, OnlyFilesOpen
  <2>4. CASE k # 0 /\ new_dir = Null /\ at' # "astray"
    BY <1>2, <2>1, <2>4 DEF resolve_path, Walked, OnlyFilesOpen
  <2>5. CASE k # 0 /\ new_dir # Null /\ at' # "astray"
    <3>1. /\ at' = "walk" /\ dir' = new_dir /\ depth' = depth + 1
      BY <1>2, <2>5 DEF resolve_path
    <3>2. depth # 3
      BY <1>2, <2>5, FindDir DEF resolve_path, Walked
    <3>3. /\ depth = 1 => new_dir = Mount
          /\ depth = 2 => new_dir \in Nodes
      BY <1>2, <2>5, FindDir DEF resolve_path, Walked
    <3>4. QED
      BY <2>1, <3>1, <3>2, <3>3 DEF Walked, OnlyFilesOpen
  <2>6. QED
    BY <2>3, <2>4, <2>5, <2>7
<1>3. CASE Opened
  <2>1. mode \in Modes /\ mode' = mode /\ at' = "opened"
    BY <1>3 DEF Opened, Walked, walk
  <2>2. ASSUME NEW n \in Node, fs_open(n, mode) # Null
        PROVE  n \in Nodes /\ mode = 1
    <3>1. Has(n, "open") /\ initrd_open(Target(n), mode) # Null
      BY <2>2 DEF fs_open
    <3>2. mode = 1
      BY <2>1, <3>1 DEF initrd_open, Modes, O_WRITE
    <3>3. n \notin {Root, Mount, Initrd}
      BY <3>1, Nodes3 DEF Has, node, rootfs_node, mounted_node, initrd_root_node
    <3>4. QED
      BY <3>2, <3>3 DEF Node
  <2>3. OnlyFilesOpen'
    BY <1>3, <2>1, <2>2, Nodes3 DEF Opened, Walked, OnlyFilesOpen
  <2>4. QED
    BY <2>1, <2>3 DEF Walked
<1>4. ASSUME NEW n \in held, NEW i \in 0..Len(Names), fs_readdir(n, i) PROVE Walked'
  BY <1>4 DEF fs_readdir, Walked, OnlyFilesOpen
<1>5. ASSUME NEW n \in held, NEW o \in Offsets, NEW l \in Offsets, fs_read(n, o, l)
      PROVE  Walked'
  BY <1>5 DEF fs_read, Walked, OnlyFilesOpen
<1>6. ASSUME NEW n \in held, close(n) PROVE Walked'
  BY <1>6 DEF close, Walked, OnlyFilesOpen
<1>7. CASE Return
  BY <1>7 DEF Return, Walked, OnlyFilesOpen
<1>8. CASE UNCHANGED vars
  BY <1>8 DEF vars, walk, Walked, OnlyFilesOpen
<1>9. QED
  BY <1>1, <1>2, <1>3, <1>4, <1>5, <1>6, <1>7, <1>8 DEF Next, Astray

LEMMA WalkedInvariant == Spec => []Walked
<1>1. init_fs => Walked
  BY DEF init_fs, Walked, OnlyFilesOpen
<1>2. QED
  BY <1>1, WalkedStep, PTL DEF Spec

(* resolve_path is never more than three calls deep, however many          *)
(* components the path has and whatever the ramdisk holds.                 *)
THEOREM AlwaysShallow == Spec => []WalkIsShallow
<1>1. Walked => WalkIsShallow
  BY DEF Walked, WalkIsShallow
<1>2. QED
  BY <1>1, WalkedInvariant, PTL

(* What open returns is a file of the ramdisk, opened for reading.         *)
THEOREM AlwaysFiles == Spec => []OnlyFilesOpen
<1>1. Walked => OnlyFilesOpen
  BY DEF Walked
<1>2. QED
  BY <1>1, WalkedInvariant, PTL

-----------------------------------------------------------------------------
(***************************************************************************)
(* libc/string.c: what strchr finds, and what a name becomes in an array.  *)
(***************************************************************************)
(* Every set of numbers has a least one, since the order of the numbers is *)
(* well-founded.                                                           *)
LEMMA LeastNumber ==
  ASSUME NEW N \in SUBSET Nat, N # {}
  PROVE  \E k \in N : \A l \in N : k <= l
<1> DEFINE Below == OpToRel(<, Nat)
<1>1. IsWellFoundedOn(Below, Nat)
  BY NatLessThanWellFounded
<1>2. \A l, k \in Nat : l < k => <<l, k>> \in Below
  BY DEF OpToRel
<1> HIDE DEF Below
<1>3. PICK k \in N : \A l \in N : ~ (<<l, k>> \in Below)
  BY <1>1, WFMin
<1>4. \A l \in N : k <= l
  <2> SUFFICES ASSUME NEW l \in N PROVE k <= l
    OBVIOUS
  <2>1. k \in Nat /\ l \in Nat /\ ~ (l < k)
    BY <1>2, <1>3
  <2> QED BY <2>1
<1> QED BY <1>4, Zenon

LEMMA MinOf ==
  ASSUME NEW I \in SUBSET Nat, I # {}
  PROVE  Min(I) \in I /\ \A i \in I : Min(I) <= i
<1>1. \E k \in I : \A l \in I : k <= l
  BY LeastNumber
<1> QED BY <1>1 DEF Min

LEMMA FirstAt ==
  ASSUME NEW S, NEW s \in Seq(S), NEW c
  PROVE  /\ strchr(s, c) \in 0..Len(s)
         /\ strchr(s, c) = 0 => \A i \in 1..Len(s) : s[i] # c
         /\ strchr(s, c) # 0 => /\ s[strchr(s, c)] = c
                               /\ \A i \in 1..strchr(s, c) - 1 : s[i] # c
<1> DEFINE I == {i \in 1..Len(s) : s[i] = c}
<1>1. strchr(s, c) = IF I # {} THEN Min(I) ELSE 0
  BY DEF strchr, SelectInSeq
<1>2. I \in SUBSET Nat /\ Len(s) \in Nat
  OBVIOUS
<1>3. CASE I = {}
  <2>1. \A i \in 1..Len(s) : s[i] # c
    BY <1>3
  <2> HIDE DEF I
  <2> QED BY <1>1, <1>2, <1>3, <2>1
<1>4. CASE I # {}
  <2> DEFINE k == Min(I)
  <2>1. k \in I /\ \A i \in I : k <= i
    BY <1>2, <1>4, MinOf
  <2> HIDE DEF k
  <2>2. k \in 1..Len(s) /\ s[k] = c
    BY <2>1
  <2>3. \A i \in 1..k - 1 : s[i] # c
    <3> SUFFICES ASSUME NEW i \in 1..k - 1, s[i] = c PROVE FALSE
      OBVIOUS
    <3>1. i \in I /\ ~ (k <= i)
      BY <2>2, <1>2
    <3> QED BY <2>1, <3>1
  <2>4. strchr(s, c) = k
    BY <1>1, <1>4 DEF k
  <2> HIDE DEF I
  <2> QED BY <1>2, <2>2, <2>3, <2>4
<1> QED BY <1>3, <1>4

(* A name in an array of FILENAME_MAX characters that held NUL behind it.  *)
Array(s) == [i \in 1..FilenameMax |-> IF i <= Len(s) THEN s[i] ELSE NUL]

Arrays == [1..FilenameMax -> Char \cup {NUL}]

LEMMA NameSeq ==
  ASSUME NEW s, IsName(s)
  PROVE  /\ s \in Seq(Char) /\ Len(s) \in Nat /\ Len(s) >= 1 /\ Len(s) + 1 <= FilenameMax
         /\ FilenameMax \in Nat
         /\ \A i \in 1..Len(s) : s[i] \in Char /\ s[i] # Slash /\ s[i] # NUL
<1>1. s \in Seq(Char \ {Slash}) /\ Len(s) \in 1..FilenameMax - 1
  BY DEF IsName
<1>2. FilenameMax \in Nat /\ NUL \notin Char
  BY FileSystemAssumption
<1>3. s \in Seq(Char)
  BY <1>1
<1>4. \A i \in 1..Len(s) : s[i] \in Char \ {Slash}
  BY <1>1, LenProperties
<1> QED BY <1>1, <1>2, <1>3, <1>4

LEMMA Copying ==
  ASSUME NEW s, IsName(s), NEW d \in Arrays,
         \A i \in Len(s) + 1..FilenameMax : d[i] = NUL
  PROVE  strcpy(d, s) = Array(s)
<1> DEFINE n == Len(s)
           m == FilenameMax
           t == SubSeq(d, n + 1, m)
           A == Char \cup {NUL}
<1>1. /\ s \in Seq(Char) /\ n \in Nat /\ m \in Nat /\ n + 1 <= m
  BY NameSeq
<1>2. s \in Seq(A) /\ d \in Seq(A) /\ Len(d) = m
  <2>1. d \in [1..m -> A] /\ DOMAIN d = 1..m
    BY DEF Arrays
  <2>2. d \in Seq(A)
    BY <1>1, <2>1, SeqDef
  <2>3. Len(d) = m
    BY <1>1, <2>1, <2>2, LenProperties
  <2> QED BY <1>1, <2>2, <2>3
<1>3. /\ t \in Seq(A) /\ Len(t) = m - n
      /\ \A i \in 1..m - n : t[i] = NUL
  <2>1. \A i \in n + 1..m : d[i] \in A
    BY <1>1 DEF Arrays
  <2>2. /\ t \in Seq(A)
        /\ Len(t) = IF n + 1 <= m THEN m - (n + 1) + 1 ELSE 0
        /\ \A i \in 1..m - (n + 1) + 1 : t[i] = d[n + 1 + i - 1]
    BY <1>1, <1>2, <2>1, SubSeqProperties
  <2> HIDE DEF t
  <2>3. m - (n + 1) + 1 = m - n
    BY <1>1
  <2>4. \A i \in 1..m - n : n + 1 + i - 1 \in n + 1..m
    BY <1>1
  <2> QED BY <1>1, <2>2, <2>3, <2>4
<1> DEFINE c == s \o t
<1> HIDE DEF t
<1>4. /\ c \in Seq(A) /\ Len(c) = n + (m - n)
      /\ \A i \in 1..n + (m - n) : c[i] = IF i <= n THEN s[i] ELSE t[i - n]
  BY <1>2, <1>3, ConcatProperties
<1>5. Array(s) \in Seq(A) /\ Len(Array(s)) = m
  <2>1. \A i \in 1..n : s[i] \in A
    BY <1>2, LenProperties
  <2>2. Array(s) \in [1..m -> A]
    BY <1>1, <2>1 DEF Array
  <2>3. Array(s) \in Seq(A)
    BY <1>1, <2>2, SeqDef
  <2> QED BY <1>1, <2>2, <2>3, LenProperties
<1> HIDE DEF c
<1>6. Len(c) = Len(Array(s))
  BY <1>1, <1>4, <1>5
<1>7. \A i \in 1..Len(c) : c[i] = Array(s)[i]
  <2> SUFFICES ASSUME NEW i \in 1..Len(c) PROVE c[i] = Array(s)[i]
    OBVIOUS
  <2>1. i \in 1..m /\ n + (m - n) = m
    BY <1>1, <1>4
  <2>2. Array(s)[i] = IF i <= n THEN s[i] ELSE NUL
    BY <2>1 DEF Array
  <2>3. c[i] = IF i <= n THEN s[i] ELSE t[i - n]
    BY <1>4, <2>1
  <2>4. ~ (i <= n) => i - n \in 1..m - n
    BY <1>1, <2>1
  <2> QED BY <1>3, <2>2, <2>3, <2>4
<1>8. c = Array(s)
  BY <1>4, <1>5, <1>6, <1>7, SeqEqual
<1>9. strcpy(d, s) = c
  BY <1>2 DEF strcpy, c, t
<1> QED BY <1>8, <1>9

LEMMA ReadBack ==
  ASSUME NEW s, IsName(s)
  PROVE  Array(s) \in Arrays /\ String(Array(s)) = s
<1> DEFINE n == Len(s)
           m == FilenameMax
           a == Array(s)
           A == Char \cup {NUL}
           k == strchr(a, NUL)
<1>1. /\ s \in Seq(Char) /\ n \in Nat /\ m \in Nat /\ n + 1 <= m
      /\ \A i \in 1..n : s[i] \in Char /\ s[i] # NUL
  BY NameSeq
<1>2. a \in Arrays
  BY <1>1 DEF Array, Arrays
<1>3. a \in Seq(A) /\ Len(a) = m
  <2>1. a \in [1..m -> A] /\ DOMAIN a = 1..m
    BY <1>2 DEF Arrays
  <2> HIDE DEF a
  <2>2. a \in Seq(A)
    BY <1>1, <2>1, SeqDef
  <2> QED BY <1>1, <2>1, <2>2, LenProperties
<1>4. \A i \in 1..m : a[i] = IF i <= n THEN s[i] ELSE NUL
  BY DEF Array
<1> HIDE DEF a
<1>5. /\ k \in 0..m
      /\ k = 0 => \A i \in 1..m : a[i] # NUL
      /\ k # 0 => a[k] = NUL /\ \A i \in 1..k - 1 : a[i] # NUL
  BY <1>3, FirstAt
<1> HIDE DEF k
<1>6. k = n + 1
  <2>1. n + 1 \in 1..m /\ a[n + 1] = NUL
    BY <1>1, <1>4
  <2>2. \A i \in 1..n : a[i] # NUL
    BY <1>1, <1>4
  <2>3. k # 0
    BY <1>5, <2>1
  <2>4. ~ (k <= n)
    BY <1>1, <1>5, <2>2, <2>3
  <2>5. ~ (n + 1 < k)
    BY <1>1, <1>5, <2>1, <2>3
  <2> QED BY <1>1, <1>5, <2>4, <2>5
<1> DEFINE t == SubSeq(a, 1, n)
<1>7. /\ t \in Seq(A) /\ Len(t) = n /\ \A i \in 1..n : t[i] = a[i]
  <2>1. \A i \in 1..n : a[i] \in A
    BY <1>1, <1>4
  <2> QED BY <1>1, <1>3, <2>1, SubSeqProperties
<1>8. \A i \in 1..n : t[i] = s[i]
  BY <1>1, <1>4, <1>7
<1> HIDE DEF t
<1>9. t = s
  BY <1>1, <1>7, <1>8, SeqEqual
<1>10. String(a) = SubSeq(a, 1, k - 1) /\ k - 1 = n
  BY <1>1, <1>6 DEF String, k
<1>11. String(a) = s
  BY <1>9, <1>10 DEF t
<1> QED BY <1>2, <1>11 DEF a

-----------------------------------------------------------------------------
(***************************************************************************)
(* What readdir finds in the static entries, and what read copies.         *)
(***************************************************************************)
LEMMA Constants ==
  /\ IsName(MountName) /\ \A f \in Nodes : IsName(Names[f])
  /\ Len(Names) \in Nat /\ FilenameMax \in Nat
  /\ Zeros \in Arrays /\ \A i \in 1..FilenameMax : Zeros[i] = NUL
<1>1. Names \in Seq(Seq(Char)) /\ FilenameMax \in Nat
  BY FileSystemAssumption
<1> QED BY <1>1, FileSystemAssumption DEF Zeros, Arrays

LEMMA CopiedToZeros ==
  ASSUME NEW s, IsName(s)
  PROVE  strcpy(Zeros, s) = Array(s)
<1>1. \A i \in Len(s) + 1..FilenameMax : Zeros[i] = NUL
  <2>1. Len(s) \in Nat /\ FilenameMax \in Nat
    BY NameSeq
  <2>2. Len(s) + 1..FilenameMax \subseteq 1..FilenameMax
    BY <2>1
  <2> QED BY <2>2, Constants
<1> QED BY <1>1, Constants, Copying

LEMMA CopiedAgain ==
  ASSUME NEW s, IsName(s)
  PROVE  strcpy(Array(s), s) = Array(s)
<1>1. \A i \in Len(s) + 1..FilenameMax : Array(s)[i] = NUL
  <2>1. Len(s) \in Nat /\ FilenameMax \in Nat
    BY NameSeq
  <2>2. \A i \in Len(s) + 1..FilenameMax : i \in 1..FilenameMax /\ ~ (i <= Len(s))
    BY <2>1
  <2> QED BY <2>2 DEF Array
<1> QED BY <1>1, ReadBack, Copying

(* Every node has the name of its file, or of the mount point.             *)
LEMMA NodeNames ==
  /\ String(mounted_node.name) = MountName
  /\ \A f \in Nodes : String(initrd_node(f).name) = Names[f]
<1>1. mounted_node.name = Array(MountName)
  BY Constants, CopiedToZeros DEF mounted_node, initrd_root_node
<1>2. \A f \in Nodes : initrd_node(f).name = Array(Names[f])
  BY Constants, CopiedToZeros DEF initrd_node
<1> QED BY <1>1, <1>2, Constants, ReadBack

Entries ==
  /\ rootfs_dirent \in {Zeros, Array(MountName)}
  /\ initrd_dirent \in Arrays

LEMMA RootEntry ==
  ASSUME Entries, NEW n, NEW i \in 0..Len(Names), rootfs_readdir(n, i)
  PROVE  /\ rootfs_dirent' \in {Zeros, Array(MountName)}
         /\ ret' = IF i + 1 \in 1..1 THEN <<n, i, MountName>> ELSE <<n, i>>
<1>1. CASE i < 1
  <2>1. strcpy(rootfs_dirent, MountName) = Array(MountName)
    BY Constants, CopiedToZeros, CopiedAgain DEF Entries
  <2>2. rootfs_dirent' = Array(MountName) /\ ret' = <<n, i, String(rootfs_dirent')>>
    BY <1>1, <2>1, NodeNames DEF rootfs_readdir
  <2>3. String(Array(MountName)) = MountName
    BY Constants, ReadBack
  <2>4. i + 1 \in 1..1
    BY <1>1, Constants
  <2> QED BY <2>2, <2>3, <2>4
<1>2. CASE ~ (i < 1)
  <2>1. i + 1 \notin 1..1
    BY <1>2, Constants
  <2> QED BY <1>2, <2>1 DEF rootfs_readdir, Entries
<1> QED BY <1>1, <1>2

LEMMA InitrdEntry ==
  ASSUME Entries, NEW n, NEW i \in 0..Len(Names), initrd_readdir(n, i)
  PROVE  /\ initrd_dirent' \in Arrays
         /\ ret' = IF n = Initrd /\ i + 1 \in Nodes THEN <<n, i, Names[i + 1]>> ELSE <<n, i>>
<1>1. (i + 1 \in Nodes) <=> (i < Len(Names))
  BY Constants DEF Nodes
<1>2. CASE n = Initrd /\ i < Len(Names)
  <2> DEFINE f == i + 1
  <2>1. f \in Nodes /\ IsName(Names[f]) /\ String(initrd_node(f).name) = Names[f]
    BY <1>1, <1>2, Constants, NodeNames
  <2>2. /\ initrd_dirent' = strcpy(Zeros, String(initrd_node(f).name))
        /\ ret' = <<n, i, String(initrd_dirent')>>
    BY <1>2 DEF initrd_readdir
  <2> HIDE DEF f
  <2>3. initrd_dirent' = Array(Names[f])
    BY <2>1, <2>2, CopiedToZeros
  <2>4. Array(Names[f]) \in Arrays /\ String(Array(Names[f])) = Names[f]
    BY <2>1, ReadBack
  <2> QED BY <1>2, <2>1, <2>2, <2>3, <2>4 DEF f
<1>3. CASE ~ (n = Initrd /\ i < Len(Names))
  BY <1>1, <1>3 DEF initrd_readdir, Entries
<1> QED BY <1>2, <1>3

LEMMA Directories ==
  /\ Has(Root, "readdir") /\ IsDirectory(Root)
  /\ Has(Initrd, "readdir") /\ IsDirectory(Initrd)
  /\ \A f \in Nodes : /\ ~ Has(f, "readdir") /\ Has(f, "read")
<1>1. /\ node(Root) = rootfs_node /\ node(Initrd) = initrd_root_node
      /\ \A f \in Nodes : node(f) = initrd_node(f)
  BY Nodes3 DEF node
<1>2. 2 % 8 = 2
  OBVIOUS
<1> QED BY <1>1, <1>2 DEF Has, IsDirectory, rootfs_node, initrd_root_node, initrd_node,
                          FS_DIRECTORY

LEMMA EntryStep ==
  ASSUME Entries, NEW n \in Node, NEW i \in 0..Len(Names), fs_readdir(n, i)
  PROVE  Entries' /\ EntriesNamed'
<1>1. /\ at' = "entry"
      /\ IF Has(n, "readdir") /\ IsDirectory(n)
         THEN IF n = Root THEN rootfs_readdir(n, i) /\ UNCHANGED initrd_dirent
              ELSE initrd_readdir(n, i) /\ UNCHANGED rootfs_dirent
         ELSE ret' = <<n, i>> /\ UNCHANGED dirents
  BY DEF fs_readdir
<1>2. CASE n = Root
  <2>1. rootfs_readdir(n, i) /\ UNCHANGED initrd_dirent
    BY <1>1, <1>2, Directories
  <2>2. /\ rootfs_dirent' \in {Zeros, Array(MountName)}
        /\ ret' = IF i + 1 \in 1..1 THEN <<n, i, MountName>> ELSE <<n, i>>
    BY <2>1, RootEntry
  <2>3. ret'[1] = n /\ ret'[2] = i
    BY <2>2
  <2>4. Len(<<MountName>>) = 1 /\ (i + 1 \in 1..1 => <<MountName>>[i + 1] = MountName)
    OBVIOUS
  <2>5. EntriesNamed'
    BY <1>2, <2>2, <2>3, <2>4 DEF EntriesNamed
  <2> QED BY <2>1, <2>2, <2>5 DEF Entries
<1>3. CASE n = Initrd
  <2>1. initrd_readdir(n, i) /\ UNCHANGED rootfs_dirent
    BY <1>1, <1>3, Directories, Nodes3
  <2>2. /\ initrd_dirent' \in Arrays
        /\ ret' = IF i + 1 \in Nodes THEN <<n, i, Names[i + 1]>> ELSE <<n, i>>
    BY <1>3, <2>1, InitrdEntry
  <2>3. ret'[1] = n /\ ret'[2] = i
    BY <2>2
  <2>4. EntriesNamed'
    BY <1>3, <2>2, <2>3, Nodes3 DEF EntriesNamed, Nodes
  <2> QED BY <2>1, <2>2, <2>4 DEF Entries
<1>4. CASE n \notin {Root, Initrd}
  <2>1. /\ ret' = <<n, i>>
        /\ rootfs_dirent' = rootfs_dirent /\ initrd_dirent' \in Arrays
    <3>1. CASE Has(n, "readdir") /\ IsDirectory(n)
      BY <1>1, <1>4, <3>1, InitrdEntry
    <3>2. CASE ~ (Has(n, "readdir") /\ IsDirectory(n))
      BY <1>1, <3>2 DEF dirents, Entries
    <3> QED BY <3>1, <3>2
  <2>2. EntriesNamed'
    <3>1. ret'[1] = n /\ ret'[2] = i /\ i + 1 \notin 1..Len(<<>>)
      BY <2>1
    <3> QED BY <1>4, <2>1, <3>1 DEF EntriesNamed
  <2> QED BY <2>1, <2>2 DEF Entries
<1> QED BY <1>2, <1>3, <1>4

(* A u32 that is the size less the offset does not overflow inside a file. *)
LEMMA ReadStep ==
  ASSUME NEW n, NEW o \in Offsets, NEW l \in Offsets, fs_read(n, o, l)
  PROVE  ReadsInside'
<1>1. at' = "data"
      /\ ret' = <<n, o, l, IF Has(n, "read") THEN initrd_read(n, o, l) ELSE 0>>
  BY DEF fs_read
<1>2. ret'[1] = n /\ ret'[2] = o /\ ret'[3] = l
      /\ (n \in Nodes => ret'[4] = initrd_read(n, o, l))
  BY <1>1, Directories
<1> SUFFICES ASSUME n \in Nodes, o <= Sizes[n]
             PROVE  LET r == initrd_read(n, o, l)
                    IN  /\ o + r <= Sizes[n] /\ r <= l
                        /\ r < l => o + r = Sizes[n]
  BY <1>2, Zenon DEF ReadsInside
<1> DEFINE z == Sizes[n]
<1>3. z \in 0..Wrap - 1 /\ o \in 0..Wrap - 1 /\ l \in 0..Wrap - 1 /\ Wrap \in Nat \ {0}
  BY FileSystemAssumption
<1>4. (Sizes[n] + Wrap - o) % Wrap = z - o
  <2> HIDE DEF z
  <2>1. z + Wrap - o = 1 * Wrap + (z - o) /\ z - o \in 0..Wrap - 1
    BY <1>3 DEF z
  <2>2. \A a, r \in Nat : a = 1 * Wrap + r /\ r < Wrap => a % Wrap = r
    BY <1>3
  <2>3. z + Wrap - o \in Nat
    BY <1>3, <2>1
  <2>4. (z + Wrap - o) % Wrap = z - o
    BY <1>3, <2>1, <2>2, <2>3
  <2> QED BY <2>4 DEF z
<1>5. initrd_read(n, o, l) = IF l <= z - o THEN l ELSE z - o
  BY <1>4 DEF initrd_read
<1> HIDE DEF z
<1> QED BY <1>3, <1>5 DEF z

-----------------------------------------------------------------------------
(***************************************************************************)
(* The name that resolve_path is left with is the rest of the path.        *)
(***************************************************************************)
(* t is s without its first a characters.                                  *)
Rest(t, s, a) ==
  /\ a \in 0..Len(s) /\ Len(t) = Len(s) - a
  /\ \A i \in 1..Len(t) : t[i] = s[a + i]

LEMMA RestOfRest ==
  ASSUME NEW s \in Seq(Char), NEW t \in Seq(Char), NEW u \in Seq(Char),
         NEW a, NEW b, Rest(t, s, a), Rest(u, t, b)
  PROVE  Rest(u, s, a + b)
<1>1. /\ Len(s) \in Nat /\ Len(t) \in Nat /\ Len(u) \in Nat
      /\ a \in 0..Len(s) /\ Len(t) = Len(s) - a
      /\ b \in 0..Len(t) /\ Len(u) = Len(t) - b
      /\ (\A i \in 1..Len(t) : t[i] = s[a + i]) /\ (\A i \in 1..Len(u) : u[i] = t[b + i])
  BY DEF Rest
<1>2. a + b \in 0..Len(s) /\ Len(u) = Len(s) - (a + b)
  BY <1>1
<1>3. \A i \in 1..Len(u) : u[i] = s[(a + b) + i]
  <2> SUFFICES ASSUME NEW i \in 1..Len(u) PROVE u[i] = s[(a + b) + i]
    OBVIOUS
  <2>1. b + i \in 1..Len(t) /\ a + (b + i) = (a + b) + i
    BY <1>1
  <2>2. t[b + i] = s[a + (b + i)] /\ u[i] = t[b + i]
    BY <1>1, <2>1
  <2> QED BY <2>1, <2>2
<1> QED BY <1>2, <1>3 DEF Rest

LEMMA RestFrom ==
  ASSUME NEW s \in Seq(Char), NEW k \in 1..Len(s)
  PROVE  /\ SubSeq(s, k, Len(s)) \in Seq(Char)
         /\ Rest(SubSeq(s, k, Len(s)), s, k - 1)
<1> DEFINE n == Len(s)
           t == SubSeq(s, k, n)
<1>1. n \in Nat /\ k \in 1..n /\ k \in Int /\ n \in Int
  BY LenProperties
<1>2. \A i \in k..n : s[i] \in Char
  <2>1. \A i \in 1..n : s[i] \in Char
    BY LenProperties
  <2> HIDE DEF n
  <2>2. k..n \subseteq 1..n
    BY <1>1
  <2> QED BY <2>1, <2>2
<1>3. /\ t \in Seq(Char)
      /\ Len(t) = IF k <= n THEN n - k + 1 ELSE 0
      /\ \A i \in 1..n - k + 1 : t[i] = s[k + i - 1]
  BY <1>1, <1>2, SubSeqProperties
<1> HIDE DEF t
<1>4. k - 1 \in 0..n /\ Len(t) = n - (k - 1) /\ n - (k - 1) = n - k + 1
  BY <1>1, <1>3
<1>5. \A i \in 1..n - k + 1 : (k - 1) + i = k + i - 1
  BY <1>1
<1> HIDE DEF n
<1>6. \A i \in 1..Len(t) : t[i] = s[(k - 1) + i]
  BY <1>3, <1>4, <1>5
<1>7. Rest(t, s, k - 1)
  BY <1>4, <1>6 DEF Rest, n
<1> QED BY <1>3, <1>7 DEF t, n

(* The slashes in front are skipped, and nothing else.                     *)
LEMMA Skipping ==
  ASSUME NEW s \in Seq(Char)
  PROVE  /\ Skipped(s) \in Seq(Char)
         /\ Len(Skipped(s)) > 0 => Skipped(s)[1] # Slash
         /\ \E a \in 0..Len(s) :
              Rest(Skipped(s), s, a) /\ \A i \in 1..a : s[i] = Slash
<1> DEFINE I == {i \in 1..Len(s) : s[i] # Slash}
           k == SelectInSeq(s, LAMBDA e : e # Slash)
           n == Len(s)
<1>1. k = IF I # {} THEN Min(I) ELSE 0
  BY DEF SelectInSeq
<1>2. Skipped(s) = IF k = 0 THEN <<>> ELSE SubSeq(s, k, Len(s))
  BY DEF Skipped
<1>3. I \in SUBSET Nat /\ n \in Nat
  BY LenProperties
<1> HIDE DEF k
<1>4. CASE I = {}
  <2>1. Skipped(s) = <<>>
    BY <1>1, <1>2, <1>4
  <2>2. \A i \in 1..n : s[i] = Slash
    BY <1>4
  <2>3. Rest(<<>>, s, n)
    BY <1>3 DEF Rest
  <2>4. <<>> \in Seq(Char) /\ Len(<<>>) = 0 /\ n \in 0..Len(s)
    BY <1>3
  <2> QED BY <2>1, <2>2, <2>3, <2>4
<1>5. CASE I # {}
  <2> DEFINE m == Min(I)
  <2>1. m \in I /\ \A i \in I : m <= i
    BY <1>3, <1>5, MinOf
  <2>2. k = m
    BY <1>1, <1>5
  <2> HIDE DEF m
  <2>3. m \in 1..n /\ s[m] # Slash /\ m \in Nat
    BY <1>3, <2>1
  <2>4. \A i \in 1..m - 1 : s[i] = Slash
    <3> SUFFICES ASSUME NEW i \in 1..m - 1, s[i] # Slash PROVE FALSE
      OBVIOUS
    <3>1. i \in I /\ ~ (m <= i)
      BY <1>3, <2>3
    <3> QED BY <2>1, <3>1
  <2>5. Skipped(s) = SubSeq(s, m, Len(s))
    BY <1>2, <2>2, <2>3
  <2>6. Skipped(s) \in Seq(Char) /\ Rest(Skipped(s), s, m - 1)
    BY <2>3, <2>5, RestFrom
  <2>7. m - 1 \in 0..Len(s) /\ (m - 1) + 1 = m
    BY <2>3, <1>3
  <2>8. Len(Skipped(s)) > 0 => Skipped(s)[1] = s[(m - 1) + 1]
    <3>1. Len(Skipped(s)) \in Nat
      BY <2>6, LenProperties
    <3>2. Len(Skipped(s)) > 0 => 1 \in 1..Len(Skipped(s))
      BY <3>1
    <3> QED BY <2>6, <3>2 DEF Rest
  <2> QED BY <2>3, <2>4, <2>6, <2>7, <2>8
<1> QED BY <1>4, <1>5

(* What resolve_path copies to curr_name is a piece of the path without a  *)
(* slash, and what it goes on with is the rest behind it.                  *)
LEMMA Component ==
  ASSUME NEW s \in Seq(Char), NEW k, k = strchr(s, Slash), k # 0
  PROVE  /\ k \in 1..Len(s) /\ s[k] = Slash
         /\ strncpy(s, k - 1) \in Seq(Char) /\ Len(strncpy(s, k - 1)) = k - 1
         /\ \A i \in 1..k - 1 : strncpy(s, k - 1)[i] = s[i] /\ s[i] # Slash
<1> DEFINE c == SubSeq(s, 1, k - 1)
<1>1. /\ Len(s) \in Nat /\ k \in 1..Len(s) /\ s[k] = Slash
      /\ \A i \in 1..k - 1 : s[i] # Slash
  <2>1. /\ k \in 0..Len(s) /\ s[k] = Slash
        /\ \A i \in 1..k - 1 : s[i] # Slash
    BY FirstAt
  <2> QED BY <2>1, LenProperties
<1>2. strncpy(s, k - 1) = c
  <2>1. ~ (k - 1 > Len(s))
    BY <1>1
  <2> QED BY <2>1 DEF strncpy
<1>3. \A i \in 1..k - 1 : s[i] \in Char
  <2>1. \A i \in 1..Len(s) : s[i] \in Char
    BY LenProperties
  <2>2. 1..k - 1 \subseteq 1..Len(s)
    BY <1>1
  <2> QED BY <2>1, <2>2
<1>4. c \in Seq(Char) /\ Len(c) = k - 1 /\ \A i \in 1..k - 1 : c[i] = s[i]
  <2>1. /\ c \in Seq(Char)
        /\ Len(c) = IF 1 <= k - 1 THEN k - 1 - 1 + 1 ELSE 0
        /\ \A i \in 1..k - 1 - 1 + 1 : c[i] = s[1 + i - 1]
    <3>1. 1 \in Int /\ k - 1 \in Int
      BY <1>1
    <3> QED BY <1>3, <3>1, SubSeqProperties
  <2> HIDE DEF c
  <2>2. k - 1 - 1 + 1 = k - 1 /\ \A i \in 1..k - 1 : 1 + i - 1 = i
    BY <1>1
  <2> QED BY <1>1, <2>1, <2>2
<1> HIDE DEF c
<1> QED BY <1>1, <1>2, <1>4

Fits ==
  /\ at = "walk" => \E d \in 0..Len(path) : Rest(name, path, d)
  /\ at \notin {"walk", "found", "opened", "astray"} => copied = 0
  /\ CurrNameFits

LEMMA ComponentFits ==
  ASSUME NEW p \in Seq(Char), NEW s \in Seq(Char), NEW d, Rest(s, p, d),
         NEW k \in 1..Len(s), \A i \in 1..k - 1 : s[i] # Slash, k > FilenameMax
  PROVE  Overlong(p)
<1>1. /\ Len(p) \in Nat /\ Len(s) \in Nat /\ d \in 0..Len(p) /\ Len(s) = Len(p) - d
      /\ k \in 1..Len(s) /\ \A i \in 1..Len(s) : s[i] = p[d + i]
  BY LenProperties DEF Rest
<1>2. FilenameMax \in Nat /\ FilenameMax > 1
  BY Constants, NameSeq
<1> DEFINE i == d + 1
           j == d + (k - 1)
<1>3. i \in 1..Len(p) /\ j \in 1..Len(p) /\ j - i + 1 >= FilenameMax
  BY <1>1, <1>2
<1>4. \A l \in i..j : p[l] # Slash
  <2> SUFFICES ASSUME NEW l \in i..j PROVE p[l] # Slash
    OBVIOUS
  <2>1. l - d \in 1..k - 1 /\ l - d \in 1..Len(s) /\ d + (l - d) = l
    BY <1>1
  <2> QED BY <1>1, <2>1
<1> HIDE DEF i, j
<1> QED BY <1>3, <1>4 DEF Overlong

FileInv == Walked /\ TypeOK /\ Entries /\ EntriesNamed /\ ReadsInside /\ Fits

LEMMA EntriesTyped ==
  ASSUME Entries
  PROVE  \A a \in {rootfs_dirent, initrd_dirent} : a \in [1..FilenameMax -> Char \cup {NUL}]
BY Constants, ReadBack DEF Entries, Arrays

LEMMA ResolveStep ==
  ASSUME FileInv, resolve_path, Walked'
  PROVE  FileInv'
<1> DEFINE s == Skipped(name)
           k == strchr(s, Slash)
           component == strncpy(s, k - 1)
           new_dir == fs_finddir(dir, component)
<1>1. /\ at = "walk" /\ name \in Seq(Char) /\ path \in Seq(Char) /\ mode \in 0..3
      /\ depth \in Nat /\ copied \in Nat /\ dir \in Node /\ held \subseteq Node
      /\ Entries /\ UNCHANGED <<held, dirents, path, mode>>
  BY DEF FileInv, TypeOK, resolve_path, walk
<1>2. PICK d \in 0..Len(path) : Rest(name, path, d)
  BY <1>1 DEF FileInv, Fits
<1>3. s \in Seq(Char) /\ \E a \in 0..Len(name) : Rest(s, name, a)
  BY <1>1, Skipping
<1>4. PICK e : Rest(s, path, e)
  BY <1>1, <1>2, <1>3, RestOfRest
<1> HIDE DEF s
<1>5. Entries' /\ rootfs_dirent' = rootfs_dirent /\ initrd_dirent' = initrd_dirent
  BY <1>1 DEF dirents, Entries
<1>6. at' \in {"walk", "found", "astray"}
  BY <1>1 DEF resolve_path, s
<1>7. EntriesNamed' /\ ReadsInside'
  BY <1>6 DEF EntriesNamed, ReadsInside
<1>8. fs_finddir(dir, s) \in Node \cup {Null} /\ new_dir \in Node \cup {Null}
  <2>1. dir \in Nodes \cup {Root, Mount}
    BY <1>1 DEF FileInv, Walked
  <2> HIDE DEF component
  <2> QED BY <2>1, FindDir DEF Node
<1>9. CASE k = 0
  <2>1. at' = "found" /\ ret' = <<fs_finddir(dir, s)>> /\ UNCHANGED walk
    BY <1>9 DEF resolve_path, s
  <2>2. TypeOK'
    BY <1>1, <1>5, <1>8, <2>1, EntriesTyped DEF TypeOK, walk
  <2>3. Fits'
    BY <2>1, <1>1 DEF Fits, FileInv, CurrNameFits, walk
  <2> QED BY <1>5, <1>7, <2>2, <2>3 DEF FileInv
<1>10. CASE k # 0
  <2>1. /\ copied' = Len(component) + 1
        /\ \/ /\ copied' > FilenameMax /\ at' = "astray"
              /\ UNCHANGED <<path, mode, name, dir, depth, ret>>
           \/ /\ at' = "found" /\ ret' = <<Null>>
              /\ UNCHANGED <<path, mode, name, dir, depth>>
           \/ /\ new_dir # Null /\ at' = at
              /\ name' = SubSeq(s, k, Len(s)) /\ dir' = new_dir
              /\ depth' = depth + 1
    BY <1>10 DEF resolve_path, s
  <2>2. /\ k \in 1..Len(s) /\ Len(component) = k - 1
        /\ \A i \in 1..k - 1 : s[i] # Slash
    BY <1>3, <1>10, Component
  <2>3. copied' = k /\ copied' \in Nat
    <3>1. Len(s) \in Nat
      BY <1>3, LenProperties
    <3> HIDE DEF k, component
    <3> QED BY <2>1, <2>2, <3>1
  <2>4. copied' > FilenameMax => Overlong(path)
    <3> HIDE DEF k
    <3> QED BY <1>1, <1>3, <1>4, <2>2, <2>3, ComponentFits
  <2>5. SubSeq(s, k, Len(s)) \in Seq(Char) /\ Rest(SubSeq(s, k, Len(s)), s, k - 1)
    BY <1>3, <2>2, RestFrom
  <2> HIDE DEF k, component, new_dir
  <2>6. CASE at' = "found" /\ ret' = <<Null>> /\ UNCHANGED <<path, mode, name, dir, depth>>
    <3>1. TypeOK'
      BY <1>1, <1>5, <2>3, <2>6, EntriesTyped DEF TypeOK
    <3>2. Fits'
      BY <2>6 DEF Fits, CurrNameFits
    <3> QED BY <1>5, <1>7, <3>1, <3>2 DEF FileInv
  <2>7. CASE /\ new_dir # Null /\ at' = at
             /\ name' = SubSeq(s, k, Len(s)) /\ dir' = new_dir
             /\ depth' = depth + 1
    <3>1. TypeOK'
      <4>1. name' \in Seq(Char) /\ dir' \in Node /\ depth' \in Nat
        BY <1>1, <1>8, <2>5, <2>7
      <4> QED BY <1>1, <1>5, <2>3, <2>7, <4>1, EntriesTyped DEF TypeOK
    <3>2. Rest(name', path, e + (k - 1))
      BY <1>1, <1>3, <1>4, <2>5, <2>7, RestOfRest
    <3>3. e + (k - 1) \in 0..Len(path)
      BY <3>2 DEF Rest
    <3>4. Fits'
      BY <1>1, <2>7, <3>2, <3>3 DEF Fits, CurrNameFits
    <3> QED BY <1>5, <1>7, <3>1, <3>4 DEF FileInv
  <2>8. CASE /\ copied' > FilenameMax /\ at' = "astray"
             /\ UNCHANGED <<path, mode, name, dir, depth, ret>>
    <3>1. TypeOK'
      BY <1>1, <1>5, <2>3, <2>8, EntriesTyped DEF TypeOK
    <3>2. Fits'
      BY <2>4, <2>8 DEF Fits, CurrNameFits
    <3> QED BY <1>5, <1>7, <3>1, <3>2 DEF FileInv
  <2> QED BY <2>1, <2>6, <2>7, <2>8
<1> QED BY <1>9, <1>10

LEMMA FileStep == FileInv /\ [Next]_vars => FileInv'
<1> SUFFICES ASSUME FileInv, [Next]_vars PROVE FileInv'
  OBVIOUS
<1>1. Walked'
  BY WalkedStep DEF FileInv
<1>2. TypeOK /\ Entries /\ Fits /\ held \subseteq Node
  BY DEF FileInv, TypeOK
<1>3. Entries' => \A a \in {rootfs_dirent, initrd_dirent}' :
                    a \in [1..FilenameMax -> Char \cup {NUL}]
  BY EntriesTyped, Constants, ReadBack DEF Entries, Arrays
<1>4. Root \in Node /\ \A p \in Paths : p \in Seq(Char)
  BY FileSystemAssumption DEF Node
<1>5. ASSUME NEW p \in Paths, NEW m \in Modes, open(p, m) PROVE FileInv'
  <2>1. /\ at = "idle" /\ at' = "walk" /\ path' = p /\ mode' = m /\ name' = p
        /\ dir' = Root /\ depth' = 1 /\ copied' = copied /\ held' = held /\ UNCHANGED dirents
    BY <1>5 DEF open
  <2>2. copied' = 0
    BY <1>2, <2>1 DEF Fits
  <2>3. Entries'
    BY <1>2, <2>1 DEF Entries, dirents
  <2>4. TypeOK'
    BY <1>2, <1>3, <1>4, <2>1, <2>2, <2>3 DEF TypeOK, Modes
  <2>5. Fits'
    <3>1. Rest(p, p, 0) /\ 0 \in 0..Len(p)
      BY <1>4, LenProperties DEF Rest
    <3> QED BY <2>1, <3>1 DEF Fits, CurrNameFits
  <2>6. EntriesNamed' /\ ReadsInside'
    BY <2>1 DEF EntriesNamed, ReadsInside
  <2> QED BY <1>1, <2>3, <2>4, <2>5, <2>6 DEF FileInv
<1>6. CASE resolve_path
  BY <1>1, <1>6, ResolveStep
<1>7. CASE Opened
  <2>1. at = "found" /\ at' = "opened" /\ UNCHANGED walk /\ UNCHANGED dirents
    BY <1>7 DEF Opened
  <2>2. Entries' /\ EntriesNamed' /\ ReadsInside'
    BY <1>2, <2>1 DEF Entries, dirents, EntriesNamed, ReadsInside
  <2>3. ret' \in {<<n>> : n \in Nodes \cup {Null}}
    <3>1. PICK n \in Node \cup {Null} : ret = <<n>>
      BY <2>1 DEF FileInv, Walked
    <3>2. ret' = <<n>> \/ ret' = <<Null>>
      BY <1>7, <3>1 DEF Opened
    <3>3. ret' # <<Null>> => ret'[1] \in Nodes
      BY <1>1, <2>1 DEF Walked, OnlyFilesOpen
    <3> QED BY <3>2, <3>3
  <2>4. held' \subseteq Node
    <3>1. held' = (held \cup {ret'[1]}) \ {Null} /\ ret'[1] \in Nodes \cup {Null}
      BY <1>7, <2>3 DEF Opened
    <3> QED BY <1>2, <3>1 DEF Node
  <2>5. TypeOK'
    BY <1>2, <1>3, <2>1, <2>2, <2>3, <2>4 DEF TypeOK, walk
  <2>6. Fits'
    BY <1>2, <2>1 DEF Fits, CurrNameFits, walk
  <2> QED BY <1>1, <2>2, <2>5, <2>6 DEF FileInv
<1>8. ASSUME NEW n \in held, NEW i \in 0..Len(Names), fs_readdir(n, i) PROVE FileInv'
  <2>1. at = "idle" /\ at' = "entry" /\ UNCHANGED walk /\ UNCHANGED held
    BY <1>8 DEF fs_readdir
  <2>2. Entries' /\ EntriesNamed'
    BY <1>2, <1>8, EntryStep
  <2>3. TypeOK'
    BY <1>2, <1>3, <2>1, <2>2 DEF TypeOK, walk
  <2>4. Fits' /\ ReadsInside'
    BY <1>2, <2>1 DEF Fits, CurrNameFits, ReadsInside, walk
  <2> QED BY <1>1, <2>2, <2>3, <2>4 DEF FileInv
<1>9. ASSUME NEW n \in held, NEW o \in Offsets, NEW l \in Offsets, fs_read(n, o, l)
      PROVE  FileInv'
  <2>1. at = "idle" /\ at' = "data" /\ UNCHANGED walk /\ UNCHANGED held /\ UNCHANGED dirents
    BY <1>9 DEF fs_read
  <2>2. Entries' /\ EntriesNamed'
    BY <1>2, <2>1 DEF Entries, dirents, EntriesNamed
  <2>3. ReadsInside'
    BY <1>9, ReadStep
  <2>4. TypeOK'
    BY <1>2, <1>3, <2>1, <2>2 DEF TypeOK, walk
  <2>5. Fits'
    BY <1>2, <2>1 DEF Fits, CurrNameFits, walk
  <2> QED BY <1>1, <2>2, <2>3, <2>4, <2>5 DEF FileInv
<1>10. ASSUME NEW n \in held, close(n) PROVE FileInv'
  <2>1. at = "idle" /\ at' = "closed" /\ UNCHANGED walk /\ UNCHANGED dirents
        /\ held' \subseteq held
    BY <1>10 DEF close
  <2>2. Entries' /\ EntriesNamed' /\ ReadsInside'
    BY <1>2, <2>1 DEF Entries, dirents, EntriesNamed, ReadsInside
  <2>3. TypeOK'
    BY <1>2, <1>3, <2>1, <2>2 DEF TypeOK, walk
  <2>4. Fits'
    BY <1>2, <2>1 DEF Fits, CurrNameFits, walk
  <2> QED BY <1>1, <2>2, <2>3, <2>4 DEF FileInv
<1>11. CASE Return
  <2>1. /\ at' = "idle" /\ path' = <<>> /\ mode' = 0 /\ name' = <<>> /\ dir' = Root
        /\ depth' = 0 /\ copied' = 0 /\ UNCHANGED held /\ UNCHANGED dirents
    BY <1>11 DEF Return
  <2>2. Entries' /\ EntriesNamed' /\ ReadsInside'
    BY <1>2, <2>1 DEF Entries, dirents, EntriesNamed, ReadsInside
  <2>3. TypeOK'
    BY <1>2, <1>3, <1>4, <2>1, <2>2, EmptySeq DEF TypeOK
  <2>4. Fits'
    BY <2>1, Constants DEF Fits, CurrNameFits
  <2> QED BY <1>1, <2>2, <2>3, <2>4 DEF FileInv
<1>12. CASE UNCHANGED vars
  BY <1>1, <1>12 DEF vars, walk, dirents, FileInv, TypeOK, Entries, EntriesNamed,
                    ReadsInside, Fits, CurrNameFits
<1>13. CASE Astray
  <2>1. UNCHANGED vars
    BY <1>13 DEF Astray
  <2> QED BY <1>12, <2>1
<1> QED BY <1>5, <1>6, <1>7, <1>8, <1>9, <1>10, <1>11, <1>12, <1>13 DEF Next

LEMMA FileInit == init_fs => FileInv
<1> SUFFICES ASSUME init_fs PROVE FileInv
  OBVIOUS
<1>1. /\ at = "idle" /\ path = <<>> /\ mode = 0 /\ name = <<>> /\ dir = Root
      /\ depth = 0 /\ copied = 0 /\ held = {Root, Initrd}
      /\ rootfs_dirent = Zeros /\ initrd_dirent = Zeros
  BY DEF init_fs
<1>2. Walked /\ EntriesNamed /\ ReadsInside
  BY <1>1 DEF Walked, OnlyFilesOpen, EntriesNamed, ReadsInside
<1>3. Entries
  BY <1>1, Constants DEF Entries
<1>4. TypeOK
  BY <1>1, <1>3, EntriesTyped, EmptySeq DEF TypeOK, Node
<1>5. Fits
  BY <1>1, Constants DEF Fits, CurrNameFits
<1> QED BY <1>2, <1>3, <1>4, <1>5 DEF FileInv

(* The inductive invariant of the file system: what the walk has reached,  *)
(* what the static entries hold, and which rest of the path is left.       *)
THEOREM FileInvHolds == Spec => []FileInv
BY FileInit, FileStep, PTL DEF Spec

-----------------------------------------------------------------------------
(***************************************************************************)
(* The only way to read a path.                                            *)
(***************************************************************************)
(* p is i slashes, m and q.                                                *)
Parsed(p, i, m, q) ==
  /\ Len(p) = i + Len(m) + Len(q)
  /\ \A l \in 1..i : p[l] = Slash
  /\ \A l \in 1..Len(m) : p[i + l] = m[l]
  /\ \A l \in 1..Len(q) : p[i + Len(m) + l] = q[l]

LEMMA SlashesAre ==
  ASSUME NEW n \in Nat
  PROVE  /\ Slashes(n) \in Seq(Char) /\ Len(Slashes(n)) = n
         /\ \A l \in 1..n : Slashes(n)[l] = Slash
<1> DEFINE t == Slashes(n)
<1>1. Slash \in Char
  BY FileSystemAssumption
<1>2. t \in [1..n -> Char] /\ DOMAIN t = 1..n /\ \A l \in 1..n : t[l] = Slash
  BY <1>1 DEF Slashes
<1> HIDE DEF t
<1>3. t \in Seq(Char)
  BY <1>2, SeqDef
<1>4. Len(t) = n
  BY <1>2, <1>3, LenProperties
<1> QED BY <1>2, <1>3, <1>4 DEF t

LEMMA Parsing ==
  ASSUME NEW p \in Seq(Char), NEW i \in Nat, NEW m \in Seq(Char), NEW q \in Seq(Char)
  PROVE  p = Slashes(i) \o m \o q <=> Parsed(p, i, m, q)
<1> DEFINE b == Slashes(i)
           c == b \o m
           d == c \o q
<1>1. b \in Seq(Char) /\ Len(b) = i /\ \A l \in 1..i : b[l] = Slash
  BY SlashesAre
<1>2. Len(p) \in Nat /\ Len(m) \in Nat /\ Len(q) \in Nat
  BY LenProperties
<1> HIDE DEF b
<1>3. /\ c \in Seq(Char) /\ Len(c) = i + Len(m)
      /\ \A l \in 1..i + Len(m) : c[l] = IF l <= i THEN b[l] ELSE m[l - i]
  BY <1>1, ConcatProperties
<1> HIDE DEF c
<1>4. /\ d \in Seq(Char) /\ Len(d) = i + Len(m) + Len(q)
      /\ \A l \in 1..i + Len(m) + Len(q) :
           d[l] = IF l <= i + Len(m) THEN c[l] ELSE q[l - (i + Len(m))]
  <2>1. /\ d \in Seq(Char) /\ Len(d) = Len(c) + Len(q)
        /\ \A l \in 1..Len(c) + Len(q) :
             d[l] = IF l <= Len(c) THEN c[l] ELSE q[l - Len(c)]
    <3>1. c \in Seq(Char) /\ q \in Seq(Char)
      BY <1>3
    <3> QED BY <3>1, ConcatProperties
  <2> HIDE DEF d
  <2>2. Len(c) = i + Len(m)
    BY <1>3
  <2> QED BY <2>1, <2>2
<1> HIDE DEF d
<1>5. Parsed(d, i, m, q)
  <2>1. \A l \in 1..i : d[l] = Slash
    <3> SUFFICES ASSUME NEW l \in 1..i PROVE d[l] = Slash
      OBVIOUS
    <3>1. /\ l \in 1..i + Len(m) + Len(q) /\ l <= i + Len(m)
          /\ l \in 1..i + Len(m) /\ l <= i
      BY <1>2
    <3> QED BY <1>1, <1>3, <1>4, <3>1
  <2>2. \A l \in 1..Len(m) : d[i + l] = m[l]
    <3> SUFFICES ASSUME NEW l \in 1..Len(m) PROVE d[i + l] = m[l]
      OBVIOUS
    <3>1. /\ i + l \in 1..i + Len(m) + Len(q) /\ i + l <= i + Len(m)
          /\ i + l \in 1..i + Len(m) /\ ~ (i + l <= i) /\ (i + l) - i = l
      BY <1>2
    <3> QED BY <1>3, <1>4, <3>1
  <2>3. \A l \in 1..Len(q) : d[i + Len(m) + l] = q[l]
    <3> SUFFICES ASSUME NEW l \in 1..Len(q) PROVE d[i + Len(m) + l] = q[l]
      OBVIOUS
    <3>1. /\ i + Len(m) + l \in 1..i + Len(m) + Len(q)
          /\ ~ (i + Len(m) + l <= i + Len(m)) /\ (i + Len(m) + l) - (i + Len(m)) = l
      BY <1>2
    <3> QED BY <1>4, <3>1
  <2> QED BY <1>4, <2>1, <2>2, <2>3 DEF Parsed
<1>6. ASSUME Parsed(p, i, m, q) PROVE p = d
  <2>1. Len(p) = Len(d)
    BY <1>4, <1>6 DEF Parsed
  <2>2. \A l \in 1..Len(p) : p[l] = d[l]
    <3> SUFFICES ASSUME NEW l \in 1..Len(p) PROVE p[l] = d[l]
      OBVIOUS
    <3>1. CASE l \in 1..i
      BY <1>5, <1>6, <3>1 DEF Parsed
    <3>2. CASE l - i \in 1..Len(m)
      <4>1. p[i + (l - i)] = d[i + (l - i)]
        BY <1>5, <1>6, <3>2 DEF Parsed
      <4>2. i + (l - i) = l
        BY <1>2
      <4> QED BY <4>1, <4>2
    <3>3. CASE l - (i + Len(m)) \in 1..Len(q)
      <4>1. p[i + Len(m) + (l - (i + Len(m)))] = d[i + Len(m) + (l - (i + Len(m)))]
        BY <1>5, <1>6, <3>3 DEF Parsed
      <4>2. i + Len(m) + (l - (i + Len(m))) = l
        BY <1>2
      <4> QED BY <4>1, <4>2
    <3>4. l \in 1..i \/ l - i \in 1..Len(m) \/ l - (i + Len(m)) \in 1..Len(q)
      BY <1>2, <1>4, <2>1
    <3> QED BY <3>1, <3>2, <3>3, <3>4
  <2> QED BY <1>4, <2>1, <2>2, SeqEqual
<1> QED BY <1>5, <1>6 DEF b, c, d

(* What is behind the slashes in front, up to the next slash, is m.        *)
LEMMA ParsedOnce ==
  ASSUME NEW p \in Seq(Char), NEW i \in Nat, NEW m, IsName(m), NEW q \in Seq(Char),
         Len(q) > 0 => q[1] = Slash, Parsed(p, i, m, q)
  PROVE  LET s == Skipped(p)
             k == strchr(s, Slash)
         IN  /\ Len(q) = 0 => k = 0 /\ s = m
             /\ Len(q) > 0 => /\ k = Len(m) + 1 /\ strncpy(s, k - 1) = m
                              /\ SubSeq(s, k, Len(s)) = q
<1> SUFFICES ASSUME NEW s, s = Skipped(p), NEW k, k = strchr(s, Slash)
             PROVE  /\ Len(q) = 0 => k = 0 /\ s = m
                    /\ Len(q) > 0 => /\ k = Len(m) + 1 /\ strncpy(s, k - 1) = m
                                     /\ SubSeq(s, k, Len(s)) = q
  OBVIOUS
<1>1. /\ m \in Seq(Char) /\ Len(m) \in Nat /\ Len(m) >= 1 /\ Len(q) \in Nat /\ Len(p) \in Nat
      /\ \A l \in 1..Len(m) : m[l] # Slash
  BY NameSeq, LenProperties
<1>2. /\ Len(p) = i + Len(m) + Len(q)
      /\ \A l \in 1..i : p[l] = Slash
      /\ \A l \in 1..Len(m) : p[i + l] = m[l]
      /\ \A l \in 1..Len(q) : p[i + Len(m) + l] = q[l]
  BY DEF Parsed
<1>3. s \in Seq(Char) /\ (Len(s) > 0 => s[1] # Slash)
  BY Skipping
<1>4. PICK a \in 0..Len(p) : Rest(s, p, a) /\ \A l \in 1..a : p[l] = Slash
  BY Skipping
<1>5. /\ Len(s) \in Nat /\ Len(s) = Len(p) - a
      /\ \A l \in 1..Len(s) : s[l] = p[a + l]
  BY <1>3, <1>4, LenProperties DEF Rest
<1>6. a = i
  <2>1. ~ (a > i)
    <3> SUFFICES ASSUME a > i PROVE FALSE
      OBVIOUS
    <3>1. i + 1 \in 1..a /\ 1 \in 1..Len(m)
      BY <1>1
    <3> QED BY <1>1, <1>2, <1>4, <3>1
  <2>2. ~ (a < i)
    <3> SUFFICES ASSUME a < i PROVE FALSE
      OBVIOUS
    <3>1. a + 1 \in 1..i /\ Len(s) > 0 /\ 1 \in 1..Len(s)
      BY <1>1, <1>2, <1>5
    <3> QED BY <1>2, <1>3, <1>5, <3>1
  <2> QED BY <2>1, <2>2
<1>7. Len(s) = Len(m) + Len(q)
  BY <1>1, <1>2, <1>5, <1>6
<1>8. \A l \in 1..Len(m) : s[l] = m[l]
  <2> SUFFICES ASSUME NEW l \in 1..Len(m) PROVE s[l] = m[l]
    OBVIOUS
  <2>1. l \in 1..Len(s)
    BY <1>1, <1>7
  <2> QED BY <1>2, <1>5, <1>6, <2>1
<1>9. \A l \in 1..Len(q) : s[Len(m) + l] = q[l]
  <2> SUFFICES ASSUME NEW l \in 1..Len(q) PROVE s[Len(m) + l] = q[l]
    OBVIOUS
  <2>1. Len(m) + l \in 1..Len(s) /\ i + (Len(m) + l) = i + Len(m) + l
    BY <1>1, <1>7
  <2> QED BY <1>2, <1>5, <1>6, <2>1
<1>10. /\ k \in 0..Len(s)
       /\ k = 0 => \A l \in 1..Len(s) : s[l] # Slash
       /\ k # 0 => s[k] = Slash /\ \A l \in 1..k - 1 : s[l] # Slash
  BY <1>3, FirstAt
<1>11. k # 0 => k > Len(m)
  <2> SUFFICES ASSUME k # 0, ~ (k > Len(m)) PROVE FALSE
    OBVIOUS
  <2>1. k \in 1..Len(m)
    BY <1>1, <1>10
  <2> QED BY <1>1, <1>8, <1>10, <2>1
<1>12. CASE Len(q) = 0
  <2>1. k = 0
    BY <1>1, <1>7, <1>10, <1>11, <1>12
  <2>2. s = m
    BY <1>1, <1>3, <1>7, <1>8, <1>12, SeqEqual
  <2> QED BY <1>12, <2>1, <2>2
<1>13. CASE Len(q) > 0
  <2>1. s[Len(m) + 1] = Slash /\ Len(m) + 1 \in 1..Len(s)
    <3>1. 1 \in 1..Len(q)
      BY <1>1, <1>13
    <3> QED BY <1>1, <1>7, <1>9, <1>13, <3>1
  <2>2. k # 0
    BY <1>10, <2>1
  <2>3. ~ (k > Len(m) + 1)
    <3> SUFFICES ASSUME k > Len(m) + 1 PROVE FALSE
      OBVIOUS
    <3>1. Len(m) + 1 \in 1..k - 1
      BY <1>1, <1>10
    <3> QED BY <1>10, <2>1, <2>2, <3>1
  <2>4. k = Len(m) + 1
    BY <1>1, <1>10, <1>11, <2>2, <2>3
  <2> DEFINE c == strncpy(s, k - 1)
             t == SubSeq(s, k, Len(s))
  <2>5. c \in Seq(Char) /\ Len(c) = k - 1 /\ \A l \in 1..k - 1 : c[l] = s[l]
    BY <1>3, <2>2, Component
  <2>6. t \in Seq(Char) /\ Rest(t, s, k - 1)
    BY <1>3, <2>1, <2>4, RestFrom
  <2> HIDE DEF c, t
  <2>7. c = m
    <3>1. k - 1 = Len(m)
      BY <1>1, <2>4
    <3>2. Len(c) = Len(m) /\ \A l \in 1..Len(c) : c[l] = m[l]
      BY <1>8, <2>5, <3>1
    <3> QED BY <1>1, <2>5, <3>2, SeqEqual
  <2>8. t = q
    <3>1. Len(t) = Len(q) /\ k - 1 = Len(m)
      BY <1>1, <1>7, <2>4, <2>6 DEF Rest
    <3>2. \A l \in 1..Len(t) : t[l] = q[l]
      BY <1>9, <2>6, <3>1 DEF Rest
    <3> QED BY <2>6, <3>1, <3>2, SeqEqual
  <2> QED BY <1>13, <2>4, <2>7, <2>8 DEF c, t
<1> QED BY <1>1, <1>12, <1>13

(* Every path is read that way.                                            *)
LEMMA ParsedSome ==
  ASSUME NEW p \in Seq(Char), NEW s, s = Skipped(p), NEW k, k = strchr(s, Slash)
  PROVE  /\ k = 0 => \E i \in 0..Len(p) : Parsed(p, i, s, <<>>)
         /\ k # 0 => \E i \in 0..Len(p) :
                       Parsed(p, i, strncpy(s, k - 1), SubSeq(s, k, Len(s)))
<1>1. s \in Seq(Char) /\ Len(s) \in Nat /\ Len(p) \in Nat
  BY Skipping, LenProperties
<1>2. PICK a \in 0..Len(p) : Rest(s, p, a) /\ \A l \in 1..a : p[l] = Slash
  BY Skipping
<1>3. Len(s) = Len(p) - a /\ \A l \in 1..Len(s) : s[l] = p[a + l]
  BY <1>2 DEF Rest
<1>4. CASE k = 0
  <2>1. Len(<<>>) = 0 /\ Len(p) = a + Len(s) + 0 /\ \A l \in 1..0 : FALSE
    BY <1>1, <1>3
  <2>2. Parsed(p, a, s, <<>>)
    BY <1>2, <1>3, <2>1 DEF Parsed
  <2> QED BY <1>4, <2>2
<1>5. CASE k # 0
  <2> DEFINE c == strncpy(s, k - 1)
             t == SubSeq(s, k, Len(s))
  <2>1. /\ c \in Seq(Char) /\ Len(c) = k - 1 /\ (\A l \in 1..k - 1 : c[l] = s[l])
        /\ k \in 1..Len(s)
    BY <1>1, <1>5, Component
  <2>2. t \in Seq(Char) /\ Rest(t, s, k - 1)
    BY <1>1, <2>1, RestFrom
  <2> HIDE DEF c, t
  <2>3. /\ Len(t) = Len(s) - (k - 1)
        /\ \A l \in 1..Len(t) : t[l] = s[(k - 1) + l]
    BY <2>2 DEF Rest
  <2>4. Len(p) = a + Len(c) + Len(t)
    BY <1>1, <1>3, <2>1, <2>3
  <2>5. \A l \in 1..Len(c) : p[a + l] = c[l]
    <3> SUFFICES ASSUME NEW l \in 1..Len(c) PROVE p[a + l] = c[l]
      OBVIOUS
    <3>1. l \in 1..k - 1 /\ l \in 1..Len(s)
      BY <1>1, <2>1
    <3> QED BY <1>3, <2>1, <3>1
  <2>6. \A l \in 1..Len(t) : p[a + Len(c) + l] = t[l]
    <3> SUFFICES ASSUME NEW l \in 1..Len(t) PROVE p[a + Len(c) + l] = t[l]
      OBVIOUS
    <3>1. l \in Nat /\ 1 <= l /\ l <= Len(s) - (k - 1) /\ k \in Nat /\ 1 <= k
      BY <1>1, <2>1, <2>3
    <3>2. (k - 1) + l \in 1..Len(s) /\ a + ((k - 1) + l) = a + (k - 1) + l
      BY <1>1, <3>1
    <3>3. p[a + (k - 1) + l] = s[(k - 1) + l]
      BY <1>3, <3>2
    <3> QED BY <2>1, <2>3, <3>3
  <2>7. Parsed(p, a, c, t)
    BY <1>2, <2>4, <2>5, <2>6 DEF Parsed
  <2> QED BY <1>5, <2>7 DEF c, t
<1> QED BY <1>4, <1>5

(* p is slashes and the name of f.                                         *)
NamesFile(p, f) == \E j \in Nat : p = Slashes(j) \o Names[f]

LEMMA FilePart ==
  ASSUME NEW p \in Seq(Char), NEW f \in Nodes
  PROVE  NamesFile(p, f) <=> strchr(Skipped(p), Slash) = 0 /\ Skipped(p) = Names[f]
<1> DEFINE s == Skipped(p)
           k == strchr(s, Slash)
           m == Names[f]
<1>1. IsName(m) /\ m \in Seq(Char) /\ <<>> \in Seq(Char) /\ Len(<<>>) = 0
  BY Constants, NameSeq
<1>2. \A j \in Nat : Slashes(j) \o m \o <<>> = Slashes(j) \o m
  <2> SUFFICES ASSUME NEW j \in Nat PROVE Slashes(j) \o m \o <<>> = Slashes(j) \o m
    OBVIOUS
  <2>1. Slashes(j) \o m \in Seq(Char)
    BY <1>1, SlashesAre, ConcatProperties
  <2> HIDE DEF m
  <2> QED BY <2>1, ConcatEmptySeq
<1> HIDE DEF m
<1>3. ASSUME NEW j \in Nat, p = Slashes(j) \o m PROVE k = 0 /\ s = m
  <2>1. p = Slashes(j) \o m \o <<>>
    BY <1>2, <1>3
  <2>2. Parsed(p, j, m, <<>>)
    BY <1>1, <2>1, Parsing
  <2>3. ~ (Len(<<>>) > 0)
    OBVIOUS
  <2> QED BY <1>1, <2>2, <2>3, ParsedOnce
<1>4. ASSUME k = 0, s = m PROVE \E j \in Nat : p = Slashes(j) \o m
  <2>1. PICK j \in 0..Len(p) : Parsed(p, j, m, <<>>)
    BY <1>4, ParsedSome
  <2>2. j \in Nat
    BY LenProperties
  <2>3. p = Slashes(j) \o m \o <<>>
    BY <1>1, <2>1, <2>2, Parsing
  <2> QED BY <1>2, <2>2, <2>3
<1> QED BY <1>3, <1>4 DEF NamesFile, m

LEMMA MountPart ==
  ASSUME NEW p \in Seq(Char), NEW f \in Nodes,
         NEW s, s = Skipped(p), NEW k, k = strchr(s, Slash)
  PROVE  Denotes(p, f) <=> /\ k # 0 /\ strncpy(s, k - 1) = MountName
                           /\ NamesFile(SubSeq(s, k, Len(s)), f)
<1> DEFINE m == Names[f]
           M == MountName
           t == SubSeq(s, k, Len(s))
<1>1. /\ IsName(m) /\ m \in Seq(Char) /\ Len(m) \in Nat /\ Len(m) >= 1
      /\ IsName(M) /\ M \in Seq(Char) /\ Len(M) \in Nat
      /\ \A i \in 1..Len(m) : m[i] # Slash
  BY Constants, NameSeq
<1> HIDE DEF m
<1>2. ASSUME NEW i \in Nat, NEW j \in Nat
      PROVE  /\ Slashes(j) \o m \in Seq(Char)
             /\ Slashes(i) \o M \o Slashes(j) \o m = Slashes(i) \o M \o (Slashes(j) \o m)
  <2> DEFINE x == Slashes(i) \o M
             y == Slashes(j)
  <2>1. Slashes(i) \in Seq(Char) /\ y \in Seq(Char)
    BY SlashesAre
  <2>2. x \in Seq(Char) /\ y \o m \in Seq(Char)
    BY <1>1, <2>1, ConcatProperties
  <2> HIDE DEF x, y
  <2>3. (x \o y) \o m = x \o (y \o m)
    <3>1. x \in Seq(Char) /\ y \in Seq(Char) /\ m \in Seq(Char)
      BY <1>1, <2>1, <2>2
    <3> QED BY <3>1, ConcatAssociative
  <2> QED BY <2>2, <2>3 DEF x, y
<1>3. ASSUME NEW i \in 0..Len(p), NEW j \in 1..Len(p),
             p = Slashes(i) \o M \o Slashes(j) \o m
      PROVE  k # 0 /\ strncpy(s, k - 1) = M /\ NamesFile(t, f)
  <2> DEFINE q == Slashes(j) \o m
  <2>0. i \in Nat /\ j \in Nat /\ j >= 1
    BY LenProperties
  <2>1. q \in Seq(Char) /\ p = Slashes(i) \o M \o q /\ i \in Nat /\ j \in Nat /\ j >= 1
    BY <1>2, <1>3, <2>0
  <2>2. Parsed(p, i, M, q)
    BY <1>1, <2>1, Parsing
  <2>3. Len(q) > 0 /\ q[1] = Slash
    <3>1. Slashes(j) \in Seq(Char) /\ Len(Slashes(j)) = j /\ Slashes(j)[1] = Slash
      BY <2>1, SlashesAre
    <3>2. /\ Len(q) = Len(Slashes(j)) + Len(m)
          /\ \A l \in 1..Len(Slashes(j)) + Len(m) :
               q[l] = IF l <= Len(Slashes(j)) THEN Slashes(j)[l] ELSE m[l - Len(Slashes(j))]
      BY <1>1, <3>1, ConcatProperties
    <3> HIDE DEF q
    <3>3. 1 \in 1..j + Len(m) /\ 1 <= j
      BY <1>1, <2>1
    <3> QED BY <1>1, <2>1, <3>1, <3>2, <3>3
  <2> HIDE DEF q
  <2>4. k = Len(M) + 1 /\ strncpy(s, k - 1) = M /\ t = q
    <3>1. IsName(M)
      BY <1>1
    <3> HIDE DEF M
    <3>2. /\ k = Len(M) + 1 /\ strncpy(s, k - 1) = M
          /\ SubSeq(s, k, Len(s)) = q
      BY <2>1, <2>2, <2>3, <3>1, ParsedOnce
    <3> QED BY <3>2
  <2>5. NamesFile(t, f)
    BY <2>1, <2>4 DEF NamesFile, q, m
  <2> QED BY <1>1, <2>4, <2>5
<1>4. ASSUME k # 0, strncpy(s, k - 1) = M, NEW j \in Nat, t = Slashes(j) \o m
      PROVE  \E a \in 0..Len(p), b \in 1..Len(p) : p = Slashes(a) \o M \o Slashes(b) \o m
  <2>1. PICK i \in 0..Len(p) : Parsed(p, i, M, t)
    BY <1>4, ParsedSome
  <2>2. s \in Seq(Char) /\ k \in 1..Len(s) /\ s[k] = Slash
    <3>1. s \in Seq(Char)
      BY Skipping
    <3> QED BY <1>4, <3>1, Component
  <2>3. /\ t \in Seq(Char) /\ Len(t) = Len(s) - (k - 1)
        /\ \A l \in 1..Len(t) : t[l] = s[(k - 1) + l]
    BY <2>2, RestFrom DEF Rest
  <2> HIDE DEF t
  <2>4. t[1] = Slash
    <3>1. 1 \in 1..Len(t) /\ (k - 1) + 1 = k
      BY <2>2, <2>3
    <3> QED BY <2>2, <2>3, <3>1
  <2>5. i \in Nat /\ Len(p) \in Nat /\ Len(t) \in Nat /\ Len(p) = i + Len(M) + Len(t)
    BY <2>1, <2>3 DEF Parsed
  <2>6. p = Slashes(i) \o M \o t
    BY <1>1, <2>1, <2>3, <2>5, Parsing
  <2>7. /\ Len(t) = j + Len(m)
        /\ \A l \in 1..Len(m) : t[j + l] = m[l]
    <3>1. Slashes(j) \o m \o <<>> = Slashes(j) \o m
      BY <1>2, ConcatEmptySeq
    <3>2. Parsed(t, j, m, <<>>)
      <4>1. t = Slashes(j) \o m \o <<>> /\ <<>> \in Seq(Char)
        BY <1>4, <3>1
      <4> QED BY <1>1, <2>3, <4>1, Parsing
    <3> QED BY <1>1, <3>2 DEF Parsed
  <2>8. j # 0
    <3> SUFFICES ASSUME j = 0 PROVE FALSE
      OBVIOUS
    <3>1. 1 \in 1..Len(m) /\ j + 1 = 1
      BY <1>1
    <3> QED BY <1>1, <2>4, <2>7, <3>1
  <2>9. j \in 1..Len(p)
    BY <1>1, <2>5, <2>7, <2>8
  <2>10. p = Slashes(i) \o M \o Slashes(j) \o m
    BY <1>2, <1>4, <2>5, <2>6
  <2> QED BY <2>9, <2>10
<1>5. Denotes(p, f) <=> \E a \in 0..Len(p), b \in 1..Len(p) :
                          p = Slashes(a) \o M \o Slashes(b) \o m
  BY DEF Denotes, m
<1>6. NamesFile(t, f) <=> \E j \in Nat : t = Slashes(j) \o m
  BY DEF NamesFile, m
<1> HIDE DEF t, M
<1> QED BY <1>3, <1>4, <1>5, <1>6 DEF t, M

(* What is found in a directory: in the root the mount point, and there    *)
(* the first file of that name.                                            *)
LEMMA Found ==
  ASSUME NEW s
  PROVE  /\ fs_finddir(Root, s) = IF MountName = s THEN Mount ELSE Null
         /\ fs_finddir(Mount, s) \in Nodes => Names[fs_finddir(Mount, s)] = s
         /\ \A f \in Nodes : Names[f] = s => /\ fs_finddir(Mount, s) \in Nodes
                                             /\ fs_finddir(Mount, s) <= f
<1>1. Target(Root) = Root /\ Target(Mount) = Initrd
  BY Flags DEF Target
<1>2. /\ node(Root) = rootfs_node /\ node(Initrd) = initrd_root_node
  BY Nodes3 DEF node
<1>3. 2 % 8 = 2
  OBVIOUS
<1>4. /\ Has(Root, "finddir") /\ IsDirectory(Root)
      /\ Has(Initrd, "finddir") /\ IsDirectory(Initrd)
  BY <1>2, <1>3 DEF Has, IsDirectory, rootfs_node, initrd_root_node, FS_DIRECTORY
<1>5. fs_finddir(Root, s) = IF MountName = s THEN Mount ELSE Null
  BY <1>1, <1>4, Nodes3, NodeNames DEF fs_finddir, rootfs_finddir, strcmp
<1>6. fs_finddir(Mount, s) = initrd_finddir(Initrd, s)
  BY <1>1, <1>4, Nodes3 DEF fs_finddir
<1> DEFINE hit == {f \in Nodes : /\ Names[f] = s
                                 /\ \A g \in 1..f - 1 : Names[g] # s}
<1>7. initrd_finddir(Initrd, s) = IF hit # {} THEN CHOOSE f \in hit : TRUE ELSE Null
  <2> DEFINE equal(f) == strcmp(String(initrd_node(f).name), s) = 0
             hits == {f \in Nodes : equal(f) /\ \A g \in 1..f - 1 : ~equal(g)}
  <2>1. \A f \in Nodes : equal(f) <=> Names[f] = s
    BY NodeNames DEF strcmp
  <2>2. initrd_finddir(Initrd, s) = IF hits # {} THEN CHOOSE f \in hits : TRUE ELSE Null
    BY DEF initrd_finddir
  <2> HIDE DEF equal
  <2>3. \A f \in Nodes : \A g \in 1..f - 1 : g \in Nodes
    BY Constants DEF Nodes
  <2>4. hits = hit
    BY <2>1, <2>3
  <2> HIDE DEF hits, hit
  <2> QED BY <2>2, <2>4
<1> DEFINE n == fs_finddir(Mount, s)
<1>8. hit # {} => n \in hit
  BY <1>6, <1>7
<1>9. hit = {} => n = Null
  BY <1>6, <1>7
<1>10. ASSUME NEW f \in Nodes, Names[f] = s PROVE hit # {} /\ \A g \in hit : g <= f
  <2> DEFINE I == {g \in Nodes : Names[g] = s}
  <2>1. I \in SUBSET Nat /\ f \in I
    BY <1>10, Nodes3
  <2> HIDE DEF I
  <2>2. PICK k \in I : \A l \in I : k <= l
    BY <2>1, LeastNumber
  <2>3. k \in Nodes /\ Names[k] = s /\ k \in 1..Len(Names)
    BY <2>2 DEF I, Nodes
  <2>4. \A g \in 1..k - 1 : Names[g] # s
    <3> SUFFICES ASSUME NEW g \in 1..k - 1, Names[g] = s PROVE FALSE
      OBVIOUS
    <3>1. g \in I /\ ~ (k <= g)
      BY <2>3, Constants DEF I, Nodes
    <3> QED BY <2>2, <3>1
  <2>5. k \in hit
    BY <2>3, <2>4
  <2>6. \A g \in hit : g <= f
    <3> SUFFICES ASSUME NEW g \in Nodes, \A h \in 1..g - 1 : Names[h] # s, ~ (g <= f)
                 PROVE  FALSE
      OBVIOUS
    <3>1. f \in 1..g - 1
      BY Constants DEF Nodes
    <3> QED BY <1>10, <3>1
  <2> QED BY <2>5, <2>6
<1> HIDE DEF n
<1>11. n \in Nodes => Names[n] = s
  BY <1>8, <1>9, Nodes3
<1>12. \A f \in Nodes : Names[f] = s => n \in Nodes /\ n <= f
  <2> SUFFICES ASSUME NEW f \in Nodes, Names[f] = s PROVE n \in Nodes /\ n <= f
    OBVIOUS
  <2>1. hit # {} /\ \A g \in hit : g <= f
    BY <1>10
  <2> QED BY <1>8, <2>1
<1> QED BY <1>5, <1>11, <1>12 DEF n

-----------------------------------------------------------------------------
(***************************************************************************)
(* What open returns.                                                      *)
(***************************************************************************)
(* n is the first file that path names, or no file when it names none.     *)
Answers(n) ==
  /\ n \in Nodes => Denotes(path, n)
  /\ \A f \in Nodes : Denotes(path, f) => n \in Nodes /\ n <= f

(* The name that is left to the walk says as much as the whole path did.   *)
Resolving ==
  /\ at = "walk" =>
       /\ depth = 1 => name = path
       /\ depth = 2 => \A f \in Nodes : Denotes(path, f) <=> NamesFile(name, f)
       /\ depth = 3 => \A f \in Nodes : ~ Denotes(path, f)
  /\ at = "found" => Answers(ret[1])
  /\ PathsResolve

LEMMA ResolvingStep ==
  ASSUME FileInv, Resolving, resolve_path
  PROVE  Resolving'
<1> DEFINE s == Skipped(name)
           k == strchr(s, Slash)
           component == strncpy(s, k - 1)
           new_dir == fs_finddir(dir, component)
           rest == SubSeq(s, k, Len(s))
           n == fs_finddir(dir, s)
<1>1. /\ at = "walk" /\ path' = path /\ name \in Seq(Char) /\ depth \in 1..3
      /\ depth = 1 => dir = Root
      /\ depth = 2 => dir = Mount
      /\ depth = 3 => dir \in Nodes
  BY DEF FileInv, TypeOK, Walked, resolve_path, walk
<1>2. \/ /\ k = 0 /\ at' = "found" /\ ret' = <<n>>
      \/ /\ k # 0 /\ new_dir = Null /\ at' = "found" /\ ret' = <<Null>>
      \/ /\ k # 0 /\ new_dir # Null /\ at' = "walk" /\ depth' = depth + 1
         /\ name' = rest
      \/ at' = "astray"
  BY <1>1 DEF resolve_path
<1>9. at' = "astray" => Resolving'
  BY DEF Resolving, PathsResolve
<1> HIDE DEF rest, n, new_dir
<1>3. ASSUME at' = "found", Answers(ret'[1]) PROVE Resolving'
  <2>1. Answers(ret[1])'
    BY <1>1, <1>3 DEF Answers, Denotes
  <2> QED BY <1>3, <2>1 DEF Resolving, PathsResolve
<1>4. Null \notin Nodes /\ Mount \notin Nodes
  BY Nodes3
<1>5. ASSUME \A f \in Nodes : ~ Denotes(path, f) PROVE \A m : m \notin Nodes => Answers(m)
  BY <1>5 DEF Answers
<1>6. CASE depth = 1
  <2>1. name = path /\ dir = Root
    BY <1>1, <1>6 DEF Resolving
  <2>2. /\ n = IF MountName = s THEN Mount ELSE Null
        /\ new_dir = IF MountName = component THEN Mount ELSE Null
    BY <2>1, Found DEF n, new_dir
  <2>3. \A f \in Nodes :
          Denotes(path, f) <=> k # 0 /\ component = MountName /\ NamesFile(rest, f)
    BY <1>1, <2>1, MountPart DEF rest
  <2> HIDE DEF s, k, component
  <2>4. CASE k = 0 /\ at' # "astray"
    <3>1. at' = "found" /\ ret'[1] \notin Nodes
      BY <1>2, <1>4, <2>2, <2>4
    <3> QED BY <1>3, <1>5, <2>3, <2>4, <3>1
  <2>5. CASE k # 0 /\ new_dir = Null /\ at' # "astray"
    <3>1. at' = "found" /\ ret'[1] \notin Nodes
      BY <1>2, <1>4, <2>5
    <3>2. component # MountName
      BY <2>2, <2>5 DEF Null, Mount
    <3> QED BY <1>3, <1>5, <2>3, <3>1, <3>2
  <2>6. CASE k # 0 /\ new_dir # Null /\ at' # "astray"
    <3>1. at' = "walk" /\ depth' = 2 /\ name' = rest /\ component = MountName
      BY <1>2, <1>6, <2>2, <2>6
    <3>2. \A f \in Nodes : Denotes(path', f) <=> NamesFile(name', f)
      BY <1>1, <2>3, <2>6, <3>1
    <3> QED BY <3>1, <3>2 DEF Resolving, PathsResolve
  <2> QED BY <1>9, <2>4, <2>5, <2>6
<1>7. CASE depth = 2
  <2>1. dir = Mount /\ \A f \in Nodes : Denotes(path, f) <=> NamesFile(name, f)
    BY <1>1, <1>7 DEF Resolving
  <2>2. \A f \in Nodes : Denotes(path, f) <=> k = 0 /\ s = Names[f]
    BY <1>1, <2>1, FilePart
  <2>3. /\ n \in Nodes => Names[n] = s
        /\ \A f \in Nodes : Names[f] = s => n \in Nodes /\ n <= f
    BY <2>1, Found DEF n
  <2> HIDE DEF s, k, component
  <2>4. CASE k = 0 /\ at' # "astray"
    <3>1. Answers(n)
      BY <2>2, <2>3, <2>4 DEF Answers
    <3>2. at' = "found" /\ ret'[1] = n
      BY <1>2, <2>4
    <3> QED BY <1>3, <3>1, <3>2
  <2>5. CASE k # 0 /\ new_dir = Null /\ at' # "astray"
    <3>1. at' = "found" /\ ret'[1] \notin Nodes
      BY <1>2, <1>4, <2>5
    <3> QED BY <1>3, <1>5, <2>2, <2>5, <3>1
  <2>6. CASE k # 0 /\ new_dir # Null /\ at' # "astray"
    <3>1. at' = "walk" /\ depth' = 3
      BY <1>2, <1>7, <2>6
    <3>2. \A f \in Nodes : ~ Denotes(path', f)
      BY <1>1, <2>2, <2>6
    <3> QED BY <3>1, <3>2 DEF Resolving, PathsResolve
  <2> QED BY <1>9, <2>4, <2>5, <2>6
<1>8. CASE depth = 3
  <2>1. dir \in Nodes /\ \A f \in Nodes : ~ Denotes(path, f)
    BY <1>1, <1>8 DEF Resolving
  <2>2. n = Null /\ new_dir = Null
    BY <2>1, FindDir DEF n, new_dir
  <2> HIDE DEF s, k, component
  <2>3. \/ at' = "astray"
        \/ at' = "found" /\ ret' = <<Null>>
    BY <1>2, <2>2
  <2>4. at' = "found" => Answers(ret'[1])
    BY <1>4, <1>5, <2>1, <2>3
  <2> QED BY <1>3, <1>9, <2>3, <2>4
<1> QED BY <1>1, <1>6, <1>7, <1>8, <1>9

LEMMA OpenedStep ==
  ASSUME FileInv, OnlyFilesOpen', Resolving, Opened
  PROVE  Resolving'
<1>1. /\ at = "found" /\ at' = "opened" /\ path' = path /\ mode' = mode
      /\ Answers(ret[1])
  BY DEF Opened, walk, Resolving
<1>2. PICK n \in Node \cup {Null} : ret = <<n>>
  BY <1>1 DEF FileInv, Walked
<1>3. ret' = IF n # Null /\ fs_open(n, mode) # Null THEN <<n>> ELSE <<Null>>
  BY <1>2 DEF Opened
<1>4. Answers(n)
  BY <1>1, <1>2
<1> DEFINE named == {f \in Nodes : Denotes(path, f)}
<1>5. CASE mode = 1 /\ named # {}
  <2>1. n \in Nodes /\ Denotes(path, n) /\ \A f \in named : n <= f
    BY <1>4, <1>5 DEF Answers
  <2>2. Has(n, "open") /\ Target(n) = n
    <3>1. node(n) = initrd_node(n)
      BY <2>1, Nodes3 DEF node
    <3> QED BY <2>1, <3>1, Flags DEF Has, initrd_node, Target
  <2>3. fs_open(n, 1) = n
    <3>1. (1 \div 2) % 2 = 0
      OBVIOUS
    <3> QED BY <2>1, <2>2, <3>1 DEF fs_open, initrd_open, O_WRITE
  <2>4. ret' = <<n>>
    BY <1>3, <1>5, <2>1, <2>3, Nodes3
  <2>5. n \in named /\ \A f \in named : n <= f
    BY <2>1
  <2>6. PathsResolve'
    BY <1>1, <1>5, <2>4, <2>5 DEF PathsResolve, Denotes
  <2> QED BY <1>1, <2>6 DEF Resolving
<1>6. CASE ~ (mode = 1 /\ named # {})
  <2>1. ret' = <<Null>>
    <3> SUFFICES ASSUME ret' # <<Null>> PROVE FALSE
      OBVIOUS
    <3>1. ret' = <<n>>
      BY <1>3
    <3>2. n \in Nodes /\ mode = 1
      BY <1>1, <3>1 DEF OnlyFilesOpen
    <3>3. n \in named
      BY <1>4, <3>2 DEF Answers
    <3> QED BY <1>6, <3>2, <3>3
  <2>2. PathsResolve'
    BY <1>1, <1>6, <2>1 DEF PathsResolve, Denotes
  <2> QED BY <1>1, <2>2 DEF Resolving
<1> QED BY <1>5, <1>6

LEMMA ResolvingNext == FileInv /\ FileInv' /\ Resolving /\ [Next]_vars => Resolving'
<1> SUFFICES ASSUME FileInv, FileInv', Resolving, [Next]_vars PROVE Resolving'
  OBVIOUS
<1>1. ASSUME NEW p \in Paths, NEW m \in Modes, open(p, m) PROVE Resolving'
  BY <1>1 DEF open, Resolving, PathsResolve
<1>2. CASE resolve_path
  BY <1>2, ResolvingStep
<1>3. CASE Opened
  BY <1>3, OpenedStep DEF FileInv, Walked
<1>4. ASSUME NEW n \in held, NEW i \in 0..Len(Names), fs_readdir(n, i) PROVE Resolving'
  BY <1>4 DEF fs_readdir, Resolving, PathsResolve
<1>5. ASSUME NEW n \in held, NEW o \in Offsets, NEW l \in Offsets, fs_read(n, o, l)
      PROVE  Resolving'
  BY <1>5 DEF fs_read, Resolving, PathsResolve
<1>6. ASSUME NEW n \in held, close(n) PROVE Resolving'
  BY <1>6 DEF close, Resolving, PathsResolve
<1>7. CASE Return
  BY <1>7 DEF Return, Resolving, PathsResolve
<1>8. CASE UNCHANGED vars
  BY <1>8 DEF vars, walk, Resolving, PathsResolve, Answers, Denotes, NamesFile
<1>9. CASE Astray
  <2>1. UNCHANGED vars
    BY <1>9 DEF Astray
  <2> QED BY <1>8, <2>1
<1> QED BY <1>1, <1>2, <1>3, <1>4, <1>5, <1>6, <1>7, <1>8, <1>9 DEF Next

LEMMA ResolvingHolds == Spec => []Resolving
<1>1. init_fs => Resolving
  BY DEF init_fs, Resolving, PathsResolve
<1> QED BY <1>1, ResolvingNext, FileInvHolds, PTL DEF Spec

(* The variables of the file system keep their types: a directory is a     *)
(* node, and the static entries stay arrays of FILENAME_MAX characters.    *)
THEOREM TypeCorrect == Spec => []TypeOK
<1>1. FileInv => TypeOK
  BY DEF FileInv
<1> QED BY <1>1, FileInvHolds, PTL

(* Whatever the path is, an open(path, 1) that returns has found the first *)
(* file that it names, and no file when it names none: the walk of         *)
(* resolve_path loses nothing of what the path says.  That it returns      *)
(* unless a component of the path is too long is AlwaysFits.               *)
THEOREM AlwaysResolves == Spec => []PathsResolve
<1>1. Resolving => PathsResolve
  BY DEF Resolving
<1> QED BY <1>1, ResolvingHolds, PTL

(* readdir answers with the name of the node it lists, whatever was left   *)
(* in the static entry it is written to.                                   *)
THEOREM AlwaysNamed == Spec => []EntriesNamed
<1>1. FileInv => EntriesNamed
  BY DEF FileInv
<1> QED BY <1>1, FileInvHolds, PTL

(* read never goes behind the end of a file that it begins in: the size    *)
(* less the offset, a u32, does not wrap there.                            *)
THEOREM AlwaysReadsInside == Spec => []ReadsInside
<1>1. FileInv => ReadsInside
  BY DEF FileInv
<1> QED BY <1>1, FileInvHolds, PTL

(* No path of components shorter than FILENAME_MAX overruns curr_name:     *)
(* such a path never leads the kernel astray.                              *)
THEOREM AlwaysFits == Spec => []CurrNameFits
<1>1. FileInv => CurrNameFits
  BY DEF FileInv, Fits
<1> QED BY <1>1, FileInvHolds, PTL
=============================================================================
