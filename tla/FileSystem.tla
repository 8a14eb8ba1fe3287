----------------------------- MODULE FileSystem -----------------------------
(***************************************************************************)
(* The virtual file system: fs.c, the root file system rootfs.c and the    *)
(* initial ramdisk initrd.c mounted in it, with the string functions of    *)
(* libc/string.c that they call.                                           *)
(*                                                                         *)
(* Nodes are pointers, so a node is a number.  The tables of nodes are     *)
(* filled once, by init_fs, from the ramdisk's headers; what changes later *)
(* are the two static directory entries, which every readdir reuses.       *)
(* Strings are sequences without their final NUL; the static entries are   *)
(* arrays, since strcpy does not write a NUL.  Interrupts are off in       *)
(* system calls: a call runs to its end, and each recursion of             *)
(* resolve_path is one step of it.                                         *)
(***************************************************************************)
EXTENDS Naturals, SequencesExt

CONSTANTS
  Char,         (* characters of paths, the slash among them               *)
  Slash, NUL,
  FilenameMax,  (* FILENAME_MAX                                            *)
  MountName,    (* initrd_root_node.name                                   *)
  Names, Sizes, (* of the files in the ramdisk, in its order               *)
  Wrap,         (* 2^32: a u32 is a number below it                        *)
  Paths,        (* what callers ask for                                    *)
  Offsets       (* offsets and lengths that callers read                   *)

Nodes == 1..Len(Names)                (* initrd_nodes, by inode + 1        *)
Null    == 0
Root    == Len(Names) + 1             (* &rootfs_node                      *)
Mount   == Len(Names) + 2             (* &rootfs_nodes[0]                  *)
Initrd  == Len(Names) + 3             (* &initrd_root_node                 *)
Node    == Nodes \cup {Root, Mount, Initrd}

IsName(s) == s \in Seq(Char \ {Slash}) /\ Len(s) \in 1..FilenameMax - 1

ASSUME FileSystemAssumption ==
  /\ Slash \in Char /\ NUL \notin Char
  /\ FilenameMax \in Nat /\ Wrap \in Nat \ {0}
  /\ IsName(MountName)
  /\ Names # <<>> /\ \A f \in Nodes : IsName(Names[f])
  /\ Names \in Seq(Seq(Char)) /\ Sizes \in [Nodes -> 0..Wrap - 1]
  /\ Paths \subseteq Seq(Char) /\ Offsets \subseteq 0..Wrap - 1

FS_FILE       == 1
FS_DIRECTORY  == 2
FS_SYMLINK    == 6
FS_MOUNTPOINT == 8
O_WRITE       == 2
Modes         == 1..3

(***************************************************************************)
(* libc/string.c                                                           *)
(***************************************************************************)
(* The number of characters before the first c, plus one; 0 if none is c.  *)
strchr(s, c) == SelectInSeq(s, LAMBDA e : e = c)

strcmp(s, t) == IF s = t THEN 0 ELSE 1

(* Mutated: all of src is copied.                                          *)
strncpyAll(src, n) == src

strncpy(src, n) == SubSeq(src, 1, IF n > Len(src) THEN Len(src) ELSE n)

(* Copies no NUL: what dest held behind stays.                             *)
strcpy(dest, src) == src \o SubSeq(dest, Len(src) + 1, Len(dest))

(* The string that a caller finds in an array.                             *)
String(a) == SubSeq(a, 1, strchr(a, NUL) - 1)

Zeros == [i \in 1..FilenameMax |-> NUL]

(***************************************************************************)
(* init_initrd, init_rootfs                                                *)
(***************************************************************************)
initrd_root_node ==
  [name |-> strcpy(Zeros, MountName), flags |-> FS_DIRECTORY, ptr |-> Null,
   size |-> 0, ops |-> {"readdir", "finddir"}]

initrd_node(f) ==
  [name |-> strcpy(Zeros, Names[f]), flags |-> FS_FILE, ptr |-> Null,
   size |-> Sizes[f], ops |-> {"read", "open", "close"}]

rootfs_node ==
  [name |-> Zeros, flags |-> FS_DIRECTORY, ptr |-> Null,
   size |-> 0, ops |-> {"readdir", "finddir"}]

(* Mutated: the copied node keeps its flags.                               *)
mounted_nodeUnmarked == [initrd_root_node EXCEPT !.ptr = Initrd]

mounted_node ==
  [initrd_root_node EXCEPT !.ptr = Initrd, !.flags = FS_MOUNTPOINT + FS_DIRECTORY]

node(n) == CASE n = Root   -> rootfs_node
             [] n = Mount  -> mounted_node
             [] n = Initrd -> initrd_root_node
             [] OTHER      -> initrd_node(n)

IsMountpoint(n) == (node(n).flags \div FS_MOUNTPOINT) % 2 = 1
IsLink(n)       == node(n).flags = FS_SYMLINK \/ IsMountpoint(n)
IsDirectory(n)  == node(n).flags % 8 = FS_DIRECTORY
Has(n, op)      == op \in node(n).ops

(* The first node of the table with that name.                             *)
rootfs_finddir(s) ==
  IF strcmp(String(mounted_node.name), s) = 0 THEN Mount ELSE Null

initrd_finddir(n, s) ==
  LET equal(f) == strcmp(String(initrd_node(f).name), s) = 0
      hit == {f \in Nodes : equal(f) /\ \A g \in 1..f - 1 : ~equal(g)}
  IN  IF n = Initrd /\ hit # {} THEN CHOOSE f \in hit : TRUE ELSE Null

(* Nothing is mounted on a mounted node: one link is followed.             *)
Target(n) == IF IsLink(n) THEN node(n).ptr ELSE n

(* Mutated: what has no finddir stands for all its entries.                *)
fs_finddirSelf(n, s) ==
  LET t == Target(n)
  IN  IF t = Root THEN rootfs_finddir(s)
      ELSE IF IsDirectory(t) THEN initrd_finddir(t, s) ELSE n

fs_finddir(n, s) ==
  LET t == Target(n)
  IN  IF t # Null /\ Has(t, "finddir") /\ IsDirectory(t)
      THEN IF t = Root THEN rootfs_finddir(s) ELSE initrd_finddir(t, s)
      ELSE Null

(* Mutated: O_WRITE is let through.                                        *)
initrd_openAny(n, mode) == IF n \in Nodes THEN n ELSE Null

initrd_open(n, mode) ==
  IF mode \div O_WRITE % 2 = 0 /\ n \in Nodes THEN n ELSE Null

(* Mutated: a node without an open of its own needs none.                  *)
fs_openAlways(n, mode) ==
  IF ~Has(n, "open") THEN n ELSE initrd_open(Target(n), mode)

(* A node without an open of its own is refused before its link is looked  *)
(* at: no directory can be opened.                                         *)
fs_open(n, mode) ==
  IF ~Has(n, "open") THEN Null ELSE initrd_open(Target(n), mode)

-----------------------------------------------------------------------------
VARIABLES
  at,       (* where the call in progress is                               *)
  path,     (* open: its arguments                                         *)
  mode,
  name,     (* resolve_path: its arguments, and how deep it is             *)
  dir,
  depth,
  copied,   (* characters written to the last curr_name, with its NUL      *)
  ret,      (* what the call returns                                       *)
  held,     (* nodes the callers have                                      *)
  rootfs_dirent, initrd_dirent   (* the static entries: their name arrays  *)

walk    == <<path, mode, name, dir, depth, copied>>
dirents == <<rootfs_dirent, initrd_dirent>>
vars    == <<at, walk, ret, held, dirents>>

(* fs_root and ird_root are global.                                        *)
init_fs ==
  /\ at = "idle" /\ path = <<>> /\ mode = 0 /\ name = <<>> /\ dir = Root
  /\ depth = 0 /\ copied = 0 /\ ret = <<>>
  /\ held = {Root, Initrd}
  /\ rootfs_dirent = Zeros /\ initrd_dirent = Zeros

(***************************************************************************)
(* open                                                                    *)
(***************************************************************************)
open(p, m) ==
  /\ at = "idle" /\ at' = "walk"
  /\ path' = p /\ mode' = m
  /\ name' = p /\ dir' = Root /\ depth' = 1
  /\ UNCHANGED <<copied, ret, held, dirents>>

(* Name without its leading slashes.                                       *)
Skipped(s) ==
  LET k == SelectInSeq(s, LAMBDA e : e # Slash)
  IN  IF k = 0 THEN <<>> ELSE SubSeq(s, k, Len(s))

(* A component that curr_name has no room for overwrites the stack behind  *)
(* it: the call is astray.                                                 *)
resolve_path ==
  /\ at = "walk"
  /\ LET s == Skipped(name)
         k == strchr(s, Slash)
         component == strncpy(s, k - 1)
         new_dir == fs_finddir(dir, component)
     IN  \/ /\ k = 0
            /\ at' = "found" /\ ret' = <<fs_finddir(dir, s)>>
            /\ UNCHANGED walk
         \/ /\ k # 0 /\ copied' = Len(component) + 1
            /\ \/ /\ copied' > FilenameMax
                  /\ at' = "astray"
                  /\ UNCHANGED <<path, mode, name, dir, depth, ret>>
               \/ /\ copied' <= FilenameMax /\ new_dir = Null
                  /\ at' = "found" /\ ret' = <<Null>>
                  /\ UNCHANGED <<path, mode, name, dir, depth>>
               \/ /\ copied' <= FilenameMax /\ new_dir # Null
                  /\ name' = SubSeq(s, k, Len(s)) /\ dir' = new_dir
                  /\ depth' = depth + 1
                  /\ UNCHANGED <<at, path, mode, ret>>
  /\ UNCHANGED <<held, dirents>>

(* What a kernel with an overwritten stack does is undefined: it is not    *)
(* followed, and nothing is claimed of it.                                 *)
Astray == at = "astray" /\ UNCHANGED vars

(* The rest of open, behind resolve_path.                                  *)
Opened ==
  /\ at = "found" /\ at' = "opened"
  /\ ret' = IF ret[1] # Null /\ fs_open(ret[1], mode) # Null THEN ret ELSE <<Null>>
  /\ held' = (held \cup {ret'[1]}) \ {Null}
  /\ UNCHANGED <<walk, dirents>>

(***************************************************************************)
(* The calls on a node: an answer at once.                                 *)
(***************************************************************************)
(* Mutated: the entry is not cleared.                                      *)
initrd_readdirStale(n, i) ==
  IF n = Initrd /\ i < Len(Names)
  THEN /\ initrd_dirent' = strcpy(initrd_dirent, String(initrd_node(i + 1).name))
       /\ ret' = <<n, i, String(initrd_dirent')>>
  ELSE ret' = <<n, i>> /\ UNCHANGED initrd_dirent

initrd_readdir(n, i) ==
  IF n = Initrd /\ i < Len(Names)
  THEN /\ initrd_dirent' = strcpy(Zeros, String(initrd_node(i + 1).name))
       /\ ret' = <<n, i, String(initrd_dirent')>>
  ELSE ret' = <<n, i>> /\ UNCHANGED initrd_dirent

(* The entry is not cleared; there is one node, and one name.              *)
rootfs_readdir(n, i) ==
  IF i < 1
  THEN /\ rootfs_dirent' = strcpy(rootfs_dirent, String(mounted_node.name))
       /\ ret' = <<n, i, String(rootfs_dirent')>>
  ELSE ret' = <<n, i>> /\ UNCHANGED rootfs_dirent

(* Does not follow links, as fs_finddir does.                              *)
fs_readdir(n, i) ==
  /\ at = "idle" /\ at' = "entry"
  /\ IF Has(n, "readdir") /\ IsDirectory(n)
     THEN IF n = Root THEN rootfs_readdir(n, i) /\ UNCHANGED initrd_dirent
          ELSE initrd_readdir(n, i) /\ UNCHANGED rootfs_dirent
     ELSE ret' = <<n, i>> /\ UNCHANGED dirents
  /\ UNCHANGED <<walk, held>>

(* Mutated: the size of the rest is not looked at.                         *)
initrd_readAll(n, offset, length) == length

(* The number of bytes copied, from offset on.                             *)
initrd_read(n, offset, length) ==
  LET maxsize == (Sizes[n] + Wrap - offset) % Wrap
  IN  IF length <= maxsize THEN length ELSE maxsize

fs_read(n, offset, length) ==
  /\ at = "idle" /\ at' = "data"
  /\ ret' = <<n, offset, length,
              IF Has(n, "read") THEN initrd_read(n, offset, length) ELSE 0>>
  /\ UNCHANGED <<walk, held, dirents>>

(* initrd_close does nothing and returns 1.                                *)
close(n) ==
  /\ at = "idle" /\ at' = "closed"
  /\ ret' = <<IF Has(n, "close") THEN 1 ELSE 0>>
  /\ held' = held \ ({n} \cap Nodes)
  /\ UNCHANGED <<walk, dirents>>

Return ==
  /\ at \notin {"idle", "walk", "found", "astray"}
  /\ at' = "idle" /\ path' = <<>> /\ mode' = 0 /\ name' = <<>> /\ dir' = Root
  /\ depth' = 0 /\ copied' = 0 /\ ret' = <<>>
  /\ UNCHANGED <<held, dirents>>

Next ==
  \/ \E p \in Paths, m \in Modes : open(p, m)
  \/ resolve_path
  \/ Astray
  \/ Opened
  \/ \E n \in held, i \in 0..Len(Names) : fs_readdir(n, i)
  \/ \E n \in held, o \in Offsets, l \in Offsets : fs_read(n, o, l)
  \/ \E n \in held : close(n)
  \/ Return

Spec == init_fs /\ [][Next]_vars

-----------------------------------------------------------------------------
(***************************************************************************)
(* Properties                                                              *)
(***************************************************************************)
TypeOK ==
  /\ at \in {"idle", "walk", "found", "astray", "opened", "entry", "data", "closed"}
  /\ path \in Seq(Char) /\ name \in Seq(Char)
  /\ mode \in 0..3 /\ depth \in Nat /\ copied \in Nat
  /\ dir \in Node
  /\ held \subseteq Node
  /\ at = "found" => ret \in {<<n>> : n \in Node \cup {Null}}
  /\ at = "opened" => ret \in {<<n>> : n \in Nodes \cup {Null}}
  /\ \A a \in {rootfs_dirent, initrd_dirent} :
       a \in [1..FilenameMax -> Char \cup {NUL}]

Slashes(n) == [k \in 1..n |-> Slash]

(* A path names a file: the mount point and the name, with slashes between *)
(* and in front and none behind.                                           *)
Denotes(p, f) ==
  \E i \in 0..Len(p), j \in 1..Len(p) :
    p = Slashes(i) \o MountName \o Slashes(j) \o Names[f]

(* An open that returns, of a path with empty, missing and excess          *)
(* components, has found the first file the path names, if it was for      *)
(* reading, and nothing when the path names none or when writing was asked *)
(* for.  Only an open that overran curr_name is excused, see CurrNameFits. *)
PathsResolve ==
  at = "opened" =>
    LET named == {f \in Nodes : Denotes(path, f)}
    IN  IF mode = 1 /\ named # {}
        THEN ret[1] \in named /\ \A f \in named : ret[1] <= f
        ELSE ret = <<Null>>

(* Only files are opened, and for reading only: LoadProcess, which never   *)
(* looks at the flags of the node it gets, never loads a directory.        *)
OnlyFilesOpen ==
  at = "opened" /\ ret # <<Null>> => ret[1] \in Nodes /\ mode = 1

(* The recursion of resolve_path, each with a curr_name on the kernel's    *)
(* stack of 8 KB, is bounded by the tree and not by the path: it calls     *)
(* itself for the mount and for a file, never for what is not there.       *)
WalkIsShallow == at \in {"walk", "found"} => depth \in 1..3

(* A component of the path has no room in curr_name, with its NUL.         *)
Overlong(p) ==
  \E i, j \in 1..Len(p) :
    j - i + 1 >= FilenameMax /\ \A l \in i..j : p[l] # Slash

(* The stack behind curr_name is overwritten by no path whose components   *)
(* have room there: the NUL of the longest one has its place, and of what  *)
(* is left of the path only the component is copied.  Nothing else keeps   *)
(* it from being overrun: a longer component is not refused.               *)
CurrNameFits == at = "astray" => Overlong(path)

(* An entry has the name of its node and nothing of an earlier entry,      *)
(* though it is the same array; beyond the last there is none.             *)
EntriesNamed ==
  at = "entry" =>
    LET listed == IF ret[1] = Root THEN <<MountName>>
                  ELSE IF ret[1] = Initrd THEN Names ELSE <<>>
        i == ret[2] + 1
    IN  ret = IF i \in 1..Len(listed) THEN <<ret[1], ret[2], listed[i]>>
              ELSE <<ret[1], ret[2]>>

(* A read that begins inside a file returns all of it that was asked for   *)
(* and nothing behind it.  One that begins behind the end is not bounded:  *)
(* no caller does that.                                                    *)
ReadsInside ==
  at = "data" /\ ret[1] \in Nodes /\ ret[2] <= Sizes[ret[1]] =>
    LET last == ret[2] + ret[4]
    IN  /\ last <= Sizes[ret[1]] /\ ret[4] <= ret[3]
        /\ ret[4] < ret[3] => last = Sizes[ret[1]]
=============================================================================
