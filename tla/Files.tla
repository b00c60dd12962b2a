------------------------------- MODULE Files -------------------------------
(***************************************************************************)
(* The system calls that take a pathname, in one process: open and execl   *)
(* of kernel/sys.cc, with Ext2::find, Node::find and get_node of           *)
(* kernel/ext2.h and ext2.cc and ELF::load of kernel/elf.cc.  The disk is  *)
(* never written.  A process that has opened a file goes on to read it, as *)
(* in module OpenFile; what the descriptor table does is in Processes.     *)
(*                                                                         *)
(* A pathname is the sequence of its parts, slashes taken out.  The bytes  *)
(* of a memory are numbers: characters, the terminator 0, and the words    *)
(* that exec pushes, which take four bytes.                                *)
(***************************************************************************)
EXTENDS OpenFile, FiniteSets

CONSTANTS
    Disk,           \* byte offset -> i-node
    ITable,         \* iNodeTables: group -> the first block of its i-nodes
    PerGroup,       \* iNodesPerGroup
    ISize,          \* iNodeSize
    Path,           \* the pathnames programs use
    Args,           \* the argument lists programs give to execl
    HdrSize,        \* sizeof(ElfHeader)
    Top,            \* 0xefffe000: where exec begins the stack
    None

ASSUME FilesAssumption ==
    /\ None \notin Int /\ None \notin {"open", "link", "exec"}
    /\ Path \subseteq Seq(STRING)
    /\ Args \subseteq Seq(Seq(Nat \ {0}))
    /\ PerGroup \in Nat \ {0} /\ ISize \in Nat \ {0}
    /\ HdrSize \in Nat
    /\ Top \in Nat /\ Top % 4 = 0

VARIABLES
    phase,          \* where the process is
    call,           \* "open", "link" (open, after a link), "exec" or None
    name,           \* the pathname the program gave
    rest, node,     \* in find: the parts left, and current (0: none)
    opened,         \* the number of the open i-node, or None
    args, buf,      \* execl's arguments, and exec's copy of them
    mem,            \* None: as the old program left it; or address -> byte
    sp, addresses,  \* exec's local variables
    loaded, entry   \* the segments in memory, and where the program begins

lookup == <<call, name, rest, node>>
exec == <<args, buf, mem, sp, addresses, loaded, entry>>
files == <<phase, lookup, opened, exec>>
allVars == <<vars, files>>

Root == 2

FilesInit ==
    /\ Init
    /\ phase = "user" /\ opened = None
    /\ call = None /\ name = <<>> /\ rest = <<>> /\ node = Root
    /\ args = <<>> /\ buf = <<>> /\ mem = None
    /\ sp = Top /\ addresses = <<>> /\ loaded = 0 /\ entry = None

-----------------------------------------------------------------------------
(* Ext2::find                                                              *)

(* get_node: where the i-node with the number is on the disk.              *)
NodeOffset(number) ==
    LET index == number - 1
    IN  ITable[index \div PerGroup] * BlockSize + (index % PerGroup) * ISize

GetNode(number) == Disk[NodeOffset(number)]

Number == {Disk[o].number : o \in DOMAIN Disk}

(* A directory has entries, pairs of a name and a number, and no name      *)
(* twice.                                                                  *)
IsDir(i) ==
    /\ DOMAIN i.entries \subseteq Nat
    /\ \A j, k \in DOMAIN i.entries : i.entries[j][1] = i.entries[k][1] => j = k
    /\ \A k \in DOMAIN i.entries : i.entries[k][2] \in Number

(* An i-node has a number and a kind; a link has a target, a pathname; a   *)
(* file has its header, which makes it executable or not, and its          *)
(* segments.  mke2fs puts an i-node where its number says.                 *)
ASSUME DiskAssumption ==
    /\ IsFiniteSet(DOMAIN Disk)
    /\ Root \in Number
    /\ \A o \in DOMAIN Disk :
          LET i == Disk[o] IN
          /\ i.number \in Nat \ {0} /\ o = NodeOffset(i.number)
          /\ i.kind \in {"dir", "file", "link"}
          /\ i.kind = "dir" => IsDir(i)
          /\ i.kind = "link" => i.target \in Seq(STRING)
          /\ i.kind = "file" => i.segments \in Seq(STRING)

Is(kind) == node # 0 /\ GetNode(node).kind = kind

(* Node::find: the number of the last entry with the name, 0 if none.      *)
EntryNumber(dir, nm) ==
    LET match == {i \in DOMAIN dir.entries : dir.entries[i][1] = nm}
    IN  IF match = {} THEN 0
        ELSE dir.entries[CHOOSE i \in match : \A j \in match : j <= i][2]

(* find(root, path) begins.                                                *)
StartFind(what, path) ==
    /\ phase' = "find"
    /\ call' = what
    /\ rest' = path
    /\ node' = Root

(* find has come to its end.                                               *)
Found == phase = "find" /\ (node = 0 \/ rest = <<>>)

(* Mutant: a part that is not there is passed over.                        *)
FindPart_Lenient ==
    LET n == EntryNumber(GetNode(node), Head(rest)) IN
    /\ phase = "find" /\ ~Found
    /\ Is("dir")
    /\ node' = IF n = 0 THEN node ELSE n
    /\ rest' = Tail(rest)
    /\ UNCHANGED <<vars, phase, call, name, opened, exec>>

(* The next part of the path is looked up in a directory.                  *)
FindPart ==
    /\ phase = "find" /\ ~Found
    /\ Is("dir")
    /\ node' = EntryNumber(GetNode(node), Head(rest))
    /\ rest' = Tail(rest)
    /\ UNCHANGED <<vars, phase, call, name, opened, exec>>

KernelPanics == phase' = "panic" /\ UNCHANGED <<vars, lookup, opened, exec>>

(* ASSERT(is_dir()) in entries: the path goes on behind something that is  *)
(* no directory, a link included.                                          *)
FindPanics == phase = "find" /\ ~Found /\ ~Is("dir") /\ KernelPanics

-----------------------------------------------------------------------------
(* open                                                                    *)

(* The call is over; its local variables are gone.                         *)
Return ==
    /\ phase' = "user"
    /\ call' = None /\ name' = <<>> /\ rest' = <<>> /\ node' = Root

(* Bound: a process opens one file.                                        *)
Open(path) ==
    /\ phase = "user" /\ opened = None
    /\ name' = path
    /\ StartFind("open", path)
    /\ UNCHANGED <<vars, opened, exec>>

(* open returns -1.                                                        *)
OpenFails ==
    /\ Found /\ call = "open" /\ node = 0
    /\ Return
    /\ UNCHANGED <<vars, opened, exec>>

(* Mutant: the name of the file is looked up again, not the link's.         *)
FollowLink_SameName ==
    /\ Found /\ call \in {"open", "link"} /\ Is("link")
    /\ StartFind("link", name)
    /\ UNCHANGED <<vars, name, opened, exec>>

(* get_symbol: the name in the link.                                       *)
Symbol == GetNode(node).target

(* while (node->is_symlink()): the name in the link is looked up from the  *)
(* root again.                                                             *)
FollowLink ==
    /\ Found /\ call \in {"open", "link"} /\ Is("link")
    /\ StartFind("link", Symbol)
    /\ UNCHANGED <<vars, name, opened, exec>>

(* The link dangles: is_symlink() of no node.  Page 0 is not mapped, and   *)
(* vmm_pageFault ends the process before open can test the node.           *)
Dangling ==
    /\ Found /\ call = "link" /\ node = 0
    /\ phase' = "ended"
    /\ UNCHANGED <<vars, lookup, opened, exec>>

(* new OpenFileStruct(node), and a descriptor for it.                      *)
OpenSucceeds ==
    /\ Found /\ call \in {"open", "link"} /\ node # 0 /\ ~Is("link")
    /\ opened' = node
    /\ Return
    /\ UNCHANGED <<vars, exec>>

-----------------------------------------------------------------------------
(* execl                                                                   *)

Execl(path) ==
    /\ phase = "user" /\ opened = None
    /\ name' = path
    /\ StartFind("exec", path)
    /\ UNCHANGED <<vars, opened, exec>>

(* The header of the file says that it can be executed.                    *)
Executable == GetNode(node).executable

(* No file (links are not followed), or not an executable one: -1.         *)
ExecFails ==
    /\ Found /\ call = "exec"
    /\ Is("file") => size >= HdrSize /\ ~Executable
    /\ Return
    /\ UNCHANGED <<vars, opened, exec>>

(* read(0, hdr) asserts that there is a whole header.                      *)
HeaderPanics == Found /\ call = "exec" /\ Is("file") /\ size < HdrSize /\ KernelPanics

(* Mutant: exec leaves the test of the header to load.                     *)
Copy_Unchecked ==
    /\ Found /\ call = "exec" /\ Is("file") /\ size >= HdrSize
    /\ \E as \in Args : args' = as /\ buf' = as
    /\ phase' = "clear"
    /\ UNCHANGED <<vars, lookup, opened, mem, sp, addresses, loaded, entry>>

(* Mutant: exec clears the memory before it copies the arguments.          *)
Copy_Late ==
    /\ Found /\ call = "exec" /\ Is("file") /\ size >= HdrSize /\ Executable
    /\ \E as \in Args : args' = as /\ buf' = [i \in DOMAIN as |-> <<>>]
    /\ phase' = "clear"
    /\ UNCHANGED <<vars, lookup, opened, mem, sp, addresses, loaded, entry>>

(* The arguments, which are in memory that is to be cleared, are copied to *)
(* the kernel's heap.                                                      *)
Copy ==
    /\ Found /\ call = "exec" /\ Is("file") /\ size >= HdrSize /\ Executable
    /\ \E as \in Args : args' = as /\ buf' = as
    /\ phase' = "clear"
    /\ UNCHANGED <<vars, lookup, opened, mem, sp, addresses, loaded, entry>>

(* strlen + 1, summed up                                                   *)
TotalLen(strings) ==
    LET sum2[k \in 0..Len(strings)] ==
            IF k = 0 THEN 0 ELSE sum2[k - 1] + Len(strings[k]) + 1
    IN  sum2[Len(strings)]

(* clear_private(): every page the process touches from now on is zero.    *)
(* The stack pointer leaves room to be aligned after the strings.          *)
Clear ==
    /\ phase = "clear"
    /\ mem' = [a \in 0..Top - 1 |-> 0]
    /\ sp' = Top - (((TotalLen(buf) + 4) \div 4) * 4 - TotalLen(buf))
    /\ addresses' = <<>>
    /\ phase' = "push"
    /\ UNCHANGED <<vars, lookup, opened, args, buf, loaded, entry>>

(* The memory m after the bytes have been written from address a on.       *)
Write(m, a, bytes) ==
    [x \in DOMAIN m |-> IF x \in a..a + Len(bytes) - 1 THEN bytes[x - a + 1] ELSE m[x]]

(* One turn of the loop that pushes the strings, the last one first.       *)
PushString ==
    LET i == Len(buf) - Len(addresses)
        a == sp - (Len(buf[i]) + 1)
    IN
    /\ phase = "push" /\ i > 0
    /\ mem' = Write(mem, a, Append(buf[i], 0))
    /\ addresses' = <<a>> \o addresses
    /\ sp' = a
    /\ UNCHANGED <<vars, phase, lookup, opened, args, buf, loaded, entry>>

(* The four bytes of a word; the first stands for its value.               *)
Bytes(w) == <<w, -1, -1, -1>>

(* A null pointer, the addresses, a pointer to them, and argc, the last    *)
(* one at the lowest address; then the copies are deleted.                 *)
PushWords ==
    LET n == Len(buf)
        low == sp - 4 * (n + 3)
        words == <<n, low + 8>> \o addresses \o <<0>>
    IN
    /\ phase = "push" /\ Len(addresses) = n
    /\ mem' = Write(mem, low, [x \in 1..4 * (n + 3) |->
                                 Bytes(words[(x + 3) \div 4])[((x - 1) % 4) + 1]])
    /\ sp' = low
    /\ phase' = "load"
    /\ UNCHANGED <<vars, lookup, opened, args, buf, addresses, loaded, entry>>

(* ELF::load: a program header, whose segment is copied if it is to be.    *)
LoadSegment ==
    /\ phase = "load" /\ Executable
    /\ loaded < Len(GetNode(node).segments)
    /\ GetNode(node).segments[loaded + 1] # "invalid"
    /\ loaded' = loaded + 1
    /\ UNCHANGED <<vars, phase, lookup, opened, args, buf, mem, sp, addresses, entry>>

(* A segment outside the user's memory.                                    *)
LoadPanics ==
    /\ phase = "load" /\ Executable
    /\ loaded < Len(GetNode(node).segments)
    /\ GetNode(node).segments[loaded + 1] = "invalid"
    /\ KernelPanics

(* switchToUser with what load returned, which is -1 for a bad header.     *)
SwitchToUser ==
    /\ phase = "load"
    /\ Executable => loaded = Len(GetNode(node).segments)
    /\ entry' = IF Executable THEN GetNode(node).entry ELSE -1
    /\ phase' = "started"
    /\ UNCHANGED <<vars, lookup, opened, args, buf, mem, sp, addresses, loaded>>

-----------------------------------------------------------------------------

(* The steps of a call in progress.                                        *)
CallStep ==
    \/ FindPart \/ FindPanics
    \/ OpenFails \/ FollowLink \/ Dangling \/ OpenSucceeds
    \/ ExecFails \/ HeaderPanics \/ Copy \/ Clear \/ PushString \/ PushWords
    \/ LoadSegment \/ LoadPanics \/ SwitchToUser

FilesNext ==
    \/ \E path \in Path : Open(path) \/ Execl(path)
    \/ CallStep
    \/ opened # None /\ Next /\ UNCHANGED files

(* The thread of a process that is in a call runs again and again.         *)
FilesSpec == FilesInit /\ [][FilesNext]_allVars /\ WF_allVars(CallStep)

-----------------------------------------------------------------------------
(* What a pathname means, by the numbers of the i-nodes.                   *)

INode(n) == Disk[CHOOSE o \in DOMAIN Disk : Disk[o].number = n]

(* What the part of a path leads to from i-node d: an i-node, 0 if there   *)
(* is none, and None if d is no directory.                                 *)
Under(d, part) ==
    CASE d \in {0, None} -> d
      [] d \in Number /\ INode(d).kind # "dir" -> None
      [] OTHER -> LET E == INode(d).entries
                      S == {E[i][2] : i \in {j \in DOMAIN E : E[j][1] = part}}
                  IN  IF S = {} THEN 0 ELSE CHOOSE n \in S : TRUE

(* The i-node a pathname names.                                            *)
Named(path) ==
    LET walk[k \in 0..Len(path)] ==
            IF k = 0 THEN Root ELSE Under(walk[k - 1], path[k])
    IN  walk[Len(path)]

IsLink(n) == n \in Number /\ INode(n).kind = "link"
Followed(n) == IF IsLink(n) THEN Named(INode(n).target) ELSE n

(* The i-node that links lead to, 0 at a dangling link, None as above, and *)
(* still a link if they go round in circles.                               *)
Resolved(path) ==
    LET hop[k \in 0..Cardinality(Number)] ==
            IF k = 0 THEN Named(path) ELSE Followed(hop[k - 1])
    IN  hop[Cardinality(Number)]

Circular(path) == IsLink(Resolved(path))

(* open gives a descriptor for the i-node the pathname names, all links    *)
(* followed, and fails only if there is none: whatever find makes of every *)
(* part, get_node of every number and open of every link.                  *)
OpensWhatIsNamed ==
    [][/\ opened' # opened => opened' = Resolved(name)
       /\ call = "open" /\ phase' = "user" /\ opened' = opened => Named(name) = 0]_allVars

(* A call with a pathname ends, if only with its process or the kernel,    *)
(* unless open follows links in a circle.                                  *)
PathCallsEnd ==
    phase \in {"find", "clear", "push", "load"} /\ (call = "exec" \/ ~Circular(name))
        ~> phase \notin {"find", "clear", "push", "load"}

(* exec does all or nothing: if it returns, the old program still has its  *)
(* memory; if it starts the new one, that is the file that was named, with *)
(* all its segments and at its entry point.                                *)
ExecReplacesWhole ==
    /\ phase = "user" => mem = None
    /\ phase = "started" => /\ node = Named(name)
                            /\ INode(node).executable
                            /\ entry = INode(node).entry
                            /\ loaded = Len(INode(node).segments)

(* The string at address a, up to its terminator.                          *)
StringAt(a) ==
    LET end == CHOOSE e \in a..Top - 1 : mem[e] = 0 /\ \A x \in a..e - 1 : mem[x] # 0
    IN  [i \in 1..end - a |-> mem[a + i - 1]]

(* main(argc, argv) of the new program finds the arguments that the old    *)
(* one gave to execl, although they were in the memory exec has cleared,   *)
(* on an aligned stack.                                                    *)
ArgumentsOnStack ==
    phase = "started" =>
        LET argv == mem[sp + 4] IN
        /\ sp % 4 = 0
        /\ mem[sp] = Len(args)
        /\ \A i \in DOMAIN args : StringAt(mem[argv + 4 * (i - 1)]) = args[i]
        /\ mem[argv + 4 * Len(args)] = 0
=============================================================================
