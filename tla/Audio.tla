------------------------------- MODULE Audio -------------------------------
(***************************************************************************)
(* Playing a .wav file: the system call play_audio of kernel/sys.cc, the   *)
(* search for the header and the filling of the buffers in                 *)
(* kernel/process.cc, and the AC97 driver of kernel/pci.cc.                *)
(*                                                                         *)
(* There is one sound card, with one list of buffers and one control       *)
(* register, and no lock: several processes may play at once.  Each has a  *)
(* descriptor of its own (OpenFile is about shared ones), which it opens,  *)
(* seeks in and plays as often as it likes; a call begins wherever the     *)
(* descriptor is, and leaves it where the sound ended.                     *)
(*                                                                         *)
(* A cell is four bytes: a tag, a number, or two samples.  A file is a     *)
(* sequence of cells, and sizes and offsets count cells; WAVHeader has     *)
(* eleven.  A tag, read as a number, is larger than any file.              *)
(***************************************************************************)
EXTENDS Integers, Sequences, FiniteSets, FiniteSetsExt

CONSTANTS
    Player,         \* the processes that call play_audio
    MaxCalls,       \* bounds how often they do so, together
    File, Choice,   \* what they may try to play, and each of them
    Position,       \* where they may seek to
    Wav, Sound,     \* those of the expected format, and the sound they hold
    Layout,         \* the cells before each of their chunks
    Memory,         \* what a new WAVHeader may hold: it is not initialised
    Noise,          \* the same for a cell of a new buffer
    Bus,            \* which devices the PCI bus may have, slot by slot
    AC97,           \* vendor and device id of the sound card
    WAVE, FMT, DATA,
    BufferSize, NumBuffers,     \* BUFFER_SIZE and NUM_BUFFERS
    Hz,             \* 1000: jiffies per second
    Word, Short     \* 2^32 and 2^16

(* A sample takes half a cell.                                             *)
Samples(cells) == 2 * cells

(* A .wav file of the expected format: a form tag, and one chunk behind    *)
(* the other, each with a tag and a size.  The first fmt chunk has four    *)
(* cells, the byte rate among them, and the first data chunk after it is   *)
(* the sound.                                                              *)
IsWav(f, sound, l) ==
    /\ {3, l.fmt, l.data} \subseteq l.chunks /\ l.fmt < l.data
    /\ \A c \in l.chunks : c <= l.data /\ (c < l.data => c + 2 + f[c + 2] \in l.chunks)
    /\ \A c, d \in l.chunks : c < d => c + 2 + f[c + 2] <= d
    /\ \A c \in l.chunks : c < l.fmt => f[c + 1] # FMT
    /\ \A c \in l.chunks : l.fmt < c /\ c < l.data => f[c + 1] # DATA
    /\ l.data + 2 + Len(sound) <= Len(f)
    /\ f[3] = WAVE
    /\ f[l.fmt + 1] = FMT /\ f[l.fmt + 2] = 4 /\ f[l.fmt + 5] > 0
    /\ f[l.data + 1] = DATA /\ f[l.data + 2] = Len(sound)
    /\ \A k \in 1..Len(sound) : f[l.data + 2 + k] = sound[k]

(* A longer fmt chunk is not for this header: it has no room for it.       *)
ASSUME AudioAssumption ==
    /\ File \subseteq Seq(Nat) /\ Wav \subseteq File
    /\ \A f \in Wav :
          /\ Sound[f] \in Seq(Nat)
          /\ Layout[f] \in [chunks : SUBSET Nat, fmt : Nat, data : Nat]
          /\ IsWav(f, Sound[f], Layout[f])
    /\ \A f \in File : \A i \in 1..(Len(f) - 1) : f[i] = FMT => f[i + 1] <= 5
    /\ \A f \in File : Len(f) < WAVE /\ Len(f) < FMT /\ Len(f) < DATA /\ Len(f) < Word
    /\ Position \subseteq Nat /\ MaxCalls \in Nat
    /\ Choice \in [Player -> SUBSET File]
    /\ Memory \subseteq [0..10 -> Nat] /\ Noise \in Nat
    /\ BufferSize \in Nat \ {0} /\ NumBuffers \in Nat \ {0} /\ Hz \in Nat \ {0}
    /\ Short > Samples(BufferSize) /\ Word \in Nat \ {0}

VARIABLES
    bus, card,          \* the bus, and the slot of the card: 0 before the search, -1 if none
    list, lvi,          \* audio_buffers, and the last one the card is to play
    rate, control,      \* the other registers of the card
    jiffies,
    calls,              \* how often play_audio has been called
    pc,
    file, offset,       \* the descriptor of each player
    wavhdr,
    dataSize, totalSamples,
    filled, target,     \* i in fillBuffers, target in play
    rewound,            \* history: those whose call began at the start of the file
    since, ran,         \* history of a call: jiffies at the start and in all
    sounded,            \* ... what was in the list at each start
    disturbed           \* ... and those who used the card with another

registers == <<list, lvi, rate, control>>
reading == <<file, offset, wavhdr>>
counts == <<dataSize, totalSamples>>
begun == <<calls, rewound>>
history == <<since, ran, sounded, disturbed>>
vars == <<bus, card, registers, jiffies, pc, begun, reading, counts, filled, target, history>>

Buffer == 0..(NumBuffers - 1)

Init ==
    /\ bus \in Bus /\ card = 0
    /\ list = <<>> /\ lvi = 0 /\ rate = 0 /\ control = "clear"
    /\ jiffies = 0
    /\ pc = [p \in Player |-> "out"]
    /\ calls = 0
    /\ file = [p \in Player |-> <<>>]
    /\ offset = [p \in Player |-> 0]
    /\ wavhdr = [p \in Player |-> <<>>]
    /\ dataSize = [p \in Player |-> 0]
    /\ totalSamples = [p \in Player |-> 0]
    /\ filled = [p \in Player |-> 0]
    /\ target = [p \in Player |-> 0]
    /\ rewound = {}
    /\ since = [p \in Player |-> 0]
    /\ ran = [p \in Player |-> 0]
    /\ sounded = [p \in Player |-> <<>>]
    /\ disturbed = {}

-----------------------------------------------------------------------------
(* The card                                                                *)

(* setupDMABuffers: the buffers, which are never freed.                    *)
SetupDMABuffers ==
    list' = [i \in Buffer |-> [length |-> Samples(BufferSize) - 1,
                              cells |-> [k \in 1..BufferSize |-> Noise]]]

InitializeCodec == control' = "reset" /\ SetupDMABuffers

(* findAC97, in the boot processor: the first slot that answers with the   *)
(* right ids.                                                              *)
FindAC97 ==
    /\ card = 0
    /\ \E s \in DOMAIN bus : bus[s] = AC97
    /\ card' = Min({s \in DOMAIN bus : bus[s] = AC97})
    /\ InitializeCodec
    /\ UNCHANGED <<bus, lvi, rate, jiffies, pc, begun, reading, counts, filled, target, history>>

(* ... or there is none, and the kernel panics.                            *)
NoAC97 ==
    /\ card = 0
    /\ \A s \in DOMAIN bus : bus[s] # AC97
    /\ card' = -1
    /\ UNCHANGED <<bus, registers, jiffies, pc, begun, reading, counts, filled, target, history>>

(* The card clears the reset bit when it has done the reset.  It is taken  *)
(* to keep the address of the list and lvi, which fillBuffers writes       *)
(* before it asks for a reset and not again.                               *)
ResetDone ==
    /\ control = "reset"
    /\ control' = "clear"
    /\ UNCHANGED <<bus, card, list, lvi, rate, jiffies, pc, begun, reading, counts,
                   filled, target, history>>

(* The timer interrupt of core 0.  The ticks that change what a player     *)
(* sees are those it waits for.                                            *)
Tick ==
    /\ \E p \in Player : pc[p] = "playing" /\ jiffies < target[p]
    /\ jiffies' = (jiffies + 1) % Word
    /\ UNCHANGED <<bus, card, registers, pc, begun, reading, counts, filled, target, history>>

-----------------------------------------------------------------------------
(* findWavHDR                                                              *)

(* OpenFileStruct: what a read of n cells at o delivers, and where a seek  *)
(* from o to position q ends.                                              *)
Cells(f, o, n) == SubSeq(f, o + 1, IF o + n <= Len(f) THEN o + n ELSE Len(f))
Sought(f, o, q) == IF q > Len(f) THEN o ELSE q

(* The cells h after s has been read to cell at.                           *)
Into(h, at, s) ==
    [k \in DOMAIN h |-> IF k - at + 1 \in DOMAIN s THEN s[k - at + 1] ELSE h[k]]

(* The player is in no system call: it has not opened a file yet, or it    *)
(* has, or its last play_audio has returned.                               *)
Idle(p) == pc[p] \in {"out", "open", "refused", "played"}

(* open: a descriptor at the start of the file.                            *)
Open(p, f) ==
    /\ card > 0 /\ Idle(p) /\ calls < MaxCalls
    /\ file' = [file EXCEPT ![p] = f]
    /\ offset' = [offset EXCEPT ![p] = 0]
    /\ pc' = [pc EXCEPT ![p] = "open"]
    /\ UNCHANGED <<bus, card, registers, jiffies, begun, wavhdr, counts, filled, target, history>>

(* seek to q.  A read, too, ends where some seek does.                     *)
Seek(p, q) ==
    /\ Idle(p) /\ pc[p] # "out" /\ calls < MaxCalls
    /\ offset' = [offset EXCEPT ![p] = Sought(file[p], @, q)]
    /\ pc' = [pc EXCEPT ![p] = "open"]
    /\ UNCHANGED <<bus, card, registers, jiffies, begun, file, wavhdr, counts, filled,
                   target, history>>

(* play_audio with an open file: a new WAVHeader, and four cells read into *)
(* it from where the descriptor is.  The variables of the last call are    *)
(* gone.  Without a file, or with the console, it returns and changes      *)
(* nothing.                                                                *)
PlayAudio(p, h) ==
    LET s == Cells(file[p], offset[p], 4) IN
    /\ Idle(p) /\ pc[p] # "out" /\ calls < MaxCalls
    /\ calls' = calls + 1
    /\ rewound' = IF offset[p] = 0 THEN rewound \cup {p} ELSE rewound \ {p}
    /\ wavhdr' = [wavhdr EXCEPT ![p] = Into(h, 0, s)]
    /\ offset' = [offset EXCEPT ![p] = @ + Len(s)]
    /\ dataSize' = [dataSize EXCEPT ![p] = 0]
    /\ totalSamples' = [totalSamples EXCEPT ![p] = 0]
    /\ filled' = [filled EXCEPT ![p] = 0]
    /\ target' = [target EXCEPT ![p] = 0]
    /\ since' = [since EXCEPT ![p] = 0]
    /\ ran' = [ran EXCEPT ![p] = 0]
    /\ sounded' = [sounded EXCEPT ![p] = <<>>]
    /\ disturbed' = disturbed \ {p}
    /\ pc' = [pc EXCEPT ![p] = "fmt"]
    /\ UNCHANGED <<bus, card, registers, jiffies, file>>

(* What a process may do of its own accord.                                *)
Call(p) ==
    \/ \E f \in Choice[p] : Open(p, f)
    \/ \E q \in Position : Seek(p, q)
    \/ \E h \in Memory : PlayAudio(p, h)

(* A file is read into the header, which is then h, up to position o.      *)
HeaderRead(p, h, o) ==
    /\ wavhdr' = [wavhdr EXCEPT ![p] = h]
    /\ offset' = [offset EXCEPT ![p] = o]
    /\ UNCHANGED <<bus, card, registers, jiffies, begun, file, counts, filled, target, history>>

(* Mutant: the size is taken for a position in the file.                   *)
Skipped_Absolute(f, behind, size) == Sought(f, behind, size % Word)

(* Where a seek over size cells ends: the sum is one of 32 bits.           *)
Skipped(f, behind, size) == Sought(f, behind, (behind + size) % Word)

(* One round of either loop of findWavHDR: with a tag in cell t, the size  *)
(* is read behind it, that many cells are skipped, and the next tag is     *)
(* read.  At the end of the file nothing is read and nothing changes.      *)
SkipChunk(p, t) ==
    \E size \in {Cells(file[p], offset[p], 1)} :
    \E h \in {Into(wavhdr[p], t + 1, size)} :
    \E next \in {Skipped(file[p], offset[p] + Len(size), h[t + 1])} :
    \E tag \in {Cells(file[p], next, 1)} :
       HeaderRead(p, Into(h, t, tag), next + Len(tag))

(* Cells of WAVHeader, counted from 0.                                     *)
Magic(p) == wavhdr[p][2]
Fmt(p) == wavhdr[p][3]
SampleRate(p) == wavhdr[p][6]
SampleRateEq(p) == wavhdr[p][7]
BitsPerSample(p) == wavhdr[p][8]
Data(p) == wavhdr[p][9]
DataSize(p) == wavhdr[p][10]

SkipToFmt(p) ==
    /\ pc[p] = "fmt" /\ Fmt(p) # FMT
    /\ SkipChunk(p, 3)
    /\ UNCHANGED pc

(* The fmt chunk: its length, and that many cells and one, the next tag.   *)
ReadFmt(p) ==
    LET f == file[p]
        length == Cells(f, offset[p], 1)
        h == Into(wavhdr[p], 4, length)
        behind == offset[p] + Len(length)
        rest == Cells(f, behind, h[4] + 1)
    IN
    /\ pc[p] = "fmt" /\ Fmt(p) = FMT
    /\ HeaderRead(p, Into(h, 5, rest), behind + Len(rest))
    /\ pc' = [pc EXCEPT ![p] = "data"]

SkipToData(p) ==
    /\ pc[p] = "data" /\ Data(p) # DATA
    /\ SkipChunk(p, 9)
    /\ UNCHANGED pc

(* The data chunk: its size.  The sound begins behind it.                  *)
ReadData(p) ==
    LET size == Cells(file[p], offset[p], 1) IN
    /\ pc[p] = "data" /\ Data(p) = DATA
    /\ HeaderRead(p, Into(wavhdr[p], 10, size), offset[p] + Len(size))
    /\ pc' = [pc EXCEPT ![p] = "header"]

-----------------------------------------------------------------------------
(* play_audio, from its test of the header on                              *)

Refuse(p) ==
    /\ pc[p] = "header" /\ Magic(p) # WAVE
    /\ pc' = [pc EXCEPT ![p] = "refused"]
    /\ UNCHANGED <<bus, card, registers, jiffies, begun, reading, counts, filled, target, history>>

(* totalSamples begins with what the rate says, not with the size.         *)
Accept(p) ==
    /\ pc[p] = "header" /\ Magic(p) = WAVE
    /\ dataSize' = [dataSize EXCEPT ![p] = DataSize(p)]
    /\ totalSamples' = [totalSamples EXCEPT ![p] =
                          ((SampleRate(p) * (BitsPerSample(p) \div 8)) % Word) \div 2]
    /\ pc' = [pc EXCEPT ![p] = "next"]
    /\ UNCHANGED <<bus, card, registers, jiffies, begun, reading, filled, target, history>>

Finish(p) ==
    /\ pc[p] = "next" /\ dataSize[p] = 0
    /\ pc' = [pc EXCEPT ![p] = "played"]
    /\ UNCHANGED <<bus, card, registers, jiffies, begun, reading, counts, filled, target, history>>

(* What is left does not fill the list.                                    *)
IsLast(p) == dataSize[p] < NumBuffers * BufferSize

(* What this list plays, and num_buffers: the buffers it fills.            *)
ListSize(p) == IF IsLast(p) THEN dataSize[p] ELSE NumBuffers * BufferSize
Full(p) == ListSize(p) \div BufferSize

(* Mutant: the last, partly filled buffer is not counted.                  *)
LastValid_Full(p) == IF Full(p) = 0 THEN 0 ELSE Full(p) - 1

(* The index of the last buffer of the list.                               *)
LastValid(p) == Full(p) + (IF IsLast(p) THEN 0 ELSE -1)

(* The card is in the hands of p, from fillBuffers to the end of play.     *)
Using(p) == pc[p] \in {"fill", "resetting", "start", "target", "playing"}

(* fillBuffers begins: it tells the card where the list is and ends.       *)
FillBuffers(p) ==
    /\ pc[p] = "next" /\ dataSize[p] > 0
    /\ lvi' = LastValid(p)
    /\ filled' = [filled EXCEPT ![p] = 0]
    /\ disturbed' = LET others == {q \in Player \ {p} : Using(q)} IN
                    disturbed \cup others \cup (IF others = {} THEN {} ELSE {p})
    /\ pc' = [pc EXCEPT ![p] = "fill"]
    /\ UNCHANGED <<bus, card, list, rate, control, jiffies, begun, reading, counts,
                   target, since, ran, sounded>>

(* Buffer i of the list gets the next n cells and the given length.        *)
Fill(p, n, length) ==
    LET s == Cells(file[p], offset[p], n) IN
    /\ pc[p] = "fill"
    /\ list' = [list EXCEPT ![filled[p]] =
                  [length |-> length, cells |-> Into(@.cells, 1, s)]]
    /\ offset' = [offset EXCEPT ![p] = @ + Len(s)]
    /\ filled' = [filled EXCEPT ![p] = @ + 1]
    /\ UNCHANGED <<bus, card, lvi, rate, control, jiffies, begun, pc, file, wavhdr,
                   counts, target, history>>

FillOne(p) ==
    /\ filled[p] < Full(p)
    /\ Fill(p, BufferSize, Samples(BufferSize) - 1)

(* The buffer behind the full ones; its length is 16 bits of what          *)
(* totalSamples has come to.                                               *)
FillLast(p) ==
    /\ IsLast(p) /\ filled[p] = Full(p)
    /\ Fill(p, dataSize[p] % BufferSize,
            (totalSamples[p] - Full(p) * Samples(BufferSize) - 1) % Short)

(* fillBuffers ends: the sample rate, and a reset of the card ...          *)
Reset(p) ==
    /\ pc[p] = "fill"
    /\ filled[p] = Full(p) + (IF IsLast(p) THEN 1 ELSE 0)
    /\ rate' = SampleRate(p) % Short
    /\ control' = "reset"
    /\ pc' = [pc EXCEPT ![p] = "resetting"]
    /\ UNCHANGED <<bus, card, list, lvi, jiffies, begun, reading, counts, filled, target, history>>

(* ... which is waited for.                                                *)
ResetSeen(p) ==
    /\ pc[p] = "resetting" /\ control # "reset"
    /\ pc' = [pc EXCEPT ![p] = "start"]
    /\ UNCHANGED <<bus, card, registers, jiffies, begun, reading, counts, filled, target, history>>

-----------------------------------------------------------------------------
(* play                                                                    *)

(* What the card is given to play: the buffers up to lvi.                  *)
Listed == [k \in 1..((lvi + 1) * BufferSize) |->
             list[(k - 1) \div BufferSize].cells[((k - 1) % BufferSize) + 1]]

Start(p) ==
    /\ pc[p] = "start" /\ SampleRateEq(p) # 0
    /\ control' = "run"
    /\ since' = [since EXCEPT ![p] = jiffies]
    /\ sounded' = [sounded EXCEPT ![p] =
                     @ \o SubSeq(Listed, 1, Min({ListSize(p), Len(Listed)}))]
    /\ pc' = [pc EXCEPT ![p] = "target"]
    /\ UNCHANGED <<bus, card, list, lvi, rate, jiffies, begun, reading, counts, filled,
                   target, ran, disturbed>>

(* A rate of 0 is divided by before play begins.  Nothing handles the      *)
(* fault: the machine resets, with its card and everybody else.            *)
DivideByZero(p) ==
    /\ pc[p] = "start" /\ SampleRateEq(p) = 0
    /\ control' = "clear"
    /\ pc' = [q \in Player |-> IF q = p THEN "divided" ELSE "gone"]
    /\ UNCHANGED <<bus, card, list, lvi, rate, jiffies, begun, reading, counts, filled,
                   target, history>>

(* How long a list of n cells lasts: whole seconds, and the rest.          *)
Jiffies(p, n) ==
    LET duration == n \div SampleRateEq(p)
        rest == (((n % SampleRateEq(p)) * Hz) % Word) \div SampleRateEq(p)
    IN  ((Hz * duration) % Word) + rest

(* The end of playing is computed.  What remains is computed in play_audio *)
(* before, but it is p's own.  The test of duration against -1 there is    *)
(* never true: a list is shorter than that.                                *)
SetTarget(p) ==
    /\ pc[p] = "target"
    /\ target' = [target EXCEPT ![p] = (jiffies + Jiffies(p, ListSize(p))) % Word]
    /\ dataSize' = [dataSize EXCEPT ![p] = @ - ListSize(p)]
    /\ totalSamples' = [totalSamples EXCEPT ![p] =
          IF IsLast(p) THEN 0 ELSE (@ - Samples(ListSize(p))) % Word]
    /\ pc' = [pc EXCEPT ![p] = "playing"]
    /\ UNCHANGED <<bus, card, registers, jiffies, begun, reading, filled, history>>

(* Mutant: the card is left running.                                       *)
Stop_Forgotten(p) ==
    /\ pc[p] = "playing" /\ jiffies >= target[p]
    /\ ran' = [ran EXCEPT ![p] = @ + jiffies - since[p]]
    /\ pc' = [pc EXCEPT ![p] = "next"]
    /\ UNCHANGED <<bus, card, registers, jiffies, begun, reading, counts, filled,
                   target, since, sounded, disturbed>>

(* The time has come: the card is reset, which stops it.                   *)
Stop(p) ==
    /\ pc[p] = "playing" /\ jiffies >= target[p]
    /\ control' = "reset"
    /\ ran' = [ran EXCEPT ![p] = @ + jiffies - since[p]]
    /\ pc' = [pc EXCEPT ![p] = "next"]
    /\ UNCHANGED <<bus, card, list, lvi, rate, jiffies, begun, reading, counts, filled,
                   target, since, sounded, disturbed>>

-----------------------------------------------------------------------------

Step(p) ==
    \/ SkipToFmt(p)
    \/ ReadFmt(p)
    \/ SkipToData(p)
    \/ ReadData(p)
    \/ Refuse(p)
    \/ Accept(p)
    \/ Finish(p)
    \/ FillBuffers(p)
    \/ FillOne(p)
    \/ FillLast(p)
    \/ Reset(p)
    \/ ResetSeen(p)
    \/ Start(p)
    \/ DivideByZero(p)
    \/ SetTarget(p)
    \/ Stop(p)

Next ==
    \/ FindAC97
    \/ NoAC97
    \/ ResetDone
    \/ Tick
    \/ \E p \in Player :
          \/ Call(p)
          \/ Step(p)

(* The card and the timer go on, and so does a process in a system call:   *)
(* its loops wait with interrupts enabled (sysHandler is a trap) and it is *)
(* scheduled again (ReadyRuns of Threads).  Nobody has to play.            *)
Fairness ==
    /\ WF_vars(ResetDone)
    /\ WF_vars(Tick)
    /\ \A p \in Player : WF_vars(Step(p))

Spec == Init /\ [][Next]_vars /\ Fairness

-----------------------------------------------------------------------------

(* The call began at the start of a file in the expected format.           *)
Proper(p) == file[p] \in Wav /\ p \in rewound

(* When play_audio says that it has played a file in the expected format   *)
(* from its start, for the first time or again, and nobody else has used   *)
(* the card meanwhile, the lists it gave to the card held the sound of the *)
(* file, all of it and in order, and the card had the time to play it, to  *)
(* less than a jiffy for each list.                                        *)
PlaysTheSound ==
    \A p \in Player :
       LET sound == Sound[file[p]]
           lists == Cardinality({k \in 0..Len(sound) :
                                   k < Len(sound) /\ k % (NumBuffers * BufferSize) = 0})
       IN
       pc[p] = "played" /\ Proper(p) /\ p \notin disturbed =>
          /\ sounded[p] = sound
          /\ SampleRateEq(p) * (ran[p] + lists) >= Hz * Len(sound)

(* The card runs only as long as somebody waits in play: it is silent      *)
(* before its buffers are filled again and after the last player has left, *)
(* even if players disturb each other.                                     *)
StopsPlaying ==
    control = "run" => \E p \in Player : pc[p] \in {"target", "playing"}

(* play_audio of a file in the expected format, begun at its start,        *)
(* returns, whatever chunks come before the sound, whatever its length,    *)
(* although another player resets the card it waits for, and although      *)
(* other calls, begun elsewhere in their files, never return: findWavHDR   *)
(* then stays at the end of the file.  Only a rate of 0 in another's file  *)
(* stops it, as it stops everything else.                                  *)
PlayEnds ==
    \A p \in Player : pc[p] = "fmt" /\ Proper(p) ~> pc[p] \in {"played", "gone"}
=============================================================================
