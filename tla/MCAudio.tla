------------------------------ MODULE MCAudio ------------------------------
(* Files for the players: sounds of several lengths, and files play_audio  *)
(* is not made for.                                                        *)
EXTENDS Audio

CONSTANTS RIFF, LIST,
    First,      \* a player
    Lengths     \* of the sounds

Chunk(tag, body) == <<tag, Len(body)>> \o body
SoundOf(n) == [k \in 1..n |-> k]
Format == <<1, 7, 3, 16>>       \* 7 frames, or 3 cells, a second, 16 bits

(* A file with the form tag, chunks before fmt and chunks before data.     *)
Riff(form, before, between, n) ==
    <<RIFF, 0, form>> \o before \o Chunk(FMT, Format)
        \o between \o Chunk(DATA, SoundOf(n))

Extra == Chunk(LIST, <<1, 2>>)

Plain(n) == Riff(WAVE, <<>>, <<>>, n)
Tagged == Riff(WAVE, Extra, Chunk(LIST, <<>>) \o Extra, 3)

MCWav == {Plain(n) : n \in Lengths} \cup {Tagged}

MCSound == [f \in MCWav |->
    IF f = Tagged THEN SoundOf(3)
                  ELSE SoundOf(CHOOSE n \in Lengths : f = Plain(n))]

(* The positions of the chunks of a file.                                 *)
ChunksOf(f) == {c \in 3..(Len(f) - 2) : f[c + 1] \in {LIST, FMT, DATA}}
PlaceOf(f, tag) == CHOOSE c \in ChunksOf(f) : f[c + 1] = tag

MCLayout == [f \in MCWav |->
    [chunks |-> ChunksOf(f), fmt |-> PlaceOf(f, FMT), data |-> PlaceOf(f, DATA)]]

Unrated == <<RIFF, 0, WAVE>> \o Chunk(FMT, <<1, 7, 0, 16>>) \o Chunk(DATA, SoundOf(2))

(* Not WAVE; without fmt; with a longer fmt chunk; with a rate of 0; with  *)
(* a size that wraps, back to its own chunk; cut off; and empty.           *)
MCFile == MCWav \cup
    { Riff(LIST, <<>>, <<>>, 2),
      <<RIFF, 0, WAVE>> \o Chunk(DATA, SoundOf(2)),
      <<RIFF, 0, WAVE>> \o Chunk(FMT, Format \o <<0>>) \o Chunk(DATA, SoundOf(2)),
      Unrated,
      <<RIFF, 0, WAVE, LIST, Word - 2>>,
      SubSeq(Plain(5), 1, Len(Plain(5)) - 4),
      <<>> }

(* A new header holds zeros, or what an earlier one held.                  *)
MCMemory == { [k \in 0..10 |-> 0],
              [k \in 0..10 |-> SubSeq(Plain(2), 1, 11)[k + 1]] }

(* One may play anything, the other disturbs it, and either may play twice.*)
MCChoice == [p \in Player |-> IF p = First THEN MCFile ELSE {Tagged, Unrated}]

MCBus == {<<0, AC97, AC97>>, <<0>>}
=============================================================================
