----------------------------- MODULE BytePusher -----------------------------
(***************************************************************************)
(* The BytePusher core: a machine whose only instruction copies one byte   *)
(* of memory and jumps, a fixed number of times in every frame.  Keys,     *)
(* program counter, screen and sound are cells of the memory:              *)
(*                                                                         *)
(*   0, 1      the keys that are held                                      *)
(*   2, 3, 4   where the frame's first instruction is                      *)
(*   5         which bank of memory is the screen                          *)
(*   6, 7      which page of memory is the sound of a frame                *)
(*                                                                         *)
(* Memory has as many bytes as three bytes address; a page is what the     *)
(* last of the three runs through, a bank what the last two do.            *)
(***************************************************************************)
EXTENDS Integers, Sequences

CONSTANTS
  Radix,      \* the values of a byte (256), at least two
  Levels,     \* the levels of each of the three basic colours (6), at least two
  cpf,        \* c_sys_standard_cpf, the copies in a frame (65536)
  Lengths,    \* the lengths of the program files that are tried
  MaxFrames   \* bound on the frames after a reset; the code has none

VARIABLES
  image,      \* m_file_image: the program as it was loaded
  cells,      \* m_memory
  shown,      \* the colours of the frame that was published last
  heard,      \* the samples that were pushed last
  pressed     \* history: the keys of the frames that were run since the last reset

pusherVars == <<image, cells, shown, heard, pressed>>

c_sys_memory_size == Radix * Radix * Radix
Byte == 0..(Radix - 1)
Address == 0..(c_sys_memory_size - 1)

\* validate_program(): why a file is turned away, but for its name.
valid(file) == Len(file) \in 1..c_sys_memory_size

\* MirroredMemory: an address past the end is one at the start.
At(ram, address) == ram[address % c_sys_memory_size]

\* read_data(): one, two or three bytes, the most significant first.
Single(ram, pos) == At(ram, pos)
Double(ram, pos) == Radix * At(ram, pos) + At(ram, pos + 1)
Triple(ram, pos) == Radix * Double(ram, pos) + At(ram, pos + 2)

get_program_counter(ram) == Triple(ram, 2)

\* c_bit_colors: the colours of a cube, and black for the bytes that are left.
c_bit_colors(pixel) ==
  LET Level(n) == (n % Levels) * (255 \div (Levels - 1))
  IN  IF pixel < Levels * Levels * Levels
      THEN <<Level(pixel \div (Levels * Levels)), Level(pixel \div Levels), Level(pixel)>>
      ELSE <<0, 0, 0>>

Silence == [s \in Byte |-> 0]

\* A sample is a signed byte.
Signed(byte) == IF 2 * byte < Radix THEN byte ELSE byte - Radix
-----------------------------------------------------------------------------
\* copy_file_image_to() of memory that was cleared: the program from the start, then zeroes.
Loaded(file) == [a \in Address |-> IF a < Len(file) THEN file[a + 1] ELSE 0]

\* Plausible mistake: the program is copied over what its last run has left.
LoadedOver(file) == [a \in Address |-> IF a < Len(file) THEN file[a + 1] ELSE cells[a]]

\* reset_system_data()
Cleared(file) == Loaded(file)

PusherInit ==
  /\ \E n \in Lengths : image \in [1..n -> Byte] /\ valid(image)
  /\ cells = Loaded(image)
  /\ shown = [p \in 0..(Radix * Radix - 1) |-> c_bit_colors(0)]
  /\ heard = Silence /\ pressed = <<>>

\* get_key_states(): a bit for every key that is held or whose alternative is; a machine
\* with bytes of eight bits has sixteen keys.
KeyStates == 0..(Radix * Radix - 1)

\* handle_cycle_loop(): where the first instruction is is read before the keys are written.
\* Both addresses of a copy are read before it, the jump after it: an instruction may write
\* its own jump.
Copy(m) ==
  LET ram == [m.ram EXCEPT ![Triple(m.ram, m.at + 3)] = At(m.ram, Triple(m.ram, m.at))]
  IN  [ram |-> ram, at |-> Triple(ram, m.at + 6)]

handle_cycle_loop(old, keys) ==
  LET start == [ram |-> [old EXCEPT ![0] = keys \div Radix, ![1] = keys % Radix],
                at  |-> get_program_counter(old)]
      after[n \in 0..cpf] == IF n = 0 THEN start ELSE Copy(after[n - 1])
  IN  after[cpf].ram

\* push_audio_data() and push_video_data() take a page and a bank without mirroring.
Samples(ram) == [s \in Byte |-> Signed(ram[Radix * Double(ram, 6) + s])]
Screen(ram) ==
  [p \in 0..(Radix * Radix - 1) |-> c_bit_colors(ram[Radix * Radix * Single(ram, 5) + p])]

\* main_system_loop(): the program runs, then the sound and the screen are taken from what
\* it has left.
PusherFrame ==
  /\ Len(pressed) < MaxFrames
  /\ \E keys \in KeyStates :
       /\ pressed' = Append(pressed, keys)
       /\ cells' = handle_cycle_loop(cells, keys)
  /\ heard' = Samples(cells') /\ shown' = Screen(cells') /\ UNCHANGED image

\* main_system_loop() of a paused system.
PausedFrame == heard' = Silence /\ UNCHANGED <<image, cells, shown, pressed>>

\* perform_instance_reset(), by the thread that runs the frames.
PusherReset == cells' = Cleared(image) /\ pressed' = <<>> /\ UNCHANGED <<image, shown, heard>>

PusherNext == PusherFrame \/ PausedFrame \/ PusherReset
-----------------------------------------------------------------------------
\* The memory that a file leaves that was just loaded, after frames with these keys.
Replayed(file, keys) ==
  LET after[n \in 0..Len(keys)] ==
        IF n = 0 THEN Loaded(file) ELSE handle_cycle_loop(after[n - 1], keys[n])
  IN  after[Len(keys)]

\* What a program does depends on its file and on the keys since its last reset: what an
\* earlier run wrote, the jumps that it rewrote and pauses between the frames leave no trace.
\* The screen and the sound, if there is one, are of the memory that the last frame left.
FramesReplay ==
  LET replayed == Replayed(image, pressed)
  IN  /\ cells = replayed
      /\ pressed # <<>> => shown = Screen(replayed) /\ heard \in {Silence, Samples(replayed)}
=============================================================================
