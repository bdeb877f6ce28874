------------------------------- MODULE Colours -------------------------------
(***************************************************************************)
(* How colours are mixed (utilities/ColorOps.hpp, EzMaths.hpp): in eight   *)
(* bits, without a division.  One channel and the alpha of a pixel are     *)
(* drawn over, blended with a layer, or weighted.  The three channels are  *)
(* mixed alike, and none depends on another.                               *)
(*                                                                         *)
(* And how a pixel of the small displays fades: its low bits remember when *)
(* it was lit.  The trails are a trait of the system that no menu sets yet.*)
(***************************************************************************)
EXTENDS Integers

CONSTANTS
  Levels,    \* the values of a channel that is drawn; any byte in the code
  Weights    \* the weights and alphas; any byte in the code

VARIABLES
  paper,     \* the pixel that is drawn over: its channel and its alpha
  ink,       \* history: what was drawn over it
  blend,     \* history: the operation, and for a blend its mode; "new" before it
  weight,    \* history: its weight
  mixed,     \* the pixel afterwards
  trails,    \* use_pixel_trails()
  shows,     \* the core that shows the pixel, in an execution of "pixel"
  pixel,     \* in m_display_map
  bright,    \* the part of its colour that was shown last
  on,        \* history: was it lit by the last sprite?
  dark       \* history: the frames since it went dark

colorVars == <<paper, ink, blend, weight, mixed, trails, shows, pixel, bright, on, dark>>
mixVars == <<paper, ink, weight, mixed>>
pixelVars == <<trails, shows, pixel, bright, on, dark>>

Byte == 0..255
ASSUME LevelsAssumption == Levels \subseteq Byte /\ Weights \subseteq Byte

MAX == 255
Opaque_A == 255
Transparent_A == 0

Lightening == {"Lighten", "Screen", "ColorDodge", "LinearDodge"}
Darkening == {"Darken", "Multiply", "ColorBurn", "LinearBurn"}
BlendMode ==
  {"None", "Average", "Difference", "Negation", "Overlay", "Glow", "Reflect"}
    \cup Lightening \cup Darkening

Lesser(x, y) == IF x < y THEN x ELSE y
Greater(x, y) == IF x > y THEN x ELSE y
Magnitude(x) == IF x < 0 THEN -x ELSE x
-----------------------------------------------------------------------------
(* Plausible mistakes.                                                     *)

\* Impl: a dodge that divides by the source.
ImplSwapped(how, src, dst) ==
  IF src = 0 THEN 0 ELSE Lesser((dst * MAX) \div src, MAX)

\* Faded: the bit of the lit pixel is shifted with the rest.
FadedWhole(p) == p \div 2
-----------------------------------------------------------------------------
\* x * (y | y << 8) is 257 * x * y.
fixed_mul8(x, y) == (((x * (257 * y)) + 32896) \div 65536) % 256

fixed_lerp8(x, y, w) == (fixed_mul8(x, MAX - w) + fixed_mul8(y, w)) % 256

\* x8(): the inverse of a channel.
x8(x) == MAX - (x % 256)

Glow(src, dst) ==
  IF dst = MAX THEN MAX ELSE Lesser((fixed_mul8(src, dst) * MAX) \div x8(dst), MAX)

\* The blend modes.  A negative quotient is cut towards zero, and raised to zero.
Impl(how, src, dst) ==
  CASE how = "None" -> src
    [] how = "Lighten" -> Greater(src, dst)
    [] how = "Screen" -> x8(fixed_mul8(x8(src), x8(dst)))
    [] how = "ColorDodge" -> IF src = MAX THEN MAX ELSE Lesser((dst * MAX) \div x8(src), MAX)
    [] how = "LinearDodge" -> Lesser(src + dst, MAX)
    [] how = "Darken" -> Lesser(src, dst)
    [] how = "Multiply" -> fixed_mul8(src, dst)
    [] how = "ColorBurn" -> IF src = 0 THEN 0 ELSE (Greater(src + dst - MAX, 0) * MAX) \div src
    [] how = "LinearBurn" -> Greater(src + dst - MAX, 0)
    [] how = "Average" -> (src + dst + 1) \div 2
    [] how = "Difference" -> Magnitude(src - dst)
    [] how = "Negation" -> x8(Magnitude(MAX - (src + dst)))
    [] how = "Overlay" -> IF src < 128 THEN (fixed_mul8(src, dst) * 2) % 256
                          ELSE x8(fixed_mul8(x8(src), x8(dst)) * 2)
    [] how = "Glow" -> Glow(src, dst)
    [] how = "Reflect" -> Glow(dst, src)

channel_blend(how, src, dst) == [c |-> Impl(how, src.c, dst.c), a |-> Opaque_A]

weighted_alpha_blend(src, dst, w) ==
  CASE w = Opaque_A -> src
    [] w = Transparent_A -> dst
    [] OTHER -> [c |-> fixed_lerp8(dst.c, src.c, w), a |-> fixed_lerp8(dst.a, src.a, w)]

alpha_blend(src, dst) == weighted_alpha_blend(src, dst, src.a)

composite_blend(how, src, dst, w) ==
  IF fixed_mul8(src.a, w) = 0 THEN dst
  ELSE weighted_alpha_blend(channel_blend(how, src, dst), dst, fixed_mul8(src.a, w))

premul(src, w) == [c |-> fixed_mul8(src.c, w), a |-> w]
-----------------------------------------------------------------------------
(* The small displays: what a frame shows of a pixel, and what it leaves of it.            *)

c_bit_weight ==
  [p \in 0..15 |-> CASE p = 1 -> 55 [] p \in 2..3 -> 103 [] p \in 4..7 -> 231 [] OTHER -> MAX]

\* (p & 8) | (p >> 1)
Faded(p) == (p \div 2) + IF p >= 8 THEN 8 ELSE 0

Weighted(p) == IF p = 0 THEN 0 ELSE c_bit_weight[p]
Full(lit) == IF lit THEN MAX ELSE 0

CHIP8_MODERN_push(p) ==
  [shown |-> IF trails THEN Weighted(p) ELSE Full(p >= 8), left |-> Faded(p)]

CHIP8E_push(p) ==
  IF trails THEN [shown |-> Weighted(p), left |-> Faded(p)]
  ELSE [shown |-> Full(p >= 8), left |-> p]

CHIP8X_push(p) ==
  IF trails THEN [shown |-> Weighted(p), left |-> Faded(p)]
  ELSE [shown |-> Full(p # 0), left |-> p]

SCHIP_LEGACY_push(p) ==
  IF trails THEN [shown |-> Weighted(p), left |-> Faded(p)]
  ELSE [shown |-> Full(p >= 8), left |-> p]

\* The large screen shows a pixel of the small mode four times.
SCHIP_MODERN_push(p) ==
  IF trails THEN [shown |-> Weighted(p), left |-> Faded(p)]
  ELSE [shown |-> Full(p >= 8), left |-> p]

\* A pixel never fades here, with trails as without.
MEGACHIP_push(p) ==
  [shown |-> IF trails THEN Weighted(p) ELSE Full(p >= 8), left |-> p]

push(p) ==
  CASE shows = "CHIP8_MODERN" -> CHIP8_MODERN_push(p)
    [] shows = "CHIP8E"       -> CHIP8E_push(p)
    [] shows = "CHIP8X"       -> CHIP8X_push(p)
    [] shows = "SCHIP_LEGACY" -> SCHIP_LEGACY_push(p)
    [] shows = "SCHIP_MODERN" -> SCHIP_MODERN_push(p)
    [] OTHER                  -> MEGACHIP_push(p)
-----------------------------------------------------------------------------
Ink == [c : Levels, a : Weights]

ColorInit ==
  /\ paper = [c |-> 0, a |-> Opaque_A]
  /\ ink = paper /\ blend \in {"new", "pixel"} /\ weight = 0 /\ mixed = paper
  /\ trails \in BOOLEAN
  /\ shows \in {"CHIP8_MODERN", "CHIP8E", "CHIP8X", "SCHIP_LEGACY", "SCHIP_MODERN", "MEGACHIP"}
  /\ blend = "new" => ~trails /\ shows = "CHIP8_MODERN"
  /\ pixel = 0 /\ bright = 0 /\ on = FALSE /\ dark = 4

\* draw_texture(): a texture of some opacity is drawn with a blend mode.
Composite(how, src, w) ==
  /\ mixed' = composite_blend(how, src, paper', w)
  /\ blend' = how /\ ink' = src /\ weight' = w

\* flush_all_video_buffers(): one layer is put over another.
Flush(src) ==
  /\ mixed' = alpha_blend(src, paper')
  /\ blend' = "alpha" /\ ink' = src /\ weight' = src.a

\* push_video_data(): a pixel that is fading.
Fade(w) ==
  /\ mixed' = premul(paper', w)
  /\ blend' = "premul" /\ weight' = w /\ UNCHANGED ink

\* One mix, over a pixel of any level.
Mix ==
  /\ blend = "new"
  /\ paper' \in [c : Levels, a : {Opaque_A}]
  /\ \/ \E how \in BlendMode, src \in Ink, w \in Weights : Composite(how, src, w)
     \/ \E src \in Ink : Flush(src)
     \/ \E w \in Byte : Fade(w)
  /\ UNCHANGED pixelVars

\* draw_byte(): pixel ^= 8.
Flip ==
  /\ pixel' = IF pixel >= 8 THEN pixel - 8 ELSE pixel + 8
  /\ on' = ~on
  /\ UNCHANGED <<bright, dark>>

\* 00E0, and what a scroll brings in.
Erase ==
  /\ pixel' = 0 /\ on' = FALSE
  /\ UNCHANGED <<bright, dark>>

PushPixel ==
  /\ bright' = push(pixel).shown
  /\ pixel' = push(pixel).left
  /\ dark' = IF on THEN 0 ELSE Lesser(dark + 1, 4)
  /\ UNCHANGED on

PixelNext ==
  /\ blend = "pixel"
  /\ Flip \/ Erase \/ PushPixel
  /\ UNCHANGED <<mixVars, blend, trails, shows>>

ColorNext == Mix \/ PixelNext

ColorSpec == ColorInit /\ [][ColorNext]_colorVars
-----------------------------------------------------------------------------
Between(x, y, z) == (x <= y /\ y <= z) \/ (z <= y /\ y <= x)

\* A product of two bytes is rounded to the nearest, no mix leaves the range between
\* what it mixes, and an opaque pixel stays opaque: without that the fade of a pixel
\* or a texture drawn often would get darker, or wrap.  The modes do what their
\* headings say: one that lightens never darkens, and one that darkens never lightens.
MixIsBetween ==
  CASE blend \in {"new", "pixel"} -> TRUE
    [] blend = "premul" -> Magnitude(MAX * mixed.c - paper.c * weight) <= 127
    [] blend = "alpha" -> Between(paper.c, mixed.c, ink.c)
    [] OTHER -> /\ mixed.a = Opaque_A
                /\ Between(paper.c, mixed.c, Impl(blend, ink.c, paper.c))
                /\ blend \in Lightening => mixed.c >= paper.c
                /\ blend \in Darkening => mixed.c <= paper.c

\* A lit pixel is shown at full strength however long it is lit and however it flickered;
\* one that is dark gets weaker with each frame and is gone after three, and at once if
\* there are no trails.
PixelFades ==
  IF dark = 0 THEN bright = MAX
  ELSE bright * dark <= MAX /\ (dark > 3 \/ ~trails => bright = 0)

\* No mix leaves the range of what it mixes, and a pixel that goes dark fades.
MixesStayBetween == MixIsBetween /\ PixelFades
=============================================================================
