------------------------------- MODULE GopExample -------------------------------
(***************************************************************************)
(* GopExample.c: the video modes are listed, eight boxes and a gradient    *)
(* bar are drawn, and a region of the screen is captured and copied.       *)
(*                                                                         *)
(* Coordinates are UINTN: all arithmetic of the program is modulo Word.    *)
(* Blt refuses a rectangle that is empty or leaves the screen, and its own *)
(* test adds position and size modulo Word as well, so that a size that    *)
(* has wrapped around may pass it.                                         *)
(***************************************************************************)
EXTENDS UefiShell, Integers

CONSTANTS
    Resolutions,  \* resolutions <<width, height>> of the current mode
    MaxMode,      \* Gop->Mode->MaxMode
    Word          \* 2^w for UINTN of w bits

ASSUME WordAssumption == Word \in Nat /\ Word > 1024
ASSUME ModeAssumption == MaxMode \in Nat
\* Four columns and three rows of boxes with a margin of ten pixels and at
\* least one pixel inside: no screen of a PC is smaller.
ASSUME ResolutionAssumption ==
    Resolutions \subseteq {r \in Nat \X Nat :
        84 <= r[1] /\ r[1] < Word \div 2 /\ 63 <= r[2] /\ r[2] < Word \div 2}

VARIABLES
    screen,     \* resolution of the current mode
    mode,       \* loop index of ShowVideoModes
    box,        \* loop index of the boxes
    asked,      \* rectangles Blt was called with, by what they are
    refused     \* those outside the screen, by Blt's own test

drawing == <<screen, box, asked, refused>>
gopFrame == <<mode, drawing>>

Plus(a, b) == (a + b) % Word
Minus(a, b) == (a - b) % Word
Times(a, b) == (a * b) % Word

Width == screen[1]
Height == screen[2]

GopTypeOK ==
    /\ screen \in Resolutions \cup {<<0, 0>>}
    /\ mode \in 0 .. MaxMode /\ box \in 0 .. 8
    /\ refused \subseteq asked

\* The program does not run.
GopInit == screen = <<0, 0>> /\ mode = 0 /\ box = 0 /\ asked = {} /\ refused = {}

--------------------------------------------------------------------------------
(* The rectangles.                                                         *)

Rectangle(what, x, y, w, h) == [what |-> what, x |-> x, y |-> y, w |-> w, h |-> h]

BoxWidth == Width \div 4
BoxHeight == Height \div 3

ThreeColumns(i) == Times(i % 3, BoxWidth)
BoxX(i) == Times(i % 4, BoxWidth)

RowByColumn(i) == Plus(Times(i % 4, BoxHeight), BoxHeight)
BoxY(i) == Plus(Times(i \div 4, BoxHeight), BoxHeight)

Box(i) ==
    Rectangle("box", Plus(BoxX(i), 10), Plus(BoxY(i), 10), Minus(BoxWidth, 20), Minus(BoxHeight, 20))

\* All columns of the gradient: x from 0 to Width - 1, 50, 1, 20.
Bar == Rectangle("bar", 0, 50, Width, 20)

\* Blt's test.
Fits(r) ==
    /\ r.w # 0 /\ r.h # 0
    /\ Plus(r.x, r.w) <= Width /\ Plus(r.y, r.h) <= Height

\* Blt is called with a rectangle.
Blt(r) ==
    /\ asked' = asked \cup {r}
    /\ refused' = IF Fits(r) THEN refused ELSE refused \cup {r}

--------------------------------------------------------------------------------
\* LocateProtocol; without graphics the program returns.
LocateGop ==
    /\ \/ Enter("gop", "modes") /\ screen' \in Resolutions
       \/ Enter("gop", "return") /\ UNCHANGED screen
    /\ UNCHANGED <<pool, mode, box, asked, refused>>

\* ShowVideoModes: QueryMode allocates Info for the caller, or fails and the
\* loop continues.
QueryMode ==
    /\ mode < MaxMode
    /\ \/ Go("gop", "modes", "info") /\ Allocate({"Info"}) /\ UNCHANGED mode
       \/ Go("gop", "modes", "modes") /\ mode' = mode + 1 /\ UNCHANGED pool
    /\ UNCHANGED drawing

\* The mode is shown and Info freed.
ShowMode ==
    /\ Go("gop", "info", "modes")
    /\ Free({"Info"})
    /\ mode' = mode + 1
    /\ UNCHANGED drawing

ModesEnd ==
    /\ Go("gop", "modes", "key") /\ mode = MaxMode
    /\ UNCHANGED <<pool, mode, drawing>>

\* The user presses a key, before the drawing and at the end.
Key ==
    /\ Go("gop", "key", "clear") \/ Go("gop", "lastkey", "return")
    /\ UNCHANGED <<pool, mode, drawing>>

\* The screen is cleared; an error ends the program.
Clear ==
    /\ Go("gop", "clear", "boxes") \/ Go("gop", "clear", "return")
    /\ Blt(Rectangle("screen", 0, 0, Width, Height))
    /\ UNCHANGED <<pool, mode, screen, box>>

\* A box is drawn; an error is shown and the loop continues.
DrawBox ==
    /\ Go("gop", "boxes", "boxes") /\ box < 8
    /\ Blt(Box(box))
    /\ box' = box + 1
    /\ UNCHANGED <<pool, mode, screen>>

DrawBar ==
    /\ Go("gop", "boxes", "capture") /\ box = 8
    /\ Blt(Bar)
    /\ UNCHANGED <<pool, mode, screen, box>>

\* DemoScreenCapture: the buffer, the capture, the copy.
AllocateRegion ==
    /\ \/ Go("gop", "capture", "read") /\ Allocate({"Region"})
       \/ Go("gop", "capture", "lastkey") /\ UNCHANGED pool
    /\ UNCHANGED <<mode, drawing>>

CaptureRegion ==
    /\ Blt(Rectangle("source", 100, 100, 200, 100))
    /\ \/ Go("gop", "read", "copy") /\ Fits(Rectangle("source", 100, 100, 200, 100)) /\ UNCHANGED pool
       \/ Go("gop", "read", "lastkey") /\ Free({"Region"})
    /\ UNCHANGED <<mode, screen, box>>

CopyRegion ==
    /\ Go("gop", "copy", "lastkey")
    /\ Blt(Rectangle("copy", 400, 200, 200, 100))
    /\ Free({"Region"})
    /\ UNCHANGED <<mode, screen, box>>

GopReturn ==
    /\ Leave("gop")
    /\ screen' = <<0, 0>> /\ mode' = 0 /\ box' = 0 /\ asked' = {} /\ refused' = {}

GopApplication ==
    \/ QueryMode \/ ShowMode \/ ModesEnd \/ Key \/ Clear \/ DrawBox \/ DrawBar
    \/ AllocateRegion \/ CaptureRegion \/ CopyRegion \/ GopReturn

GopNext == LocateGop \/ GopApplication

--------------------------------------------------------------------------------
(* Properties.                                                             *)

\* A rectangle on the screen, in numbers without overflow.
OnScreen(r) == 0 < r.w /\ 0 < r.h /\ r.x + r.w <= Width /\ r.y + r.h <= Height
\* Two rectangles without a common pixel.
Apart(r, s) == r.x + r.w <= s.x \/ s.x + s.w <= r.x \/ r.y + r.h <= s.y \/ s.y + s.h <= r.y

\* No rectangle that Blt lets pass leaves the screen, no size has wrapped
\* around, and of the boxes none is refused: whatever the resolution, all
\* eight are on the screen.  The bar needs 70 lines; the regions have a fixed
\* place, and on a small screen are refused.
DrawnOnScreen ==
    /\ \A r \in asked \ refused : OnScreen(r)
    /\ \A r \in refused : r.what \in {"bar", "source", "copy"}

\* No box covers another one, and from 180 lines on none covers the bar.
BoxesApart ==
    /\ \A i, j \in 0 .. box - 1 : i # j => Apart(Box(i), Box(j))
    /\ Height >= 180 => \A r \in asked : r.what = "box" => Apart(r, Bar)
================================================================================
