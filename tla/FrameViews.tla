----------------------------- MODULE FrameViews -----------------------------
(***************************************************************************)
(* The LCD pictures of a Game Boy trace (system/gb/framebuffer.rs). Three  *)
(* scans read the same range of rows, each with its own loop: one paints   *)
(* the picture, one notes where each row's last pixel went, one notes the  *)
(* row that painted each cell. A viewer asks for the three together, of    *)
(* rows or of the instructions of a DownsampledStore. A pixel is a colour  *)
(* or an invalid token, which every scan skips.                            *)
(***************************************************************************)
EXTENDS InstructionView

CONSTANTS
  LCD_WIDTH, LCD_HEIGHT,
  Colours,
  Invalid,   \* a token of a pix value that is no pixel
  LyValues   \* the lines the ly column can hold, some beyond the LCD

ASSUME LcdAssumption ==
  /\ LCD_WIDTH \in Nat \ {0} /\ LCD_HEIGHT \in Nat \ {0}
  /\ LyValues \subseteq Nat
  /\ Invalid \notin Colours
  /\ None \notin Colours /\ None \notin Nat

\* The stores also have the pix column or none, and the ly column or none.
ASSUME PixelsAssumption ==
  \A t \in Traces :
    /\ t.pix = None \/ (/\ t.pix \in Seq(Seq(Colours \cup {Invalid}))
                        /\ Len(t.pix) = t.count)
    /\ t.ly = None \/ (t.ly \in Seq(LyValues) /\ Len(t.ly) = t.count)

VARIABLES
  asked,      \* the range asked for: [instructions: is it of the view, from, to]
  scan,       \* the scan under way: idle, picture, positions, painters, done
  at,         \* the row it is at
  pixel_idx, scanline_x, last_ly,
  picture,    \* the colour of each cell, None while unrendered
  positions,  \* the cell of the last pixel of each row, or instruction, asked for
  painters    \* the last row, or instruction, that painted each cell

cursor == <<pixel_idx, scanline_x, last_ly>>
views == <<picture, positions, painters>>
fvars == <<asked, scan, at, cursor, views>>

SIZE == LCD_WIDTH * LCD_HEIGHT
Cells == 0..SIZE - 1
Unrendered == [c \in Cells |-> None]

\* The pixels of a pix value, without the tokens that are none.
Valid(pix) ==
  LET kept[n \in 0..Len(pix)] ==
        IF n = 0 THEN <<>>
        ELSE IF pix[n] # Invalid THEN Append(kept[n - 1], pix[n]) ELSE kept[n - 1]
  IN  kept[Len(pix)]

Pixels(r) == Valid(inner.pix[r + 1])

\* A pix value as long as the screen holds a whole picture.
IsDump(r) == Len(inner.pix[r + 1]) = SIZE
Ly(r) == inner.ly[r + 1]

ResetCursor == pixel_idx' = 0 /\ scanline_x' = 0 /\ last_ly' = None

InitViews ==
  /\ Init
  /\ asked = None /\ scan = "idle" /\ at = 0
  /\ pixel_idx = 0 /\ scanline_x = 0 /\ last_ly = None
  /\ picture = Unrendered /\ positions = <<>> /\ painters = Unrendered

-----------------------------------------------------------------------------
(* The rows a range asked for stands for.                                  *)

\* The first entry of the view where there is none at that place.
RawStart(instructions, from) ==
  IF ~instructions THEN from ELSE IF RowOf(from) # None THEN RowOf(from) ELSE 0

RawEnd(d) == IF RowOf(d) # None THEN RowOf(d) ELSE inner.count

\* Mutant: the picture stops before the instruction asked for.
PictureEndBefore == IF asked.instructions THEN RawEnd(asked.to) ELSE asked.to

\* The picture includes all rows of the last instruction asked for.
PictureEnd == IF asked.instructions THEN RawEnd(asked.to + 1) ELSE asked.to

MapsEnd == IF asked.instructions THEN RawEnd(asked.to) ELSE asked.to

LowerOf(a, b) == IF a < b THEN a ELSE b
Stop == LowerOf(IF scan = "picture" THEN PictureEnd ELSE MapsEnd, inner.count)

\* The cursor when a row's pixels begin, and the cell its k-th pixel goes to.
Column(r) == IF last_ly = Ly(r) THEN scanline_x ELSE 0

\* Mutant: lines below the screen are painted too.
CellOfAnyLine(r, k) ==
  IF inner.ly = None
  THEN IF pixel_idx + k - 1 < SIZE THEN pixel_idx + k - 1 ELSE None
  ELSE IF Column(r) + k - 1 < LCD_WIDTH THEN Ly(r) * LCD_WIDTH + Column(r) + k - 1 ELSE None

CellOf(r, k) ==
  IF inner.ly = None
  THEN IF pixel_idx + k - 1 < SIZE THEN pixel_idx + k - 1 ELSE None
  ELSE IF Ly(r) < LCD_HEIGHT /\ Column(r) + k - 1 < LCD_WIDTH
       THEN Ly(r) * LCD_WIDTH + Column(r) + k - 1 ELSE None

Placed(r) == {k \in 1..Len(Pixels(r)) : CellOf(r, k) # None}
CellsOf(r) == {CellOf(r, k) : k \in Placed(r)}

AdvanceLine(r) ==
  /\ scanline_x' = Column(r) + Cardinality(Placed(r))
  /\ last_ly' = Ly(r)
  /\ UNCHANGED pixel_idx

NextRowOfScan == at' = at + 1
ScanUnchanged == UNCHANGED <<vars, asked, scan>>

EmptyRow ==  \* no pixels, no reading of ly
  /\ scan \in {"picture", "positions", "painters"} /\ at < Stop
  /\ inner.pix[at + 1] = <<>>
  /\ NextRowOfScan
  /\ ScanUnchanged /\ UNCHANGED <<cursor, views>>

\* A range of rows, a marked frame or a range of instructions.
Ask(instructions, from, to) ==
  /\ built /\ answer = None /\ scan = "idle"
  /\ asked' = [instructions |-> instructions, from |-> from, to |-> to]
  /\ positions' = [p \in from..to - 1 |-> None]
  /\ scan' = IF inner.pix = None THEN "done" ELSE "picture"
  /\ at' = RawStart(instructions, from)
  /\ UNCHANGED <<vars, cursor, picture, painters>>

FrameEnd(f) == IF f < Len(inner.boundaries) THEN inner.boundaries[f + 1] ELSE inner.count
AskFrame(f) == Ask(FALSE, inner.boundaries[f], FrameEnd(f))

-----------------------------------------------------------------------------
(* reconstruct_partial_frame                                               *)

Painted(r) ==
  [c \in Cells |-> IF c \in CellsOf(r)
                   THEN Pixels(r)[CHOOSE k \in Placed(r) : CellOf(r, k) = c]
                   ELSE picture[c]]

PictureDump ==
  /\ scan = "picture" /\ at < Stop /\ IsDump(at)
  /\ picture' = [c \in Cells |-> IF c < Len(Pixels(at)) THEN Pixels(at)[c + 1] ELSE picture[c]]
  /\ pixel_idx' = SIZE
  /\ NextRowOfScan
  /\ ScanUnchanged /\ UNCHANGED <<scanline_x, last_ly, positions, painters>>

PictureRow ==
  /\ scan = "picture" /\ at < Stop /\ inner.pix[at + 1] # <<>> /\ ~IsDump(at)
  /\ picture' = Painted(at)
  /\ IF inner.ly # None THEN AdvanceLine(at)
     ELSE /\ pixel_idx' = LowerOf(SIZE, pixel_idx + Len(Pixels(at)))
          /\ UNCHANGED <<scanline_x, last_ly>>
  /\ NextRowOfScan
  /\ ScanUnchanged /\ UNCHANGED <<positions, painters>>

-----------------------------------------------------------------------------
(* build_pixel_position_map, build_reverse_pixel_map                       *)

SkipDump ==
  /\ scan \in {"positions", "painters"} /\ at < Stop /\ IsDump(at)
  /\ NextRowOfScan
  /\ ScanUnchanged /\ UNCHANGED <<cursor, views>>

AdvanceMaps ==
  IF inner.ly # None THEN AdvanceLine(at)
  ELSE pixel_idx' = pixel_idx + Len(Pixels(at)) /\ UNCHANGED <<scanline_x, last_ly>>

LastOf(S) == CHOOSE m \in S : \A n \in S : n <= m

\* Where the map is kept for row r: at the row, or at its instruction where
\* that is among those asked for.
PlaceOf(r) == IF asked.instructions THEN InstructionOf(r) ELSE r

\* Mutant: the position noted is where the next pixel will go.
PositionsRowAfter ==
  /\ scan = "positions" /\ at < Stop /\ inner.pix[at + 1] # <<>> /\ ~IsDump(at)
  /\ positions' = [p \in DOMAIN positions |->
                     IF p = PlaceOf(at) /\ Placed(at) # {}
                     THEN CellOf(at, LastOf(Placed(at)) + 1) ELSE positions[p]]
  /\ AdvanceMaps
  /\ NextRowOfScan
  /\ ScanUnchanged /\ UNCHANGED <<picture, painters>>

PositionsRow ==
  /\ scan = "positions" /\ at < Stop /\ inner.pix[at + 1] # <<>> /\ ~IsDump(at)
  /\ positions' = [p \in DOMAIN positions |->
                     IF p = PlaceOf(at) /\ Placed(at) # {}
                     THEN CellOf(at, LastOf(Placed(at))) ELSE positions[p]]
  /\ AdvanceMaps
  /\ NextRowOfScan
  /\ ScanUnchanged /\ UNCHANGED <<picture, painters>>

PaintersRow ==
  /\ scan = "painters" /\ at < Stop /\ inner.pix[at + 1] # <<>> /\ ~IsDump(at)
  /\ painters' = [c \in Cells |-> IF c \in CellsOf(at) THEN PlaceOf(at) ELSE painters[c]]
  /\ AdvanceMaps
  /\ NextRowOfScan
  /\ ScanUnchanged /\ UNCHANGED <<picture, positions>>

ScanOver ==  \* and the next of the three begins
  /\ scan \in {"picture", "positions", "painters"} /\ at >= Stop
  /\ scan' = CASE scan = "picture" -> "positions"
               [] scan = "positions" -> "painters"
               [] OTHER -> "done"
  /\ at' = RawStart(asked.instructions, asked.from)
  /\ ResetCursor
  /\ UNCHANGED <<vars, asked, views>>

NextViews ==
  \/ Next /\ scan = "idle" /\ UNCHANGED fvars
  \/ \E from \in 0..inner.count : \E to \in from..inner.count : Ask(FALSE, from, to)
  \/ \E f \in 1..Len(inner.boundaries) : AskFrame(f)
  \/ \E from \in 0..Len(index_map) - 1 : \E to \in from..Len(index_map) : Ask(TRUE, from, to)
  \/ EmptyRow \/ PictureDump \/ PictureRow
  \/ SkipDump \/ PositionsRow \/ PaintersRow
  \/ ScanOver

SpecViews == InitViews /\ [][NextViews]_<<vars, fvars>>

-----------------------------------------------------------------------------
(* What the pix column says, read without a cursor.                        *)

\* The rows of a range that push pixels, dumps apart.
Pushing(range) == {r \in range : inner.pix[r + 1] # <<>> /\ ~IsDump(r)}

\* The pushing rows before r that are on its line with no other line between.
SameLine(range, r) ==
  {q \in Pushing(range) : q < r /\ \A p \in Pushing(range) : p \in q..r => Ly(p) = Ly(r)}

PixelCount(S) ==
  LET count[n \in 0..inner.count] ==
        IF n = 0 THEN 0
        ELSE count[n - 1] + (IF n - 1 \in S THEN Len(Pixels(n - 1)) ELSE 0)
  IN  count[inner.count]

\* Row r paints cell c with its k-th pixel: the line is ly's and the column
\* how many pixels the line has had, or cells are counted from the range's start.
Paints(range, r, k, c) ==
  IF inner.ly = None
  THEN c = PixelCount({q \in Pushing(range) : q < r}) + k - 1
  ELSE /\ c \div LCD_WIDTH = Ly(r)
       /\ c % LCD_WIDTH = PixelCount(SameLine(range, r)) + k - 1

PaintersOf(range, c) ==
  {r \in Pushing(range) : \E k \in 1..Len(Pixels(r)) : Paints(range, r, k, c)}

\* The rows whose pixels reach cell c of the picture: dumps, and the painters,
\* which after a dump are none where cells are counted.
SourcesOf(range, c) ==
  {r \in range : IsDump(r) /\ c < Len(Pixels(r))}
    \cup {r \in PaintersOf(range, c) :
            inner.ly = None => \A q \in range : q < r => ~IsDump(q)}

\* The pixel, and the colour, that row r gives cell c.
PixelFor(range, r, c) == CHOOSE k \in 1..Len(Pixels(r)) : Paints(range, r, k, c)
ColourBy(range, r, c) ==
  IF IsDump(r) THEN Pixels(r)[c + 1] ELSE Pixels(r)[PixelFor(range, r, c)]

ColourOf(range, c) ==
  IF SourcesOf(range, c) = {} THEN None ELSE ColourBy(range, LastOf(SourcesOf(range, c)), c)

RowsAsked ==
  {r \in Rows : IF asked.instructions THEN InstructionOf(r) \in asked.from..asked.to - 1
                ELSE r \in asked.from..asked.to - 1}

PictureRows ==
  {r \in Rows : IF asked.instructions THEN InstructionOf(r) \in asked.from..asked.to
                ELSE r \in asked.from..asked.to - 1}

Scans == {"picture", "positions", "painters"}

ViewsTyped ==
  /\ IInv
  /\ scan \in Scans \cup {"idle", "done"}
  /\ at \in 0..inner.count
  /\ pixel_idx \in Nat /\ scanline_x \in 0..LCD_WIDTH
  /\ last_ly \in LyValues \cup {None}
  /\ picture \in [Cells -> Colours \cup {None}]
  /\ painters \in [Cells -> Rows \cup {None}]
  /\ \A p \in DOMAIN positions : positions[p] \in Cells \cup {None}

\* Only a built view is asked, for a range of it, and only pixels are scanned.
Asking ==
  /\ scan # "idle" =>
       /\ built /\ asked.instructions \in BOOLEAN
       /\ asked.from \in Nat /\ asked.to \in Nat /\ asked.from <= asked.to
       /\ IF asked.instructions THEN asked.from < Len(index_map) ELSE asked.to <= inner.count
       /\ DOMAIN positions = asked.from..asked.to - 1
  /\ scan \in Scans => inner.pix # None

Start == RawStart(asked.instructions, asked.from)
Scanned == Start..at - 1

\* The pushing rows up to here that are on the cursor's line, none since on another.
LineRun == {q \in Pushing(Scanned) : \A p \in Pushing(Scanned) : p >= q => Ly(p) = last_ly}

\* The cursor is where the pixels of the rows scanned leave it: at their number,
\* at the screen's end after a dump, or in the cursor's line at the number of
\* those since the line began.
CursorCounts ==
  /\ scan = "idle" => pixel_idx = 0 /\ last_ly = None
  /\ scan \in Scans =>
       /\ at \in Start..Stop
       /\ inner.ly = None =>
            pixel_idx = IF scan # "picture" THEN PixelCount(Pushing(Scanned))
                        ELSE IF \E q \in Scanned : IsDump(q) THEN SIZE
                        ELSE LowerOf(SIZE, PixelCount(Pushing(Scanned)))
       /\ inner.ly # None =>
            /\ IF last_ly = None THEN Pushing(Scanned) = {} ELSE LineRun # {}
            /\ last_ly \in 0..LCD_HEIGHT - 1 =>
                 scanline_x = LowerOf(LCD_WIDTH, PixelCount(LineRun))

\* What each scan has noted is what the rows it has read say.
PictureIsOf(range) == \A c \in Cells : picture[c] = ColourOf(range, c)

\* A position noted is of a row that painted there, and every painter has one.
PositionsAreOf(range) ==
  /\ \A p \in DOMAIN positions :
       positions[p] # None => \E r \in PaintersOf(range, positions[p]) : PlaceOf(r) = p
  /\ \A c \in Cells : \A r \in PaintersOf(range, c) :
       PlaceOf(r) \in DOMAIN positions /\ positions[PlaceOf(r)] # None

PaintersAreOf(range) ==
  \A c \in Cells :
    painters[c] = LET rows == PaintersOf(range, c)
                  IN  IF rows = {} THEN None ELSE PlaceOf(LastOf(rows))

Over == scan = "done" /\ inner.pix # None

NotedSoFar ==
  /\ scan = "idle" => picture = Unrendered
  /\ scan = "picture" => PictureIsOf(Scanned)
  /\ (scan \in {"positions", "painters"} \/ Over) => PictureIsOf(PictureRows)
  /\ (scan = "picture" \/ inner.pix = None) => \A p \in DOMAIN positions : positions[p] = None
  /\ scan = "positions" => PositionsAreOf(Scanned)
  /\ (scan = "painters" \/ Over) => PositionsAreOf(RowsAsked)
  /\ (scan \in {"idle", "picture", "positions"} \/ inner.pix = None) => painters = Unrendered
  /\ scan = "painters" => PaintersAreOf(Scanned)
  /\ Over => PaintersAreOf(RowsAsked)

\* What every step of the scans preserves.
ViewsInvariant == ViewsTyped /\ Asking /\ CursorCounts /\ NotedSoFar

\* "Reconstruct a partial frame up to stop_entry": the picture shows, on each
\* cell, the last pixel the rows asked for put there, by a dump or placed by line
\* and count alone; of instructions, all rows of the last one included.
PictureShowsLastPixels == Over => PictureIsOf(PictureRows)

\* "the global entry index of the trace entry that produced that pixel": each
\* cell is traced back to the last row, or the instruction of the last row,
\* that painted it, and to none where none did.
PaintersAreLast == Over => PaintersAreOf(RowsAsked)

\* The two maps are of one picture: besides, where a row's, or an instruction's,
\* last pixel is said to be, the cell's painter is that one or a later one, and
\* every painter of a cell has a position.
MapsAgree ==
  /\ PaintersAreLast
  /\ scan = "done" =>
       /\ \A p \in DOMAIN positions :
            positions[p] # None => painters[positions[p]] # None /\ painters[positions[p]] >= p
       /\ \A c \in Cells :
            painters[c] # None => /\ painters[c] \in DOMAIN positions
                                  /\ positions[painters[c]] # None
=============================================================================
