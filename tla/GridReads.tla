------------------------------ MODULE GridReads ------------------------------
(***************************************************************************)
(* How a part of a grid, or a point of it, is read: from the box that was   *)
(* asked for to rows and columns, from those to chunks, from the chunks to  *)
(* a region with a box of its own, at the level of the pyramid that fits    *)
(* the output; and what the area query makes of regions that cross the      *)
(* prime meridian or the date line.                                         *)
(*                                                                         *)
(* Degrees are whole numbers of some unit, in which Circle is 360 degrees   *)
(* and every division of a box into cells comes out even: rounding of       *)
(* floating-point numbers is left out.  A value is the set of native grid   *)
(* cells it was made of, {} where there is none: weights are left out.      *)
(* The cache between the chunks and their reader is ChunkCache's matter.    *)
(***************************************************************************)
EXTENDS Integers, Sequences, FiniteSets

CONSTANTS
    Circle,         \* 360 degrees
    GlobalWidth,    \* 359 degrees: a wider grid goes round
    Snap,           \* the part of a cell within which a point is on the grid
    Buffer,         \* buffer_cells
    MinDimension,   \* min_dimension of the pyramid
    Grids,          \* datasets: box, shape, chunk, origin, projected, full, missing
    Boxes,          \* the boxes requests ask for
    Sizes,          \* output_size of a tile
    Points          \* the places point queries ask for

\* A box, min_lon to max_lat; sizes and places are pairs, x first.
Span(b) == <<b.maxLon - b.minLon, b.maxLat - b.minLat>>

CeilDiv(a, d) == -((-a) \div d)
Smaller(a, b) == IF a < b THEN a ELSE b
Larger(a, b) == IF a > b THEN a ELSE b

\* Level l of the pyramid: every level halves the one before and drops what
\* is odd; the box stays.
Shape(g, l) == <<g.shape[1] \div 2^l, g.shape[2] \div 2^l>>

Levels(g) ==
    {0} \cup {l \in 1 .. g.shape[1] :
        \A i \in 1 .. 2 : Shape(g, l)[i] >= Larger(MinDimension, 1)}

Resolution(g, l) == <<Span(g.box)[1] \div Shape(g, l)[1],
                      Span(g.box)[2] \div Shape(g, l)[2]>>

BoxType == [minLon : Int, minLat : Int, maxLon : Int, maxLat : Int]
IsBox(b) == b \in BoxType /\ b.minLon < b.maxLon /\ b.minLat < b.maxLat

\* A grid that goes round leaves no more room between its last column and its
\* first than between others, and a point that is on the grid is nearer to one
\* cell than to others.  Longitudes from 0 to 360 end there, and a grid that
\* goes west beyond the date line is read whole.
ASSUME GridsAssumption ==
    \A g \in Grids :
        /\ IsBox(g.box)
        /\ g.box.minLon >= 0 /\ g.box.maxLon > Circle \div 2 => g.box.maxLon <= Circle
        /\ 2 * g.box.minLon < -Circle => g.full /\ g.box.minLon > -Circle
        /\ \A l \in Levels(g), i \in 1 .. 2 :
               /\ 2^l \in Nat \ {0}
               /\ Shape(g, l)[i] \in Nat \ {0} /\ Span(g.box)[i] % Shape(g, l)[i] = 0
               /\ g.shape[i] \in Nat /\ g.chunk[i] \in Nat \ {0}
        /\ g.origin \in {"north", "south"} /\ (g.origin = "south" => g.projected)
        /\ Span(g.box)[1] > GlobalWidth =>
               /\ Span(g.box)[1] <= Circle
               /\ (g.shape[1] - 1) * (Circle - Span(g.box)[1]) <= Span(g.box)[1]
        /\ ~g.projected => \A i \in 1 .. 2 : 2 * Snap <= Resolution(g, 0)[i]
ASSUME BoxesAssumption == \A b \in Boxes : IsBox(b)
ASSUME PlacesAssumption ==
    /\ Circle \in Nat /\ GlobalWidth \in Circle \div 2 .. Circle
    /\ Snap \in Nat \ {0} /\ Buffer \in Nat \ {0}
    /\ Points \subseteq Int \X Int /\ Sizes \subseteq Nat \X Nat

VARIABLES
    request,        \* what is being read
    reply           \* what the reader answers

readsVars == <<request, reply>>

Idle == [kind |-> "idle"]
None == [kind |-> "none"]       \* nothing yet
Failed == [kind |-> "failed"]   \* a chunk could not be read
\* max_col - min_col or max_row - min_row fell below zero: a panic, or a
\* length that cannot be allocated, or a region of a wrapped size.
Broken == [kind |-> "broken"]

ReadsInit == request = Idle /\ reply = None

-----------------------------------------------------------------------------
(* BoundingBox *)

Uses360(b) == b.minLon >= 0 /\ b.maxLon > Circle \div 2

CrossesOn360(b, grid) == Uses360(grid) /\ b.minLon < 0 /\ b.maxLon >= 0

Turned(lon, grid) == IF Uses360(grid) /\ lon < 0 THEN lon + Circle ELSE lon

NormalizeToGrid(b, grid) ==
    [b EXCEPT !.minLon = Turned(@, grid), !.maxLon = Turned(@, grid)]

Contains(b, lon, lat) ==
    lon \in b.minLon .. b.maxLon /\ lat \in b.minLat .. b.maxLat

-----------------------------------------------------------------------------
(* ZarrGridProcessor: regions *)

\* The averaged block of native cells that level l has at a place.
Stored(g, l, col, row) ==
    LET Block(i) == i * 2^l .. i * 2^l + 2^l - 1
    IN  (Block(col) \X Block(row)) \ g.missing

\* The box that is read for a request.
EffectiveBox(g, l, b) ==
    LET n == NormalizeToGrid(b, g.box)
        r == Resolution(g, l)
    IN  IF g.projected \/ CrossesOn360(b, g.box) THEN g.box
        ELSE [minLon |-> Larger(n.minLon - Buffer * r[1], g.box.minLon),
              minLat |-> Larger(n.minLat - Buffer * r[2], g.box.minLat),
              maxLon |-> Smaller(n.maxLon + Buffer * r[1], g.box.maxLon),
              maxLat |-> Smaller(n.maxLat + Buffer * r[2], g.box.maxLat)]

\* From a place before and a place after the cells to their indices, the
\* second exclusive; a float below zero becomes the index 0.
From(distance, res) == Larger(distance \div res, 0)
Until(distance, res, count) == Larger(Smaller(CeilDiv(distance, res), count), 0)

\* The cells of a box: columns, then rows counted from the grid's first one.
Cells(g, l, b) ==
    LET n == NormalizeToGrid(b, g.box)
        r == Resolution(g, l)
        s == Shape(g, l)
        north == g.origin = "north"
        first == IF north THEN g.box.maxLat - n.maxLat ELSE n.minLat - g.box.minLat
        last == IF north THEN g.box.maxLat - n.minLat ELSE n.maxLat - g.box.minLat
    IN  [from |-> <<From(n.minLon - g.box.minLon, r[1]), From(first, r[2])>>,
         to |-> <<Until(n.maxLon - g.box.minLon, r[1], s[1]), Until(last, r[2], s[2])>>]

NumChunks(g, l) == [i \in 1 .. 2 |-> CeilDiv(Shape(g, l)[i], g.chunk[i])]

ChunksForBox(g, l, b) ==
    LET c == Cells(g, l, b)
        Along(i) == c.from[i] \div g.chunk[i] ..
                    Smaller(CeilDiv(c.to[i], g.chunk[i]), NumChunks(g, l)[i]) - 1
    IN  Along(1) \X Along(2)

\* A chunk at the edge is as small as what is left of the grid.
ChunkStart(g, k) == <<k[1] * g.chunk[1], k[2] * g.chunk[2]>>
ChunkSize(g, l, k) ==
    [i \in 1 .. 2 |-> Smaller(g.chunk[i], Shape(g, l)[i] - ChunkStart(g, k)[i])]

\* read_chunk_sync: the cells of a chunk, row by row.
ReadChunk(g, l, k) ==
    LET start == ChunkStart(g, k)
        size == ChunkSize(g, l, k)
    IN  [i \in 0 .. size[1] * size[2] - 1 |->
            Stored(g, l, start[1] + (i % size[1]), start[2] + (i \div size[1]))]

\* Mutant: rows are taken to be as long as in a full chunk.
IndexIn_FullRows(g, l, k, col, row) ==
    (row - ChunkStart(g, k)[2]) * g.chunk[1] + (col - ChunkStart(g, k)[1])

\* Where a chunk has a cell.
IndexIn(g, l, k, col, row) ==
    (row - ChunkStart(g, k)[2]) * ChunkSize(g, l, k)[1] + (col - ChunkStart(g, k)[1])

Covers(g, l, k, col, row) ==
    LET start == ChunkStart(g, k)
        size == ChunkSize(g, l, k)
    IN  /\ col \in start[1] .. start[1] + size[1] - 1
        /\ row \in start[2] .. start[2] + size[2] - 1

Region(data, width, height, box, res) ==
    [kind |-> "region", data |-> data, width |-> width, height |-> height,
     box |-> box, res |-> res]

AssembleRegion(g, l, b, chunks) ==
    LET c == Cells(g, l, b)
        r == Resolution(g, l)
        width == c.to[1] - c.from[1]
        height == c.to[2] - c.from[2]
        Value(col, row) ==
            UNION {ReadChunk(g, l, k)[IndexIn(g, l, k, col, row)] :
                      k \in {k \in chunks :
                                /\ Covers(g, l, k, col, row)
                                /\ IndexIn(g, l, k, col, row) \in DOMAIN ReadChunk(g, l, k)}}
        actual ==
            [minLon |-> g.box.minLon + c.from[1] * r[1],
             maxLon |-> g.box.minLon + c.to[1] * r[1],
             minLat |-> IF g.origin = "north" THEN g.box.maxLat - c.to[2] * r[2]
                                              ELSE g.box.minLat + c.from[2] * r[2],
             maxLat |-> IF g.origin = "north" THEN g.box.maxLat - c.from[2] * r[2]
                                              ELSE g.box.minLat + c.to[2] * r[2]]
    IN  CASE width < 0 \/ height < 0 -> Broken
          [] width = 0 \/ height = 0 -> Region(<<>>, 0, 0, b, r)
          [] OTHER -> Region([o \in 0 .. width * height - 1 |->
                                 Value(c.from[1] + (o % width), c.from[2] + (o \div width))],
                             width, height, actual, r)

\* All chunks are read, and one that cannot be fails the whole region.
ReadRegion(g, l, b) ==
    LET e == EffectiveBox(g, l, b)
        chunks == ChunksForBox(g, l, e)
    IN  IF chunks = {} THEN {Region(<<>>, 0, 0, e, Resolution(g, l))}
        ELSE {AssembleRegion(g, l, e, chunks), Failed}

\* The coarsest level that has as many cells for the box as the output needs.
OptimalLevel(g, b, size) ==
    LET native == [i \in 1 .. 2 |-> CeilDiv(Span(b)[i], Resolution(g, 0)[i])]
        good == {l \in Levels(g) : \A i \in 1 .. 2 : CeilDiv(native[i], 2^l) >= size[i]}
    IN  IF good = {} THEN 0 ELSE CHOOSE l \in good : \A m \in good : m <= l

\* The box an image is read for: a model with requires_full_grid is read whole.
ReadBox(g, b) == IF g.full THEN g.box ELSE b

\* A region for an image, or one with an output size through the service.
ReadTile(g, b, size) ==
    LET l == OptimalLevel(g, ReadBox(g, b), size)
    IN  /\ reply = None
        /\ request' = [kind |-> "tile", grid |-> g, box |-> b, size |-> size, level |-> l]
        /\ reply' \in ReadRegion(g, l, ReadBox(g, b))

-----------------------------------------------------------------------------
(* Images of grids that are not projected *)

\* Mutant: longitudes are taken as they are.
PixelLon_AsIs(g, d, lon, parts) == lon

\* The longitude of a pixel among those of the data; all in parts of a unit.
PixelLon(g, d, lon, parts) ==
    LET circle == parts * Circle
    IN  CASE 2 * d.minLon < -Circle ->
               IF lon > 0 /\ 2 * lon < circle /\ lon - circle >= parts * d.minLon
               THEN lon - circle ELSE lon
          [] 2 * d.minLon >= -Circle /\ Uses360(g.box)
               /\ (lon < 0 \/ (lon < parts * (Circle - GlobalWidth) /\ 2 * d.minLon > Circle)) ->
               lon + circle
          [] OTHER -> lon

\* What a region has in some of its columns and rows.
Corners(reg, columns, rows) ==
    {reg.data[j * reg.width + i] : i \in columns, j \in rows}

\* resample_from_geographic: pixel (x, y) of an image of the box averages the
\* four cells of the region that its middle lies between.
Pixel(g, reg, b, size, x, y) ==
    LET d == reg.box
        parts == [i \in 1 .. 2 |-> 2 * size[i]]
        lon == PixelLon(g, d, parts[1] * b.minLon + (2 * x + 1) * Span(b)[1], parts[1])
        lat == parts[2] * b.maxLat - (2 * y + 1) * Span(b)[2]
        global == Uses360(g.box) /\ Span(d)[1] > GlobalWidth
        inGap == global /\ lon > parts[1] * d.maxLon /\ lon < parts[1] * Circle
        x1 == IF inGap THEN reg.width - 1
              ELSE ((lon - parts[1] * d.minLon) * reg.width) \div (parts[1] * Span(d)[1])
        y1 == ((parts[2] * d.maxLat - lat) * reg.height) \div (parts[2] * Span(d)[2])
        x2 == IF global /\ x1 + 1 >= reg.width THEN 0 ELSE Smaller(x1 + 1, reg.width - 1)
        y2 == Smaller(y1 + 1, reg.height - 1)
        corners == Corners(reg, {x1, x2}, {y1, y2})
    IN  IF \/ ~inGap /\ (lon < parts[1] * d.minLon \/ lon > parts[1] * d.maxLon)
           \/ lat < parts[2] * d.minLat \/ lat > parts[2] * d.maxLat
           \/ x1 >= reg.width \/ y1 >= reg.height
           \/ {} \in corners
        THEN {} ELSE UNION corners

Draw ==
    LET size == request.size
    IN  /\ request.kind = "tile" /\ ~request.grid.projected
        /\ reply.kind = "region"
        /\ reply' = [kind |-> "image",
                     pixels |-> [o \in 0 .. size[1] * size[2] - 1 |->
                         Pixel(request.grid, reply, request.box, size,
                               o % size[1], o \div size[1])]]
        /\ UNCHANGED request

-----------------------------------------------------------------------------
(* EDR area queries *)

\* A cell of the answer averages the four of the region it lies between.
PrimeMeridianCell(reg, b, x, y) ==
    LET r == reg.res
        global == Span(reg.box)[1] > GlobalWidth
        Turn(lon2) == IF lon2 < 0 THEN lon2 + 2 * Circle ELSE lon2
        x1 == (Turn(2 * b.minLon + (2 * x + 1) * r[1]) - 2 * reg.box.minLon)
                  \div (2 * r[1])
        y1 == (2 * reg.box.maxLat - 2 * b.maxLat + (2 * y + 1) * r[2]) \div (2 * r[2])
        x2 == IF global /\ x1 + 1 >= reg.width THEN 0 ELSE Smaller(x1 + 1, reg.width - 1)
        y2 == Smaller(y1 + 1, reg.height - 1)
        corners == Corners(reg, {x1 % reg.width, x2}, {y1, y2})
    IN  IF \/ y1 \notin 0 .. reg.height - 1
           \/ x1 < 0 \/ (~global /\ x1 >= reg.width)
           \/ {} \in corners
        THEN {} ELSE UNION corners

\* A region that crosses the prime meridian was read as the whole grid.
ExtractPrimeMeridian(reg, b) ==
    LET r == reg.res
        size == [i \in 1 .. 2 |-> Larger(CeilDiv(Span(b)[i], r[i]), 1)]
    IN  IF \/ ~Uses360(reg.box)
           \/ b.minLon >= 0 \/ b.maxLon <= 0
        THEN reg
        ELSE Region([o \in 0 .. size[1] * size[2] - 1 |->
                        PrimeMeridianCell(reg, b, o % size[1], o \div size[1])],
                    size[1], size[2], b, r)

\* A box that goes on beyond 180 degrees is answered with one that ends at a
\* negative longitude.
ExtractDateline(reg, b) ==
    IF /\ b.minLon >= 0 /\ b.minLon <= Circle \div 2 /\ b.maxLon > Circle \div 2
       /\ reg.box.maxLon > Circle \div 2
    THEN [reg EXCEPT !.box.maxLon = @ - Circle]
    ELSE reg

\* A rectangle of a grid that is not projected.
ReadArea(g, b) ==
    /\ reply = None
    /\ ~g.projected
    /\ request' = [kind |-> "area", grid |-> g, box |-> b, level |-> 0]
    /\ reply' \in {IF reg.kind = "region" THEN ExtractDateline(ExtractPrimeMeridian(reg, b), b)
                   ELSE reg : reg \in ReadRegion(g, 0, b)}

-----------------------------------------------------------------------------
(* ZarrGridProcessor: points *)

\* Mutant: every grid starts again.
RightOf_AlwaysRound(g, x) == IF x + 1 >= g.shape[1] THEN 0 ELSE x + 1

\* The column to the right; a grid that goes round starts again.
RightOf(g, x) ==
    IF Span(g.box)[1] > GlobalWidth /\ x + 1 >= g.shape[1] THEN 0
    ELSE Smaller(x + 1, g.shape[1] - 1)

\* read_single_value, which answers NaN after the last column or row.
Single(g, col, row) ==
    LET k == <<col \div g.chunk[1], row \div g.chunk[2]>>
        data == ReadChunk(g, 0, k)
        at == IndexIn(g, 0, k, col, row)
    IN  IF col >= g.shape[1] \/ row >= g.shape[2] \/ at \notin DOMAIN data THEN {}
        ELSE data[at]

\* The cell a point is on, or the four around it, or the nearest of them if
\* one is missing.
PointValue(g, lon, lat) ==
    LET r == Resolution(g, 0)
        lonIn == Turned(lon, g.box)
        at == <<lonIn - g.box.minLon,
                IF g.origin = "north" THEN g.box.maxLat - lat ELSE lat - g.box.minLat>>
        near == \A i \in 1 .. 2 : at[i] % r[i] < Snap \/ at[i] % r[i] > r[i] - Snap
        Nearest(i) == (2 * at[i] + r[i]) \div (2 * r[i])
        x1 == at[1] \div r[1]
        y1 == at[2] \div r[2]
        y2 == Smaller(y1 + 1, g.shape[2] - 1)
        corners == {Single(g, x, y) : x \in {x1, RightOf(g, x1)}, y \in {y1, y2}}
    IN  CASE ~Contains(g.box, lonIn, lat) -> {}
          [] Contains(g.box, lonIn, lat) /\ near -> Single(g, Nearest(1), Nearest(2))
          [] OTHER ->
               IF x1 >= g.shape[1] \/ y1 >= g.shape[2] THEN {}
               ELSE IF {} \in corners THEN Single(g, Nearest(1), Nearest(2))
               ELSE UNION corners

ReadPoint(g, p) ==
    /\ reply = None
    /\ ~g.projected
    /\ request' = [kind |-> "point", grid |-> g, lon |-> p[1], lat |-> p[2]]
    /\ reply' = [kind |-> "point", value |-> PointValue(g, p[1], p[2])]

\* The answer is sent, and the next request comes.
Sent == reply # None /\ request' = Idle /\ reply' = None

ReadsNext ==
    \/ \E g \in Grids, b \in Boxes, size \in Sizes : ReadTile(g, b, size)
    \/ Draw
    \/ \E g \in Grids, b \in Boxes : ReadArea(g, b)
    \/ \E g \in Grids, p \in Points : ReadPoint(g, p)
    \/ Sent

ReadsSpec == ReadsInit /\ [][ReadsNext]_readsVars

-----------------------------------------------------------------------------
(* What a reader may rely on *)

Distance(a, b) == IF a < b THEN b - a ELSE a - b

\* Native cells are points: the box ends at the first and the last of them
\* (get_bbox_from_grid), so they stand a little farther apart than the box
\* divided by their number.  Whether a cell stands within k such steps of a
\* longitude or latitude, which is given in parts of a unit; longitudes go
\* round.
Gaps(g, i) == g.shape[i] - 1
NearLon(g, cell, lon, parts, k) ==
    \E turn \in {-Circle, 0, Circle} :
        Distance(parts * (Gaps(g, 1) * (g.box.minLon + turn) + cell[1] * Span(g.box)[1]),
                 Gaps(g, 1) * lon) <= parts * k * Span(g.box)[1]
NearLat(g, cell, lat, parts, k) ==
    Distance(parts * (Gaps(g, 2) * g.box.maxLat - cell[2] * Span(g.box)[2]),
             Gaps(g, 2) * lat) <= parts * k * Span(g.box)[2]

\* The middle of a region's cell, in half units, as x_values and y_values.
MiddleLon(reg, o) == 2 * reg.box.minLon + (2 * (o % reg.width) + 1) * reg.res[1]
MiddleLat(reg, o) == 2 * reg.box.maxLat - (2 * (o \div reg.width) + 1) * reg.res[2]

\* The cells of a level that a box touches; a grid in longitudes from 0 to
\* 360 is touched from the other side too.
Turns(g) == IF Uses360(g.box) THEN {-Circle, 0, Circle} ELSE {0}
TouchedColumns(g, l, b) ==
    LET r == Resolution(g, l)[1]
        west(i) == g.box.minLon + i * r
    IN  {i \in 0 .. Shape(g, l)[1] - 1 : \E turn \in Turns(g) :
            west(i) + turn < b.maxLon /\ west(i + 1) + turn > b.minLon}
TouchedRows(g, l, b) ==
    LET r == Resolution(g, l)[2]
        south(j) == IF g.origin = "north" THEN g.box.maxLat - (j + 1) * r
                                          ELSE g.box.minLat + j * r
    IN  {j \in 0 .. Shape(g, l)[2] - 1 : south(j) < b.maxLat /\ south(j) + r > b.minLat}

\* The cell of the level that a region's cell claims to be.
Claimed(g, reg, o) ==
    <<(reg.box.minLon - g.box.minLon) \div reg.res[1] + (o % reg.width),
      (IF g.origin = "north" THEN g.box.maxLat - reg.box.maxLat
                             ELSE reg.box.minLat - g.box.minLat) \div reg.res[2]
          + (o \div reg.width)>>

\* A box within a circle east or west of longitude 0.
InCircle(b) == -Circle <= b.minLon /\ b.maxLon <= Circle

IsTile == request.kind = "tile"
IsArea == request.kind = "area"
Answered == reply.kind = "region"

\* (ExtractPrimeMeridian makes values of its own.)
AsRead == Answered /\ (IsArea => reply.box # request.box)

\* Each value of a region is the one stored for the cell that its place in the
\* region's box stands for, whatever chunks the region was put together from.
Assembled ==
    AsRead => \A o \in DOMAIN reply.data :
        LET c == Claimed(request.grid, reply, o)
        IN  reply.data[o] = Stored(request.grid, request.level, c[1], c[2])

\* Values are no farther from where they really are than a pixel of their
\* level and, since the box stays when halving drops columns and rows, half a
\* pixel more above the native level.
Placed ==
    AsRead /\ ~request.grid.projected =>
        \A o \in DOMAIN reply.data : \A n \in reply.data[o] :
            LET k == (3 * 2^request.level) \div 2
            IN  /\ NearLon(request.grid, n, MiddleLon(reply, o), 2, k)
                /\ NearLat(request.grid, n, MiddleLat(reply, o), 2, k)

\* A request in the circle that touches the grid is answered, with every cell
\* it touches and with two more on each side, from which the pixels at its
\* edge are interpolated; with all cells if the grid is projected or read
\* whole, since rows and columns of a projected one do not follow the box.
Covered ==
    IsTile =>
        LET g == request.grid
            s == Shape(g, request.level)
            columns == TouchedColumns(g, request.level, request.box)
            rows == TouchedRows(g, request.level, request.box)
            Around(S, i) == IF g.projected \/ g.full THEN 0 .. s[i] - 1
                            ELSE {j \in 0 .. s[i] - 1 : \E k \in S : Distance(j, k) <= Buffer}
        IN  g.projected \/ g.full \/ (InCircle(request.box) /\ columns # {} /\ rows # {}) =>
                /\ reply # Broken
                /\ Answered => Around(columns, 1) \X Around(rows, 2)
                                   \subseteq {Claimed(g, reply, o) : o \in DOMAIN reply.data}

\* A level above the native one has as many cells for the box as the output
\* has pixels, where halving was exact and the box lies in the grid.  (Not so
\* for a grid that is read whole: its level is chosen for all of it, however
\* small the part that the image shows.)
EnoughPixels ==
    IsTile =>
        LET g == request.grid
            l == request.level
            n == NormalizeToGrid(request.box, g.box)
        IN  /\ l > 0 /\ ~g.full
            /\ g.shape[1] % 2^l = 0 /\ g.shape[2] % 2^l = 0
            /\ ~CrossesOn360(request.box, g.box)
            /\ Contains(g.box, n.minLon, n.minLat) /\ Contains(g.box, n.maxLon, n.maxLat)
            => /\ Cardinality(TouchedColumns(g, l, request.box)) >= request.size[1]
               /\ Cardinality(TouchedRows(g, l, request.box)) >= request.size[2]

\* Whether a place of a box is in a grid, in some turn of its longitudes: its
\* longitude in p1 parts of a unit, its latitude in p2.  Between the last
\* column and the first of a grid that goes round, it is there only if the whole
\* grid was read for the box.
PlaceInGrid(g, b, mid, lat, p1, p2) ==
    /\ \E turn \in Turns(g) \cup {-Circle} :
          LET lon == mid + p1 * turn
          IN  /\ turn \in Turns(g) \/ 2 * mid < p1 * Circle
              /\ p1 * g.box.minLon <= lon
              /\ \/ lon < p1 * g.box.maxLon
                 \/ /\ Uses360(g.box) /\ Span(g.box)[1] > GlobalWidth
                    /\ CrossesOn360(b, g.box) \/ g.full
                    /\ lon > p1 * g.box.maxLon /\ lon < p1 * Circle
    /\ p2 * g.box.minLat < lat /\ lat <= p2 * g.box.maxLat

\* Whether the cells c, which are as wide as the globe but do not begin with the
\* grid's first column, are taken to go round, and a longitude is in the last.
IsMistaken(g, l, c, mid, parts) ==
    /\ c.from[1] > 0 /\ (c.to[1] - c.from[1]) * Resolution(g, l)[1] > GlobalWidth
    /\ \E turn \in {0, Circle} :
           mid + parts * turn >= parts * (g.box.maxLon - Resolution(g, l)[1])

\* Every pixel of an image whose middle lies in the grid is drawn, from grid
\* points no farther from it than two and a half pixels of the level, unless one
\* of those is missing; but not in the last column of a region that is mistaken
\* for one that goes round.
DrawnAt(g, b, l, size, value, o) ==
    LET k == (5 * 2^l) \div 2
        c == Cells(g, l, EffectiveBox(g, l, ReadBox(g, b)))
        lon == 2 * size[1] * b.minLon + (2 * (o % size[1]) + 1) * Span(b)[1]
        lat == 2 * size[2] * b.maxLat - (2 * (o \div size[1]) + 1) * Span(b)[2]
        IsNear(n) == NearLon(g, n, lon, 2 * size[1], k) /\ NearLat(g, n, lat, 2 * size[2], k)
        mistaken == IsMistaken(g, l, c, lon, 2 * size[1])
    IN  /\ \A n \in value : IsNear(n) \/ mistaken
        /\ value = {} /\ InCircle(b) /\ PlaceInGrid(g, b, lon, lat, 2 * size[1], 2 * size[2]) =>
               (\E n \in g.missing : IsNear(n)) \/ mistaken

Drawn ==
    reply.kind = "image" =>
        \A o \in DOMAIN reply.pixels :
            DrawnAt(request.grid, request.box, request.level, request.size, reply.pixels[o], o)

\* Whether a grid point is near the place that a region's value is given for.
NearValue(g, reg, o, n) ==
    NearLon(g, n, MiddleLon(reg, o), 2, 2) /\ NearLat(g, n, MiddleLat(reg, o), 2, 2)

\* What an area query answers for a rectangle lies in it, but for the cells
\* of the buffer, and is made of grid points near the place it is given for.
\* Whether it lies in it is left out for a rectangle that ends at longitude 0:
\* the reader takes it to cross the prime meridian and reads the globe, the
\* query takes it not to.
InRectangle(b, reg, o) ==
    LET margin == [i \in 1 .. 2 |-> (2 * Buffer + 1) * reg.res[i]]
    IN  /\ \E turn \in {-Circle, 0, Circle} :
               MiddleLon(reg, o) + 2 * turn
                   \in 2 * b.minLon - margin[1] .. 2 * b.maxLon + margin[1]
        /\ MiddleLat(reg, o) \in 2 * b.minLat - margin[2] .. 2 * b.maxLat + margin[2]

AreaClipped ==
    LET g == request.grid
        b == request.box
    IN  IsArea /\ Answered /\ InCircle(b) =>
            \A o \in DOMAIN reply.data :
                /\ (CrossesOn360(b, g.box) /\ b.maxLon = 0) \/ InRectangle(b, reply, o)
                /\ \A n \in reply.data[o] : NearValue(g, reply, o, n)

\* Whether a grid point is a step or more inside a rectangle, in one of the
\* turns of the grid's longitudes: distances to the sides, times Gaps.
IsInside(g, b, n) ==
    LET East(turn) == Gaps(g, 1) * (g.box.minLon + turn - b.minLon) + n[1] * Span(g.box)[1]
        South == Gaps(g, 2) * (b.maxLat - g.box.maxLat) + n[2] * Span(g.box)[2]
    IN  /\ InCircle(b)
        /\ \E turn \in Turns(g) :
               /\ East(turn) >= Span(g.box)[1]
               /\ Gaps(g, 1) * Span(b)[1] - East(turn) >= Span(g.box)[1]
        /\ South >= Span(g.box)[2]
        /\ Gaps(g, 2) * Span(b)[2] - South >= Span(g.box)[2]

\* And nothing of the rectangle is missing from it: every grid point inside
\* goes into some value.  Across the prime meridian, where values are
\* interpolated, one beside it that is missing may take it along.
AreaWhole ==
    LET g == request.grid
        b == request.box
    IN  IsArea /\ Answered =>
            \A n \in ((0 .. Gaps(g, 1)) \X (0 .. Gaps(g, 2))) \ g.missing :
                IsInside(g, b, n) =>
                    \/ \E o \in DOMAIN reply.data : n \in reply.data[o]
                    \/ /\ CrossesOn360(b, g.box)
                       /\ \E m \in g.missing : /\ m[1] \in {n[1], RightOf(g, n[1])}
                                               /\ m[2] \in {n[2], n[2] + 1}

\* Whether the place of a value is one of the rectangle and in the grid; a
\* grid that goes round ends at longitude 360.
ValueInGrid(g, b, reg, o) ==
    LET end == IF Span(g.box)[1] > GlobalWidth THEN Circle ELSE g.box.maxLon
    IN  /\ CrossesOn360(b, g.box) => MiddleLon(reg, o) < 2 * b.maxLon
        /\ MiddleLat(reg, o) \in 2 * g.box.minLat + 1 .. 2 * g.box.maxLat
        /\ \E turn \in Turns(g) :
               MiddleLon(reg, o) + 2 * turn \in 2 * g.box.minLon .. 2 * end - 1

\* Nor is a place of the rectangle that is in the grid without a value, if no
\* point near it is missing.
AreaFilled ==
    LET g == request.grid
        b == request.box
    IN  IsArea /\ Answered /\ InCircle(b) =>
            \A o \in DOMAIN reply.data :
                reply.data[o] = {} /\ ValueInGrid(g, b, reply, o) =>
                    \E n \in g.missing : NearValue(g, reply, o, n)

\* A point is answered from grid points no farther than two steps away, also
\* round the globe; and a point of the grid is left without an answer only if
\* one of those is missing, or at the end of the grid, where it is taken to be
\* on the point after the last.
PointsRight ==
    request.kind = "point" =>
        LET g == request.grid
            lonIn == Turned(request.lon, g.box)
            r == Resolution(g, 0)
            IsNear(n) == NearLon(g, n, lonIn, 1, 2) /\ NearLat(g, n, request.lat, 1, 2)
        IN  /\ \A n \in reply.value : IsNear(n)
            /\ reply.value = {} /\ Contains(g.box, lonIn, request.lat) =>
                 \/ \E n \in g.missing : IsNear(n)
                 \/ g.box.maxLon - lonIn < Snap
                 \/ request.lat - g.box.minLat < Snap

\* What is read of a grid, a region or a point, is the right part of it.
\* Hazards: the rows of a chunk at the edge, ends rounded to cells, the box of
\* a region whose rows start in the north, halved levels, points between the
\* last column and the first.
RegionsRight == Assembled /\ Placed /\ Covered /\ EnoughPixels
ReadsRight == RegionsRight /\ PointsRight

\* And what is made of the regions for images and area queries.  Hazards: the
\* prime meridian and the date line, where three modules decide each for
\* itself what crosses them.
AnswersRight == Drawn /\ AreaClipped /\ AreaWhole /\ AreaFilled

=============================================================================
