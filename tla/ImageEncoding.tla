---------------------------- MODULE ImageEncoding ----------------------------
(***************************************************************************)
(* The artwork: the scripts of nouns-assets encode PNG files into images   *)
(* of run lengths and colour indexes, collected in JSON files with their   *)
(* palette; more images are encoded later against the palette that was     *)
(* published, and merged into one file; the SDK draws an image again.      *)
(***************************************************************************)
EXTENDS Integers, Sequences, SequencesExt, FiniteSetsExt

CONSTANTS
  Hex,            \* the base of a digit (16 in the code): two digits make a byte
  PictureWidth, PictureHeight,
  Pictures,       \* the pictures in the folders: a pixel for every position
  PartFiles,      \* the files, <<folder, filename>>, in the order they are read
  GivenPalettes,  \* the palette each of the nigi scripts is given, by the script's name
  MaxPictures     \* bound: files encoded in all, and images of the published file

\* Sizes and bounds fit a byte, no pixel has the empty colour, palettes begin with it.
ASSUME ImageAssumption ==
  /\ Hex \in Nat /\ Hex > 1
  /\ PictureWidth \in 1 .. Hex * Hex - 1 /\ PictureHeight \in 1 .. Hex * Hex
  /\ \A picture \in Pictures :
       /\ DOMAIN picture = (0 .. PictureWidth - 1) \X (0 .. PictureHeight - 1)
       /\ \A position \in DOMAIN picture :
            picture[position] \in [clear : BOOLEAN, color : STRING] /\ picture[position].color # ""
  /\ \A name \in DOMAIN GivenPalettes :
       GivenPalettes[name] \in Seq(STRING) \ {<<>>} /\ GivenPalettes[name][1] = ""

VARIABLES
  script,      \* the script under way: its name, the file it is at, its encoder
  published,   \* image-data.json: the palette and the images by folder
  page,        \* the file encode-more writes: its images
  encodedFiles \* files encoded so far

imageVars == <<script, published, page, encodedFiles>>

Transparent == ""
NoArt == [palette |-> <<>>, images |-> <<>>]
NoPage == <<>>
NoEncoder == [colors |-> <<>>, images |-> [filename \in {} |-> <<>>], folders |-> <<>>]
NoScript == [name |-> "none", at |-> 0, palette |-> <<>>, encoder |-> NoEncoder]

ImageInit ==
  script = NoScript /\ published = NoArt /\ page = NoPage /\ encodedFiles = 0

-----------------------------------------------------------------------------
(* Image: a picture becomes bounds and runs.  A pixel has a colour, also    *)
(* where it is clear.                                                      *)

toPaddedHex(c) ==
  IF c < Hex * Hex THEN <<c \div Hex, c % Hex>>
  ELSE <<c \div (Hex * Hex), (c \div Hex) % Hex, c % Hex>>

isTransparentRow(picture, row) == \A x \in 0 .. PictureWidth - 1 : picture[<<x, row>>].clear
isTransparentColumn(picture, column) ==
  \A y \in 0 .. PictureHeight - 1 : picture[<<column, y>>].clear

\* Rows and columns are trimmed; one row is left of a picture that is all clear.
calcBounds(picture) ==
  LET rows == {y \in 0 .. PictureHeight - 1 : ~isTransparentRow(picture, y)}
      columns == {x \in 0 .. PictureWidth - 1 : ~isTransparentColumn(picture, x)}
  IN IF columns = {} THEN [top |-> 0, right |-> 0, bottom |-> 0, left |-> 0]
     ELSE [top |-> Min(rows), right |-> Max(columns) + 1,
           bottom |-> Max(rows), left |-> Min(columns)]

MaxRun == Hex * Hex - 1

\* A pixel more: a run goes on, unless a byte could not tell its length.
RunOn(runs, index) ==
  IF runs # <<>> /\ Last(runs).color = index /\ Last(runs).length < MaxRun
  THEN [runs EXCEPT ![Len(runs)].length = @ + 1]
  ELSE Append(runs, [length |-> 1, color |-> index])

encode(data) ==
  LET runs[n \in 0 .. Len(data)] == IF n = 0 THEN <<>> ELSE RunOn(runs[n - 1], data[n])
      all == runs[Len(data)]
  IN FlattenSeq([r \in DOMAIN all |-> toPaddedHex(all[r].length) \o toPaddedHex(all[r].color)])

\* The positions inside the bounds, row by row.
Raster(bounds) ==
  LET width == bounds.right - bounds.left
  IN [n \in 1 .. width * (bounds.bottom - bounds.top + 1) |->
        <<bounds.left + ((n - 1) % width), bounds.top + ((n - 1) \div width)>>]

IndexOf(colors, color) == (CHOOSE n \in DOMAIN colors : colors[n] = color) - 1

WithColor(colors, color) == IF color \in ToSet(colors) THEN colors ELSE Append(colors, color)

\* Every colour inside the bounds joins the palette, that of a clear pixel too.
toRLE(picture, colors) ==
  LET bounds == calcBounds(picture)
      pixels == [n \in DOMAIN Raster(bounds) |-> picture[Raster(bounds)[n]]]
      known[n \in 0 .. Len(pixels)] ==
        IF n = 0 THEN colors ELSE WithColor(known[n - 1], pixels[n].color)
      all == known[Len(pixels)]
      indexes == [n \in DOMAIN pixels |->
                    IF pixels[n].clear THEN 0 ELSE IndexOf(all, pixels[n].color)]
      metadata == <<0, bounds.top, bounds.right, bounds.bottom, bounds.left>>
  IN [colors |-> all,
      data |-> FlattenSeq([n \in 1 .. 5 |-> toPaddedHex(metadata[n])]) \o encode(indexes)]

-----------------------------------------------------------------------------
(* PNGCollectionEncoder.  picture is kept for the properties below, and so *)
(* is the palette an image is encoded for.                                 *)

\* A palette that is given is taken over, with its colours where they are.
NewEncoder(colors) ==
  [NoEncoder EXCEPT !.colors = IF colors = <<>> THEN <<Transparent>> ELSE colors]

\* An image is kept by its name, whatever the folder, and listed in its folder.
encodeImage(encoder, filename, picture, folder) ==
  LET rle == toRLE(picture, encoder.colors)
  IN [colors |-> rle.colors,
      images |-> [name \in DOMAIN encoder.images \cup {filename} |->
                    IF name = filename THEN rle.data ELSE encoder.images[name]],
      folders |-> Append(encoder.folders,
                         [folder |-> folder, filename |-> filename, picture |-> picture])]

\* An image is written to the first folder that lists its name; another folder
\* with that name gets none.  The images of all folders are one list here: those of a
\* folder are the entries that name it, in their order.
Undefined == <<>>
format(encoder, palette) ==
  [n \in DOMAIN encoder.folders |->
     LET file == encoder.folders[n]
     IN [folder |-> file.folder, filename |-> file.filename, picture |-> file.picture,
         palette |-> palette,
         data |-> IF \E m \in 1 .. n - 1 : encoder.folders[m].filename = file.filename
                  THEN Undefined ELSE encoder.images[file.filename]]]

dataOf(encoder) == [palette |-> encoder.colors, images |-> format(encoder, encoder.colors)]

-----------------------------------------------------------------------------
(* The scripts.                                                            *)

StartScript(name, palette) ==
  /\ script = NoScript
  /\ script' = [name |-> name, at |-> 0, palette |-> palette, encoder |-> NewEncoder(palette)]
  /\ UNCHANGED <<published, page, encodedFiles>>

\* A later file of the folders is read and encoded.
EncodeNextFile ==
  /\ script # NoScript /\ encodedFiles < MaxPictures
  /\ \E n \in script.at + 1 .. Len(PartFiles), picture \in Pictures :
       script' = [script EXCEPT !.at = n,
                    !.encoder = encodeImage(@, PartFiles[n][2], picture, PartFiles[n][1])]
  /\ encodedFiles' = encodedFiles + 1
  /\ UNCHANGED <<published, page>>

\* encode: from an empty palette to image-data.json.
encodeAll ==
  /\ script.name = "encode"
  /\ published' = dataOf(script.encoder) /\ script' = NoScript
  /\ UNCHANGED <<page, encodedFiles>>

\* Mutant: the palette is not compared.
WritesPageAnyway == TRUE

PaletteUnchanged == script.encoder.colors = script.palette

\* encode-more and the six nigi scripts: the images are written only when the
\* palette they were given holds all their colours.
WritePage ==
  /\ page' = IF PaletteUnchanged THEN format(script.encoder, script.palette) ELSE page
  /\ script' = NoScript
  /\ UNCHANGED <<published, encodedFiles>>
encodeMore == script.name = "encode-more" /\ WritePage
encodeMoreNigi32 == script.name = "encode-more-nigi-32" /\ WritePage
encodeMoreNigi48 == script.name = "encode-more-nigi-48" /\ WritePage
encodeMoreNigi64 == script.name = "encode-more-nigi-64" /\ WritePage
encodeMoreNigi80 == script.name = "encode-more-nigi-80" /\ WritePage
encodeMoreNigi96 == script.name = "encode-more-nigi-96" /\ WritePage
encodeMoreNigi120 == script.name = "encode-more-nigi-120" /\ WritePage

FoldersOf(images) == {images[n].folder : n \in DOMAIN images}

\* append-image-data: a folder the base does not have makes it fail.  The palette of the
\* base stays, whatever palette the page was encoded for: none is compared.
merge ==
  /\ script = NoScript /\ page # NoPage
  /\ FoldersOf(page) \subseteq FoldersOf(published.images)
  /\ Len(published.images) + Len(page) <= MaxPictures
  /\ published' = [published EXCEPT !.images = @ \o page]
  /\ UNCHANGED <<script, page, encodedFiles>>

ImageNext ==
  \/ encodedFiles < MaxPictures /\ StartScript("encode", <<>>)
  \/ /\ published # NoArt /\ encodedFiles < MaxPictures
     /\ StartScript("encode-more", published.palette)
  \/ \E name \in DOMAIN GivenPalettes :
       encodedFiles < MaxPictures /\ StartScript(name, GivenPalettes[name])
  \/ EncodeNextFile \/ encodeAll \/ encodeMore \/ merge
  \/ encodeMoreNigi32 \/ encodeMoreNigi48 \/ encodeMoreNigi64
  \/ encodeMoreNigi80 \/ encodeMoreNigi96 \/ encodeMoreNigi120

ImageSpec == ImageInit /\ [][ImageNext]_imageVars

-----------------------------------------------------------------------------
(* Drawing.                                                                *)

parseInt(digits) == digits[1] * Hex + digits[2]
Byte(data, n) == parseInt(SubSeq(data, 2 * n - 1, 2 * n))

decodeImage(data) ==
  [bounds |-> [top |-> Byte(data, 2), right |-> Byte(data, 3), bottom |-> Byte(data, 4),
               left |-> Byte(data, 5)],
   rects |-> [r \in 1 .. (Len(data) - 10) \div 4 |->
                [length |-> Byte(data, 2 * r + 4), color |-> Byte(data, 2 * r + 5)]]]

getRectLength(currentX, drawLength, rightBound) == Min({drawLength, rightBound - currentX})

\* A rectangle of one pixel's height, up to the end of the line at most.
DrawRect(pen, color, bounds) ==
  LET length == getRectLength(pen.x, pen.drawLength, bounds.right)
      rect == [x |-> pen.x, y |-> pen.y, width |-> length, color |-> color]
      lineEnds == pen.x + length = bounds.right
  IN IF length <= 0 THEN pen
     ELSE [rects |-> IF color = 0 THEN pen.rects ELSE pen.rects \cup {rect},
           x |-> IF lineEnds THEN bounds.left ELSE pen.x + length,
           y |-> IF lineEnds THEN pen.y + 1 ELSE pen.y,
           drawLength |-> pen.drawLength - length]

\* A run is drawn line by line: each turn of the loop draws one pixel at least.
DrawRun(pen, run, bounds) ==
  LET drawn[n \in 0 .. run.length] ==
        IF n = 0 THEN [pen EXCEPT !.drawLength = run.length]
        ELSE DrawRect(drawn[n - 1], run.color, bounds)
  IN drawn[run.length]

buildSVG(data) ==
  LET image == decodeImage(data)
      start == [rects |-> {}, x |-> image.bounds.left, y |-> image.bounds.top, drawLength |-> 0]
      drawn[n \in 0 .. Len(image.rects)] ==
        IF n = 0 THEN start ELSE DrawRun(drawn[n - 1], image.rects[n], image.bounds)
  IN drawn[Len(image.rects)].rects

\* The colours drawn at a position.
hexColor(palette, index) == IF index < Len(palette) THEN palette[index + 1] ELSE "undefined"
DrawnAt(rects, palette, x, y) ==
  {hexColor(palette, r.color) : r \in {q \in rects : q.y = y /\ x \in q.x .. q.x + q.width - 1}}

Draws(data, palette, picture) ==
  LET rects == buildSVG(data)
  IN \A x \in 0 .. PictureWidth - 1, y \in 0 .. PictureHeight - 1 :
       DrawnAt(rects, palette, x, y) =
         IF picture[<<x, y>>].clear THEN {} ELSE {picture[<<x, y>>].color}

NamedOnce(images, n) ==
  \A m \in DOMAIN images \ {n} : images[m].filename # images[n].filename

\* Drawn with the palette it was encoded for, every image of a file is the picture it
\* was encoded from, also after more images were encoded and merged; as long as the
\* palette has no more colours than a byte can tell, and unless two files have one name
\* (toRLE, encodeImage, buildSVG and the scripts).  For a page that palette is the one
\* its script was given, for image-data.json the one in the file, but for images of a
\* page that was encoded for another.
ArtDrawsItsPictures ==
  \A images \in {published.images, page} : \A n \in DOMAIN images :
    LET image == images[n]
    IN Len(image.palette) <= Hex * Hex /\ NamedOnce(images, n) =>
         Draws(image.data, image.palette, image.picture)
=============================================================================
