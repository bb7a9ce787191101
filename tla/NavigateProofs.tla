--------------------------- MODULE NavigateProofs ---------------------------
(***************************************************************************)
(* What the file manager guarantees for every file system, every height of *)
(* its panels and every size of the array d. The three facts need each     *)
(* other: a key moves the cursor by file_count, which speaks of the        *)
(* focused panel only because each key ends by reading that panel again,   *)
(* and what is read can be printed because the cursor was on an entry.     *)
(***************************************************************************)
EXTENDS Navigate, TLAPS

IInv == TypeOK /\ CursorOnEntry /\ ArrayIsFocusedPanel

(* A cursor that is on the screen and on an entry before the last one.     *)
OnEntry(c, last) ==
  /\ c.line \in 0 .. Height - 1 /\ c.region >= 0
  /\ c.region + c.line < last
  /\ c.region > 0 => c.region + Height <= last

Cursor == [line : Lines, region : 0 .. Slots]

-----------------------------------------------------------------------------
(* Cursor movement.                                                        *)

(* Whatever the directory, a key keeps line and region within the array.   *)
LEMMA MovesTyped ==
  ASSUME file_count \in Counts, NEW l \in Lines, NEW r \in 0 .. Slots
  PROVE  /\ Down(l, r) \in Cursor /\ Up(l, r) \in Cursor
         /\ PageDown(l, r) \in Cursor /\ PageUp(l, r) \in Cursor
<1> USE NavigateAssumption DEF Counts, Lines, Cursor
<1>1. FilesPerRegion \in -2 .. Slots /\ FilesPerRegion \in Int
  BY DEF FilesPerRegion
<1>2. min(Height, FilesPerRegion) \in -2 .. Slots
  BY <1>1 DEF min
<1>3. AtLeast0(file_count - Height) \in 0 .. Slots
  BY DEF AtLeast0
<1>4. min(l + 1, FilesPerRegion) \in -2 .. Slots
  BY <1>1 DEF min
<1>5. Down(l, r) \in Cursor
  BY <1>2, <1>3, <1>4 DEF Down, LastScreen
<1>6. Up(l, r) \in Cursor /\ PageUp(l, r) \in Cursor
  BY DEF Up, PageUp, AtLeast0
<1>7. PageDown(l, r) \in Cursor
  BY <1>2, <1>3 DEF PageDown, LastScreen
<1> QED BY <1>5, <1>6, <1>7

(* From an entry of a directory with two entries or more, a key leads to   *)
(* an entry: the last screen is full or begins at the top.                 *)
LEMMA MovesOnEntry ==
  ASSUME file_count \in Nat \ {0}, NEW l \in Int, NEW r \in Int,
         OnEntry([line |-> l, region |-> r], file_count)
  PROVE  /\ OnEntry(Down(l, r), file_count) /\ OnEntry(Up(l, r), file_count)
         /\ OnEntry(PageDown(l, r), file_count) /\ OnEntry(PageUp(l, r), file_count)
<1> USE NavigateAssumption
<1>0. /\ l \in 0 .. Height - 1 /\ r >= 0 /\ r + l < file_count
      /\ r > 0 => r + Height <= file_count
  BY DEF OnEntry
<1>1. FilesPerRegion = IF file_count < Height THEN file_count - 1 ELSE Height - 1
  BY DEF FilesPerRegion
<1>2. min(Height, FilesPerRegion) = FilesPerRegion
  BY <1>1 DEF min
<1>3. OnEntry(LastScreen(FilesPerRegion), file_count)
  BY <1>1 DEF OnEntry, LastScreen, AtLeast0
<1>4. OnEntry(Down(l, r), file_count)
  <2>1. CASE l + 1 > Height - 1
    BY <1>0, <1>2, <1>3, <2>1 DEF Down, OnEntry
  <2>2. CASE ~ (l + 1 > Height - 1)
    BY <1>0, <1>1, <2>2 DEF Down, OnEntry, min
  <2> QED BY <2>1, <2>2
<1>5. OnEntry(Up(l, r), file_count)
  BY <1>0 DEF Up, OnEntry, AtLeast0
<1>6. OnEntry(PageUp(l, r), file_count)
  BY <1>0 DEF PageUp, OnEntry
<1>7. OnEntry(PageDown(l, r), file_count)
  <2>1. CASE r + Height > file_count - Height
    BY <1>2, <1>3, <2>1 DEF PageDown
  <2>2. CASE ~ (r + Height > file_count - Height)
    BY <1>0, <2>2 DEF PageDown, OnEntry
  <2> QED BY <2>1, <2>2
<1> QED BY <1>4, <1>5, <1>6, <1>7

-----------------------------------------------------------------------------
(* Reading and printing.                                                   *)

(* A listing is a sequence of two to Slots entries, none of them junk.     *)
LEMMA ListingTyped ==
  ASSUME TypeOK, NEW x \in Dirs
  PROVE  /\ listing[x] \in Seq(Entries) /\ Len(listing[x]) \in 2 .. Slots
         /\ Len(listing[x]) \in Int
         /\ \A k \in 0 .. Len(listing[x]) - 1 :
              k \in Index /\ listing[x][k + 1] \in Entries /\ listing[x][k + 1] # Junk
<1>1. listing[x] \in Seq(Entries) /\ Len(listing[x]) \in 2 .. Slots
  BY NavigateAssumption DEF TypeOK, Entries
<1> QED BY <1>1, NavigateAssumption DEF Entries, Index

(* print_files() gives file_count and d their types, and after it they are *)
(* those of a directory that can be read.                                  *)
LEMMA Reads ==
  ASSUME TypeOK, NEW x \in Dirs, ReadFiles(x)
  PROVE  /\ file_count' \in Counts /\ d' \in [Index -> Entries \cup {Junk}]
         /\ x \in Readable =>
              /\ file_count' = Len(listing[x]) - 1
              /\ \A k \in 0 .. Len(listing[x]) - 1 : d'[k] = listing[x][k + 1]
<1>1. file_count' \in Counts
  BY ListingTyped, NavigateAssumption DEF ReadFiles, Counts
<1>2. d' \in [Index -> Entries \cup {Junk}]
  <2>1. ASSUME NEW k \in Index
        PROVE  (IF x \in Readable /\ k < Len(listing[x]) THEN listing[x][k + 1] ELSE d[k])
                 \in Entries \cup {Junk}
    <3>1. d[k] \in Entries \cup {Junk}
      BY DEF TypeOK
    <3>2. k < Len(listing[x]) => k \in 0 .. Len(listing[x]) - 1
      BY ListingTyped, NavigateAssumption DEF Index
    <3> QED BY <3>1, <3>2, ListingTyped
  <2> QED BY <2>1 DEF ReadFiles
<1>3. ASSUME x \in Readable
      PROVE  /\ file_count' = Len(listing[x]) - 1
             /\ \A k \in 0 .. Len(listing[x]) - 1 : d'[k] = listing[x][k + 1]
  BY <1>3, ListingTyped DEF ReadFiles
<1> QED BY <1>1, <1>2, <1>3

(* A readable directory whose region does not lie behind its last entry is *)
(* printed without meeting an element that was never written.              *)
LEMMA ReadablePrints ==
  ASSUME TypeOK, NEW x \in Readable, ReadFiles(x),
         NEW r \in Nat, r <= Len(listing[x]) - 1
  PROVE  Printable(r)
<1>1. x \in Dirs
  BY NavigateAssumption
<1>2. /\ file_count' = Len(listing[x]) - 1
      /\ \A k \in 0 .. Len(listing[x]) - 1 : d'[k] = listing[x][k + 1]
  BY <1>1, Reads
<1>3. ASSUME NEW k \in Printed(file_count', r) PROVE k \in 0 .. Len(listing[x]) - 1
  BY <1>1, <1>2, ListingTyped, NavigateAssumption DEF Printed
<1> QED BY <1>1, <1>2, <1>3, ListingTyped DEF Printable

(* Printing leaves running a Boolean.                                      *)
LEMMA SurvivesTyped ==
  ASSUME NEW ok \in BOOLEAN, Survives(ok)
  PROVE  running' \in BOOLEAN
BY Zenon DEF Survives

LEMMA PrintFilesTyped ==
  ASSUME NEW x, NEW r, PrintFiles(x, r)
  PROVE  running' \in BOOLEAN /\ ReadFiles(x)
<1> DEFINE ok == Printable(r)
<1>1. ok \in BOOLEAN
  BY Zenon DEF Printable
<1>2. Survives(ok) /\ ReadFiles(x)
  BY Zenon DEF PrintFiles
<1> HIDE DEF ok
<1> QED BY <1>1, <1>2, SurvivesTyped

-----------------------------------------------------------------------------
(* Init and the keys.                                                      *)

LEMMA InitIInv == Init => IInv
<1> SUFFICES ASSUME Init PROVE IInv
  OBVIOUS
<1> USE NavigateAssumption
<1>1. /\ \A x \in Dirs : listing[x] \in Listings[x]
      /\ listing[Home] \in Seq(Entries) /\ Len(listing[Home]) \in 2 .. Slots
  BY DEF Init, Entries
<1>2. \A k \in 0 .. Len(listing[Home]) - 1 :
        k \in Index /\ listing[Home][k + 1] \in Entries
  BY <1>1 DEF Index
<1>3. file_count \in Counts /\ d \in [Index -> Entries \cup {Junk}]
  <2>1. file_count \in Counts
    BY <1>1 DEF Init, Counts
  <2>2. ASSUME NEW k \in Index
        PROVE  (IF Home \in Readable /\ k < Len(listing[Home])
                THEN listing[Home][k + 1] ELSE Junk) \in Entries \cup {Junk}
    <3>1. k < Len(listing[Home]) => k \in 0 .. Len(listing[Home]) - 1
      BY <1>1 DEF Index
    <3> QED BY <1>2, <3>1
  <2> QED BY <2>1, <2>2 DEF Init
<1>4. running \in BOOLEAN
  <2> DEFINE ok == (Home \in Readable)
  <2>1. ok \in BOOLEAN
    OBVIOUS
  <2>2. running \in {TRUE, ok}
    BY Zenon DEF Init
  <2> HIDE DEF ok
  <2> QED BY <2>1, <2>2, Zenon
<1>5. TypeOK
  <2>1. /\ line \in [Windows -> Lines] /\ region \in [Windows -> 0 .. Slots] /\ focus \in Windows
        /\ changes \in 0 .. MaxChanges
    BY DEF Init, Lines, Windows
  <2>2. /\ path \in [Windows -> Dirs] /\ stale \in [Windows -> BOOLEAN]
        /\ cwd \in Dirs /\ entered \in Entries \cup {Junk}
    BY DEF Init
  <2> QED BY <1>1, <1>3, <1>4, <2>1, <2>2, Zenon DEF TypeOK
<1>6. CursorOnEntry
  BY <1>1 DEF Init, CursorOnEntry, Fresh, Last, Windows
<1>7. ArrayIsFocusedPanel
  <2>1. path[focus] = Home
    BY DEF Init, Windows
  <2> SUFFICES ASSUME Home \in Readable
               PROVE  /\ file_count = Len(listing[Home]) - 1
                      /\ \A k \in 0 .. file_count : d[k] = listing[Home][k + 1]
    BY <2>1 DEF ArrayIsFocusedPanel, Fresh, Last
  <2>2. file_count = Len(listing[Home]) - 1
    BY DEF Init
  <2>3. ASSUME NEW k \in 0 .. file_count PROVE d[k] = listing[Home][k + 1]
    <3>1. k \in Index /\ k < Len(listing[Home])
      BY <1>1, <2>2 DEF Index
    <3> QED BY <3>1 DEF Init
  <2> QED BY <2>2, <2>3
<1> QED BY <1>5, <1>6, <1>7 DEF IInv

(* What the focused panel shows after a key: its directory was just read.  *)
LEMMA ReadIsArray ==
  ASSUME TypeOK', UNCHANGED listing, TypeOK, ReadFiles(path'[focus'])
  PROVE  ArrayIsFocusedPanel'
<1>1. path'[focus'] \in Dirs
  BY DEF TypeOK
<1> QED BY <1>1, Reads DEF ArrayIsFocusedPanel, Fresh, Last

(* KEY_DOWN, KEY_UP, KEY_NPAGE, KEY_PPAGE.                                 *)
LEMMA MoveStep ==
  ASSUME IInv, NEW c \in Cursor, Fresh(focus) => OnEntry(c, file_count), MoveTo(c)
  PROVE  IInv'
<1>1. TypeOK /\ focus \in Windows /\ path[focus] \in Dirs
  BY DEF IInv, TypeOK
<1>2. /\ UNCHANGED <<path, focus, cwd, listing, changes, stale, entered>>
      /\ line' = [line EXCEPT ![focus] = c.line]
      /\ region' = [region EXCEPT ![focus] = c.region]
      /\ PrintFiles(path[focus], c.region)
  BY DEF MoveTo
<1>3. running' \in BOOLEAN /\ ReadFiles(path[focus])
  BY <1>2, PrintFilesTyped
<1>4. TypeOK'
  <2>1. file_count' \in Counts /\ d' \in [Index -> Entries \cup {Junk}]
    BY <1>1, <1>3, Reads
  <2>2. line' \in [Windows -> Lines] /\ region' \in [Windows -> 0 .. Slots]
    BY <1>1, <1>2 DEF Cursor, TypeOK
  <2> QED BY <1>1, <1>2, <1>3, <2>1, <2>2, Zenon DEF TypeOK
<1>5. CursorOnEntry'
  <2>1. SUFFICES ASSUME NEW w \in Windows, Fresh(w)'
        PROVE  OnEntry([line |-> line'[w], region |-> region'[w]], Last(w))
    BY <1>2 DEF CursorOnEntry, OnEntry, Last
  <2>2. CASE w = focus
    <3>1. Fresh(focus) /\ file_count = Last(focus)
      BY <1>2, <2>1, <2>2 DEF Fresh, IInv, ArrayIsFocusedPanel
    <3>2. line'[w] = c.line /\ region'[w] = c.region
      BY <1>1, <1>2, <2>2 DEF TypeOK
    <3> QED BY <2>2, <3>1, <3>2 DEF OnEntry
  <2>3. CASE w # focus
    <3>1. Fresh(w)
      BY <1>2, <2>1 DEF Fresh
    <3>2. line'[w] = line[w] /\ region'[w] = region[w]
      BY <1>1, <1>2, <2>3 DEF TypeOK
    <3> QED BY <3>1, <3>2 DEF OnEntry, IInv, CursorOnEntry
  <2> QED BY <2>2, <2>3
<1>6. ArrayIsFocusedPanel'
  BY <1>1, <1>2, <1>3, <1>4, ReadIsArray
<1> QED BY <1>4, <1>5, <1>6 DEF IInv

LEMMA CursorKeys ==
  ASSUME IInv
  PROVE  /\ Down(line[focus], region[focus]) \in Cursor
         /\ Up(line[focus], region[focus]) \in Cursor
         /\ PageDown(line[focus], region[focus]) \in Cursor
         /\ PageUp(line[focus], region[focus]) \in Cursor
         /\ Fresh(focus) =>
              /\ OnEntry(Down(line[focus], region[focus]), file_count)
              /\ OnEntry(Up(line[focus], region[focus]), file_count)
              /\ OnEntry(PageDown(line[focus], region[focus]), file_count)
              /\ OnEntry(PageUp(line[focus], region[focus]), file_count)
<1>1. /\ line[focus] \in Lines /\ region[focus] \in 0 .. Slots /\ file_count \in Counts
      /\ line[focus] \in Int /\ region[focus] \in Int
  BY NavigateAssumption DEF IInv, TypeOK, Lines
<1>2. ASSUME Fresh(focus)
      PROVE  /\ OnEntry([line |-> line[focus], region |-> region[focus]], file_count)
             /\ file_count \in Nat \ {0}
  <2>1. file_count = Last(focus) /\ focus \in Windows
    BY <1>2 DEF IInv, TypeOK, ArrayIsFocusedPanel
  <2>a. TypeOK /\ path[focus] \in Dirs
    BY <2>1 DEF IInv, TypeOK
  <2>2. Len(listing[path[focus]]) \in 2 .. Slots /\ Slots \in Nat
    BY <2>a, ListingTyped, NavigateAssumption
  <2>b. file_count = Len(listing[path[focus]]) - 1
    BY <2>1 DEF Last
  <2>3. file_count \in Nat \ {0}
    <3>1. ASSUME NEW n \in 2 .. Slots PROVE n - 1 \in Nat \ {0}
      BY <2>2
    <3> QED BY <2>2, <2>b, <3>1
  <2>4. /\ line[focus] \in 0 .. Height - 1 /\ region[focus] >= 0
        /\ region[focus] + line[focus] < Last(focus)
        /\ region[focus] > 0 => region[focus] + Height <= Last(focus)
    BY <1>2, <2>1 DEF IInv, CursorOnEntry
  <2> QED BY <2>1, <2>3, <2>4 DEF OnEntry
<1>3. /\ Down(line[focus], region[focus]) \in Cursor
      /\ Up(line[focus], region[focus]) \in Cursor
      /\ PageDown(line[focus], region[focus]) \in Cursor
      /\ PageUp(line[focus], region[focus]) \in Cursor
  BY <1>1, MovesTyped
<1> QED BY <1>1, <1>2, <1>3, MovesOnEntry

(* ENTER and 'h': the panel starts at the top of another directory.        *)
LEMMA GoToStep ==
  ASSUME IInv, NEW x, GoTo(x), UNCHANGED <<focus, listing, changes>>,
         entered' \in Entries \cup {Junk}
  PROVE  IInv'
<1>1. TypeOK /\ focus \in Windows /\ cwd \in Dirs
  BY DEF IInv, TypeOK
<1> DEFINE y == ClearPath(x)
<1>2. y \in Dirs
  BY <1>1, NavigateAssumption DEF ClearPath
<1>3. /\ path' = [path EXCEPT ![focus] = y] /\ cwd' = y
      /\ line' = [line EXCEPT ![focus] = 0]
      /\ region' = [region EXCEPT ![focus] = 0]
      /\ stale' = [stale EXCEPT ![focus] = FALSE]
      /\ PrintFiles(path'[focus], 0)
  BY DEF GoTo
<1> HIDE DEF y
<1>4. path'[focus] = y /\ running' \in BOOLEAN /\ ReadFiles(y)
  BY <1>1, <1>3, PrintFilesTyped DEF TypeOK
<1>5. TypeOK'
  <2>1. file_count' \in Counts /\ d' \in [Index -> Entries \cup {Junk}]
    BY <1>1, <1>2, <1>4, Reads
  <2>2. line' \in [Windows -> Lines] /\ region' \in [Windows -> 0 .. Slots]
    BY <1>1, <1>3, NavigateAssumption DEF TypeOK, Lines
  <2>3. path' \in [Windows -> Dirs] /\ stale' \in [Windows -> BOOLEAN]
    BY <1>1, <1>2, <1>3 DEF TypeOK
  <2> QED BY <1>1, <1>2, <1>3, <1>4, <2>1, <2>2, <2>3, Zenon DEF TypeOK
<1>6. CursorOnEntry'
  <2>1. SUFFICES ASSUME NEW w \in Windows, Fresh(w)'
        PROVE  OnEntry([line |-> line'[w], region |-> region'[w]], Last(w)')
    BY DEF CursorOnEntry, OnEntry, Last
  <2>2. CASE w = focus
    <3>1. line'[w] = 0 /\ region'[w] = 0 /\ Last(w)' = Len(listing[y]) - 1
      BY <1>1, <1>3, <1>4, <2>2 DEF TypeOK, Last
    <3> QED BY <1>1, <1>2, <3>1, ListingTyped, NavigateAssumption DEF OnEntry
  <2>3. CASE w # focus
    <3>1. /\ path'[w] = path[w] /\ stale'[w] = stale[w]
          /\ line'[w] = line[w] /\ region'[w] = region[w]
      BY <1>1, <1>3, <2>3 DEF TypeOK
    <3>2. Fresh(w) /\ Last(w)' = Last(w)
      BY <2>1, <3>1 DEF Fresh, Last
    <3> QED BY <3>1, <3>2 DEF OnEntry, IInv, CursorOnEntry
  <2> QED BY <2>2, <2>3
<1>7. ArrayIsFocusedPanel'
  BY <1>1, <1>4, <1>5, ReadIsArray
<1> QED BY <1>5, <1>6, <1>7 DEF IInv

(* Keys that leave both cursors where they are and read a panel again: the *)
(* focused one, which TAB has just changed.                                *)
LEMMA RereadStep ==
  ASSUME IInv, UNCHANGED <<path, line, region, cwd, listing, changes, stale, entered>>,
         focus' \in Windows, running' \in BOOLEAN, ReadFiles(path[focus'])
  PROVE  IInv'
<1>1. TypeOK /\ path[focus'] \in Dirs
  BY DEF IInv, TypeOK
<1>2. file_count' \in Counts /\ d' \in [Index -> Entries \cup {Junk}]
  BY <1>1, Reads
<1>3. TypeOK'
  BY <1>1, <1>2, Zenon DEF TypeOK
<1>4. CursorOnEntry'
  BY DEF IInv, CursorOnEntry, Fresh, Last
<1>5. ArrayIsFocusedPanel'
  BY <1>1, <1>3, ReadIsArray
<1> QED BY <1>3, <1>4, <1>5 DEF IInv

(* The last key of a program that dies of what it follows.                 *)
LEMMA DeathStep ==
  ASSUME IInv, running' = FALSE,
         UNCHANGED <<path, line, region, focus, d, file_count, cwd, listing, changes, stale,
                     entered>>
  PROVE  IInv'
BY DEF IInv, TypeOK, CursorOnEntry, ArrayIsFocusedPanel, Fresh, Last

(* A directory changes under the panels that show it.                      *)
LEMMA ChangeStep ==
  ASSUME IInv, NEW x \in Dirs, Change(x)
  PROVE  IInv'
<1>1. PICK s \in Listings[x] : listing' = [listing EXCEPT ![x] = s]
  BY DEF Change
<1>2. \A y \in Dirs : listing'[y] \in Listings[y] /\ (y # x => listing'[y] = listing[y])
  BY <1>1 DEF IInv, TypeOK
<1>3. TypeOK'
  <2>1. changes' \in 0 .. MaxChanges
    BY NavigateAssumption DEF Change, IInv, TypeOK
  <2>2. stale' \in [Windows -> BOOLEAN]
    BY DEF Change
  <2> QED BY <1>2, <2>1, <2>2, Zenon DEF Change, IInv, TypeOK
<1>4. \A w \in Windows : Fresh(w)' => Fresh(w) /\ path'[w] = path[w]
                                      /\ listing'[path'[w]] = listing[path[w]]
  BY <1>2 DEF Change, Fresh, IInv, TypeOK
<1>5. CursorOnEntry'
  BY <1>4 DEF Change, IInv, CursorOnEntry, Last
<1>6. ArrayIsFocusedPanel'
  <2>1. focus \in Windows
    BY DEF IInv, TypeOK
  <2> QED BY <1>4, <2>1 DEF Change, IInv, ArrayIsFocusedPanel, Last
<1> QED BY <1>3, <1>5, <1>6 DEF IInv

(* What ENTER appends is an element of the array, or junk.                 *)
LEMMA ElementTyped ==
  ASSUME TypeOK, NEW k \in Int
  PROVE  Element(k) \in Entries \cup {Junk}
BY DEF TypeOK, Element

LEMMA NextIInv == IInv /\ [Next]_vars => IInv'
<1> SUFFICES ASSUME IInv, [Next]_vars PROVE IInv'
  OBVIOUS
<1> DEFINE l == line[focus]  r == region[focus]
<1>0. TypeOK /\ focus \in Windows /\ l \in Int /\ r \in Int
  BY NavigateAssumption DEF IInv, TypeOK, Lines
<1>1. CASE KeyDown \/ KeyUp \/ KeyPageDown \/ KeyPageUp
  BY <1>1, CursorKeys, MoveStep DEF KeyDown, KeyUp, KeyPageDown, KeyPageUp
<1>2. CASE Enter
  <2>1. entered' = Element(r + l) /\ GoTo(entered') /\ UNCHANGED <<focus, listing, changes>>
    BY <1>2 DEF Enter
  <2>2. Element(r + l) \in Entries \cup {Junk}
    BY <1>0, ElementTyped
  <2> QED BY <2>1, <2>2, GoToStep
<1>3. CASE EnterFile \/ OtherKey
  <2>1. PrintFiles(path[focus], r)
    BY <1>3 DEF EnterFile, OtherKey
  <2>2. running' \in BOOLEAN /\ ReadFiles(path[focus])
    BY <2>1, PrintFilesTyped
  <2> QED BY <1>0, <1>3, <2>2, RereadStep DEF EnterFile, OtherKey
<1>4. CASE EnterJunk
  <2>1. UNCHANGED <<focus, listing, changes, entered>>
    BY <1>4 DEF EnterJunk
  <2>2. CASE running' = FALSE /\ UNCHANGED <<path, line, region, d, file_count, cwd, stale>>
    BY <2>1, <2>2, DeathStep
  <2>3. CASE PrintFiles(path[focus], r) /\ UNCHANGED <<path, line, region, cwd, stale>>
    <3>1. running' \in BOOLEAN /\ ReadFiles(path[focus])
      BY <2>3, PrintFilesTyped
    <3> QED BY <1>0, <2>1, <2>3, <3>1, RereadStep
  <2>4. CASE GoTo(Junk)
    <3>1. entered' \in Entries \cup {Junk}
      BY <1>0, <2>1 DEF TypeOK
    <3> QED BY <2>1, <2>4, <3>1, GoToStep
  <2> QED BY <1>4, <2>2, <2>3, <2>4 DEF EnterJunk
<1>5. CASE GoUp
  <2>1. entered' \in Entries \cup {Junk}
    BY <1>0, <1>5 DEF GoUp, TypeOK
  <2> QED BY <1>5, <2>1, GoToStep DEF GoUp
<1>6. CASE Tab
  <2>1. focus' \in Windows /\ path'[focus'] = path[focus']
    BY <1>0, <1>6 DEF Tab, Windows
  <2>2. running' \in BOOLEAN /\ ReadFiles(path[focus'])
    BY <1>6, PrintFilesTyped DEF Tab, PrintFiles, Survives, Printable
  <2> QED BY <1>6, <2>1, <2>2, RereadStep DEF Tab
<1>7. CASE Yank
  <2> DEFINE ok == Printable(r) /\ \A w \in Windows : Redrawable(w)
  <2>1. ok \in BOOLEAN
    OBVIOUS
  <2>2. Survives(ok) /\ ReadFiles(path[focus])
    BY <1>7, Zenon DEF Yank
  <2> HIDE DEF ok
  <2>3. running' \in BOOLEAN
    BY <2>1, <2>2, SurvivesTyped
  <2> QED BY <1>0, <1>7, <2>2, <2>3, RereadStep DEF Yank
<1>8. CASE Quit
  <2>1. running' \in BOOLEAN
    BY <1>8 DEF Quit
  <2> QED BY <1>0, <1>8, <2>1, RereadStep DEF Quit
<1>9. ASSUME NEW x \in Dirs, Change(x) PROVE IInv'
  BY <1>9, ChangeStep
<1>10. CASE UNCHANGED vars
  BY <1>10 DEF vars, IInv, TypeOK, CursorOnEntry, ArrayIsFocusedPanel, Fresh, Last
<1> QED BY <1>1, <1>2, <1>3, <1>4, <1>5, <1>6, <1>7, <1>8, <1>9, <1>10 DEF Next

-----------------------------------------------------------------------------
(* The inductive invariant holds in every reachable state.                 *)
THEOREM Invariance == Spec => []IInv
BY InitIInv, NextIInv, PTL DEF Spec

(* In every directory, changed or unreadable ones included, lines, regions *)
(* and the number of entries stay within the bounds of the array.          *)
THEOREM TypeCorrect == Spec => []TypeOK
<1>1. IInv => TypeOK
  BY DEF IInv
<1> QED BY <1>1, Invariance, PTL

(* For every height and every listing, the cursor of a panel whose         *)
(* directory can be read and did not change is on an entry on the screen,  *)
(* and a scrolled panel is full.                                           *)
THEOREM CursorStays == Spec => []CursorOnEntry
<1>1. IInv => CursorOnEntry
  BY DEF IInv
<1> QED BY <1>1, Invariance, PTL

(* The array always holds the directory of the focused panel.              *)
THEOREM ArrayFollowsFocus == Spec => []ArrayIsFocusedPanel
<1>1. IInv => ArrayIsFocusedPanel
  BY DEF IInv
<1> QED BY <1>1, Invariance, PTL

-----------------------------------------------------------------------------
(* How the program ends.                                                   *)

(* A panel whose print_files() may meet what was never written.            *)
Doubtful(w) == path'[w] \notin Readable \/ stale[w]

LEMMA PrintSurvives ==
  ASSUME TypeOK, NEW x \in Readable, NEW r \in Nat, r <= Len(listing[x]) - 1,
         PrintFiles(x, r)
  PROVE  running' = TRUE
<1>1. Printable(r)
  BY ReadablePrints DEF PrintFiles
<1> QED BY <1>1 DEF PrintFiles, Survives

(* The region of a panel that can be trusted lies before the last entry,   *)
(* and both elements ENTER looks at were read.                             *)
LEMMA Trusted ==
  ASSUME IInv, NEW w \in Windows, Fresh(w)
  PROVE  /\ path[w] \in Readable /\ region[w] \in Nat
         /\ region[w] <= Len(listing[path[w]]) - 1
         /\ w = focus => /\ Element(line[w]) # Junk
                         /\ Element(region[w] + line[w]) # Junk
<1>1. TypeOK /\ path[w] \in Dirs /\ path[w] \in Readable
  BY DEF IInv, TypeOK, Fresh
<1>2. /\ line[w] \in 0 .. Height - 1 /\ region[w] >= 0 /\ region[w] \in Int
      /\ region[w] + line[w] < Last(w)
  BY NavigateAssumption DEF IInv, TypeOK, CursorOnEntry
<1>3. Last(w) = Len(listing[path[w]]) - 1 /\ Len(listing[path[w]]) \in Int
  BY <1>1, ListingTyped DEF Last
<1>4. line[w] \in 0 .. Last(w) /\ region[w] + line[w] \in 0 .. Last(w) /\ region[w] <= Last(w)
  BY <1>2, <1>3, NavigateAssumption
<1>5. ASSUME w = focus, NEW k \in 0 .. Last(w)
      PROVE  Element(k) # Junk
  <2>1. d[k] = listing[path[w]][k + 1]
    BY <1>5 DEF IInv, ArrayIsFocusedPanel
  <2> QED BY <1>1, <1>3, <1>5, <2>1, ListingTyped DEF Element
<1> QED BY <1>1, <1>2, <1>3, <1>4, <1>5

LEMMA GoToSurvives ==
  ASSUME IInv, NEW x, GoTo(x), UNCHANGED focus
  PROVE  running' = TRUE \/ Doubtful(focus)
<1>1. TypeOK /\ focus \in Windows /\ cwd \in Dirs
  BY DEF IInv, TypeOK
<1>2. path'[focus] = ClearPath(x) /\ PrintFiles(path'[focus], 0)
  BY <1>1 DEF GoTo, TypeOK
<1>3. CASE path'[focus] \in Readable
  <2>1. Len(listing[path'[focus]]) \in 2 .. Slots /\ Len(listing[path'[focus]]) \in Int
    BY <1>1, <1>3, ListingTyped, NavigateAssumption
  <2>2. 0 <= Len(listing[path'[focus]]) - 1
    BY <2>1, NavigateAssumption
  <2> QED BY <1>1, <1>2, <1>3, <2>2, PrintSurvives
<1> QED BY <1>3 DEF Doubtful

(* Keys that move the cursor.                                              *)
LEMMA MoveSurvives ==
  ASSUME IInv, NEW c \in Cursor, Fresh(focus) => OnEntry(c, file_count), MoveTo(c)
  PROVE  running' = TRUE \/ Doubtful(focus)
<1>1. TypeOK /\ focus \in Windows /\ path[focus] \in Dirs
  BY DEF IInv, TypeOK
<1>2. path' = path /\ PrintFiles(path[focus], c.region)
  BY DEF MoveTo
<1>3. CASE Fresh(focus)
  <2>1. file_count = Len(listing[path[focus]]) - 1
    BY <1>3 DEF IInv, ArrayIsFocusedPanel, Last
  <2>2. Len(listing[path[focus]]) \in Int
    BY <1>1, ListingTyped
  <2>3. c.region \in Nat /\ c.region <= Len(listing[path[focus]]) - 1
    BY <1>3, <2>1, <2>2, NavigateAssumption DEF OnEntry, Cursor
  <2> QED BY <1>1, <1>2, <1>3, <2>3, PrintSurvives DEF Fresh
<1> QED BY <1>2, <1>3 DEF Fresh, Doubtful

(* Keys that leave the cursor where it is.                                 *)
LEMMA RereadSurvives ==
  ASSUME IInv, NEW w \in Windows, UNCHANGED path, PrintFiles(path[w], region[w])
  PROVE  running' = TRUE \/ Doubtful(w)
<1>1. CASE Fresh(w)
  BY <1>1, Trusted, PrintSurvives DEF IInv
<1> QED BY <1>1 DEF Fresh, Doubtful

(* 'y' prints the focused panel from d and both panels from other arrays.  *)
LEMMA YankSurvives ==
  ASSUME IInv, Yank
  PROVE  running' = TRUE \/ \E w \in Windows : Doubtful(w)
<1>1. SUFFICES ASSUME \A w \in Windows : Fresh(w)
               PROVE  running' = TRUE
  BY DEF Yank, Fresh, Doubtful
<1>2. focus \in Windows /\ TypeOK
  BY DEF IInv, TypeOK
<1>3. Printable(region[focus])
  BY <1>1, <1>2, Trusted, ReadablePrints DEF Yank
<1>4. ASSUME NEW w \in Windows PROVE Redrawable(w)
  <2>1. /\ path[w] \in Readable /\ path[w] \in Dirs
        /\ region[w] \in Nat /\ region[w] <= Len(listing[path[w]]) - 1
    BY <1>1, Trusted, NavigateAssumption
  <2>2. Len(listing[path[w]]) \in Int
    BY <1>2, <2>1, ListingTyped
  <2> QED BY <2>1, <2>2 DEF Redrawable, Printed
<1> QED BY <1>3, <1>4 DEF Yank, Survives

(* A key that ends the program without being 'q' has met a panel in doubt. *)
LEMMA Endings ==
  ASSUME IInv, Next, running
  PROVE  \/ Quit \/ running' = TRUE
         \/ focus' \in Windows /\ Doubtful(focus')
         \/ Yank /\ \E w \in Windows : Doubtful(w)
<1>0. focus \in Windows
  BY DEF IInv, TypeOK
<1>1. CASE KeyDown \/ KeyUp \/ KeyPageDown \/ KeyPageUp
  <2>1. running' = TRUE \/ Doubtful(focus)
    BY <1>1, CursorKeys, MoveSurvives DEF KeyDown, KeyUp, KeyPageDown, KeyPageUp
  <2>2. focus' = focus
    BY <1>1 DEF KeyDown, KeyUp, KeyPageDown, KeyPageUp, MoveTo
  <2> QED BY <1>0, <2>1, <2>2
<1>2. CASE Enter \/ GoUp
  <2>1. running' = TRUE \/ Doubtful(focus)
    BY <1>2, GoToSurvives DEF Enter, GoUp
  <2>2. focus' = focus
    BY <1>2 DEF Enter, GoUp
  <2> QED BY <1>0, <2>1, <2>2
<1>3. CASE EnterFile \/ OtherKey
  <2>1. running' = TRUE \/ Doubtful(focus)
    BY <1>0, <1>3, RereadSurvives DEF EnterFile, OtherKey
  <2>2. focus' = focus
    BY <1>3 DEF EnterFile, OtherKey
  <2> QED BY <1>0, <2>1, <2>2
<1>4. CASE EnterJunk
  <2>1. focus' = focus
    BY <1>4 DEF EnterJunk
  <2>2. ~ Fresh(focus)
    BY <1>0, <1>4, Trusted, NavigateAssumption DEF EnterJunk
  <2>3. CASE GoTo(Junk)
    <3>1. running' = TRUE \/ Doubtful(focus)
      BY <2>1, <2>3, GoToSurvives
    <3> QED BY <1>0, <2>1, <3>1
  <2>4. CASE path' = path
    <3>1. Doubtful(focus)
      BY <2>2, <2>4 DEF Fresh, Doubtful
    <3> QED BY <1>0, <2>1, <3>1
  <2> QED BY <1>4, <2>3, <2>4 DEF EnterJunk
<1>5. CASE Tab
  <2>1. focus' \in Windows /\ path' = path /\ PrintFiles(path[focus'], region[focus'])
    BY <1>0, <1>5 DEF Tab, Windows
  <2> QED BY <2>1, RereadSurvives
<1>6. CASE Yank
  BY <1>6, YankSurvives
<1>7. ASSUME NEW x \in Dirs, Change(x) PROVE running' = TRUE
  <2>1. running' = running /\ running \in BOOLEAN
    BY <1>7 DEF Change, IInv, TypeOK
  <2> QED BY <2>1
<1> QED BY <1>1, <1>2, <1>3, <1>4, <1>5, <1>6, <1>7 DEF Next

(* The program ends by 'q' unless a panel it prints shows a directory that *)
(* cannot be opened or that changed under its cursor: no mixture of keys   *)
(* makes it follow an entry that was not read.                             *)
THEOREM OnlyQuitEnds == Spec => EndsByQuit
<1>1. ASSUME IInv, [Next]_vars
      PROVE  [(running /\ ~ running' /\ ~ Quit)
                => \E w \in IF Yank THEN Windows ELSE {focus'} :
                     path'[w] \notin Readable \/ stale[w]]_vars
  <2>1. CASE UNCHANGED vars
    BY <2>1
  <2>2. CASE Next
    BY <2>2, <1>1, Endings DEF Doubtful
  <2> QED BY <1>1, <2>1, <2>2
<1> QED BY <1>1, Invariance, PTL DEF Spec, EndsByQuit
=============================================================================
