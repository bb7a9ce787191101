------------------------------ MODULE Navigate ------------------------------
(***************************************************************************)
(* The two-panel file manager of text_manager: navigate() reads a key,     *)
(* moves the cursor or the path of the focused panel and calls             *)
(* print_files(), which reads the panel's directory into the array d that  *)
(* the next key works on. The directory can change between two keys. A     *)
(* path is a directory; the working directory of the process, which        *)
(* clear_path() uses, is shared by both panels.                            *)
(***************************************************************************)
EXTENDS Integers, Sequences

CONSTANTS
  Dirs,         \* the directories of the file system
  File,         \* an entry that is no directory (d_type other than 4)
  Parent,       \* ".." of each directory
  Listings,     \* for each directory, the listings readdir may give over time
  Readable,     \* directories opendir opens
  Searchable,   \* directories chdir enters
  Home, Cwd0,   \* "/home/eltex" and the directory the program starts in
  Height,       \* getmaxy of a panel
  Slots,        \* entries of the array d (256)
  Junk,         \* an element of d nobody has written
  MaxChanges    \* bound: changes of directories by others

ASSUME NavigateAssumption ==
  /\ File \notin Dirs /\ Junk \notin Dirs /\ Junk # File
  /\ Parent \in [Dirs -> Dirs]
  /\ Readable \subseteq Dirs /\ Searchable \subseteq Dirs
  /\ Home \in Dirs /\ Cwd0 \in Dirs
  /\ Height \in Nat \ {0} /\ MaxChanges \in Nat /\ Slots \in Nat \ {0}
  /\ DOMAIN Listings = Dirs
  /\ \A x \in Dirs : \A s \in Listings[x] :
       s \in Seq(Dirs \cup {File}) /\ Len(s) \in 2 .. Slots

Windows == 0 .. 1
Index == 0 .. Slots - 1
Lines == -2 .. Slots
Counts == -1 .. Slots - 1

VARIABLES
  path, line, region,  \* each panel: current_path, current_line, current_region
  focus,       \* current_window
  d,           \* the array of entries
  file_count,  \* what print_files returned last
  cwd,         \* the working directory of the process
  running,     \* neither 'q' nor a crash yet
  listing,     \* what readdir gives for each directory now
  changes,     \* changes by others so far
  stale,       \* history: the panel's directory changed under its cursor
  entered      \* history: the entry the last ENTER appended to a path

vars == <<path, line, region, focus, d, file_count, cwd, running, listing,
          changes, stale, entered>>

Entries == Dirs \cup {File}

TypeOK ==
  /\ path \in [Windows -> Dirs]
  /\ line \in [Windows -> Lines]
  /\ region \in [Windows -> 0 .. Slots]
  /\ focus \in Windows
  /\ d \in [Index -> Entries \cup {Junk}]
  /\ file_count \in Counts
  /\ cwd \in Dirs
  /\ running \in BOOLEAN
  /\ \A x \in Dirs : listing[x] \in Listings[x]
  /\ changes \in 0 .. MaxChanges
  /\ stale \in [Windows -> BOOLEAN]
  /\ entered \in Entries \cup {Junk}

(* Mutant: the loop does not stop at the last entry.                       *)
PrintedUnbounded(count, r) == r .. r + Height - 1

(* The loop of print_files() over the lines of a panel: it stops at index  *)
(* count, which it does not meet when count is below the region.           *)
Printed(count, r) == {k \in r .. r + Height - 1 : count < r \/ k < count}

(* Printing or following an element that was never written: the program   *)
(* dies, or survives by luck.                                              *)
Survives(ok) == running' \in {TRUE, ok}

(* print_files() reads directory x: d, and file_count, which is the index  *)
(* of the last entry, not the number of entries. A directory that cannot be*)
(* opened leaves d alone and gives -1.                                     *)
ReadFiles(x) ==
  /\ file_count' = IF x \in Readable THEN Len(listing[x]) - 1 ELSE -1
  /\ d' = [k \in Index |->
             IF x \in Readable /\ k < Len(listing[x]) THEN listing[x][k + 1] ELSE d[k]]

(* print_files() as a whole, for a panel that is scrolled to r.            *)
Printable(r) == \A k \in Printed(file_count', r) : k \in Index /\ d'[k] # Junk
PrintFiles(x, r) == ReadFiles(x) /\ Survives(Printable(r))

(* main() sets up both panels; navigate() prints both, then the first.     *)
Init ==
  /\ path = [w \in Windows |-> Home]
  /\ line = [w \in Windows |-> 0]
  /\ region = [w \in Windows |-> 0]
  /\ focus = 0
  /\ \E f \in [Dirs -> UNION {Listings[x] : x \in Dirs}] :
       (\A x \in Dirs : f[x] \in Listings[x]) /\ listing = f
  /\ file_count = IF Home \in Readable THEN Len(listing[Home]) - 1 ELSE -1
  /\ d = [k \in Index |->
            IF Home \in Readable /\ k < Len(listing[Home])
            THEN listing[Home][k + 1] ELSE Junk]
  /\ cwd = Cwd0
  /\ running \in {TRUE, (Home \in Readable)}
  /\ changes = 0
  /\ stale = [w \in Windows |-> FALSE]
  /\ entered = Junk

-----------------------------------------------------------------------------
(* Cursor movement: [line, region] of the focused panel after a key.       *)

min(a, b) == IF a < b THEN a ELSE b
AtLeast0(a) == IF a < 0 THEN 0 ELSE a

(* files_per_region, computed at the top of the loop.                      *)
FilesPerRegion ==
  LET fpr == IF file_count < Height THEN file_count ELSE Height - 1
  IN  IF file_count = fpr THEN fpr - 1 ELSE fpr

LastScreen(l) == [line |-> l, region |-> AtLeast0(file_count - Height)]

(* Mutant: without the test for a panel that is not full.                  *)
DownUnclipped(l, r) ==
  IF l + 1 > Height - 1
  THEN IF r + 1 > file_count - Height
       THEN LastScreen(min(Height, FilesPerRegion))
       ELSE [line |-> Height - 1, region |-> r + 1]
  ELSE [line |-> l + 1, region |-> r]

(* KEY_DOWN.                                                               *)
Down(l, r) ==
  IF l + 1 > Height - 1
  THEN IF r + 1 > file_count - Height
       THEN LastScreen(min(Height, FilesPerRegion))
       ELSE [line |-> Height - 1, region |-> r + 1]
  ELSE [line |-> min(l + 1, FilesPerRegion), region |-> r]

(* KEY_UP.                                                                 *)
Up(l, r) ==
  IF l - 1 < 0 THEN [line |-> 0, region |-> AtLeast0(r - 1)]
               ELSE [line |-> l - 1, region |-> r]

(* KEY_NPAGE.                                                              *)
PageDown(l, r) ==
  IF r + Height > file_count - Height
  THEN LastScreen(min(Height, FilesPerRegion))
  ELSE [line |-> l, region |-> r + Height]

(* KEY_PPAGE.                                                              *)
PageUp(l, r) ==
  IF r - Height < 0 THEN [line |-> 0, region |-> 0]
                    ELSE [line |-> l, region |-> r - Height]

MoveTo(c) ==
  /\ running
  /\ line' = [line EXCEPT ![focus] = c.line]
  /\ region' = [region EXCEPT ![focus] = c.region]
  /\ PrintFiles(path[focus], c.region)
  /\ UNCHANGED <<path, focus, cwd, listing, changes, stale, entered>>

KeyDown == MoveTo(Down(line[focus], region[focus]))
KeyUp == MoveTo(Up(line[focus], region[focus]))
KeyPageDown == MoveTo(PageDown(line[focus], region[focus]))
KeyPageUp == MoveTo(PageUp(line[focus], region[focus]))

-----------------------------------------------------------------------------
(* Changing directory.                                                     *)

(* clear_path(): chdir to x and read the working directory back; when chdir*)
(* fails the panel gets the directory the process happens to be in.        *)
ClearPath(x) == IF x \in Searchable THEN x ELSE cwd

GoTo(x) ==
  /\ path' = [path EXCEPT ![focus] = ClearPath(x)]
  /\ cwd' = ClearPath(x)
  /\ line' = [line EXCEPT ![focus] = 0]
  /\ region' = [region EXCEPT ![focus] = 0]
  /\ stale' = [stale EXCEPT ![focus] = FALSE]
  /\ PrintFiles(path'[focus], 0)

Element(k) == IF k \in Index THEN d[k] ELSE Junk

(* ENTER on a line whose own entry is a directory: the entry of the line   *)
(* within the region is appended to the path. A file in its place makes    *)
(* chdir fail.                                                             *)
Enter ==
  /\ running
  /\ Element(line[focus]) \in Dirs
  /\ Element(region[focus] + line[focus]) # Junk
  /\ entered' = Element(region[focus] + line[focus])
  /\ GoTo(entered')
  /\ UNCHANGED <<focus, listing, changes>>

(* ENTER on a file.                                                        *)
EnterFile ==
  /\ running
  /\ Element(line[focus]) = File
  /\ PrintFiles(path[focus], region[focus])
  /\ UNCHANGED <<path, line, region, focus, cwd, listing, changes, stale,
                 entered>>

(* ENTER follows a pointer that was never set: the program dies, or what it*)
(* finds there is no directory, or is no name that chdir accepts.          *)
EnterJunk ==
  /\ running
  /\ \/ Element(line[focus]) = Junk
     \/ Element(line[focus]) \in Dirs /\ Element(region[focus] + line[focus]) = Junk
  /\ \/ /\ running' = FALSE
        /\ UNCHANGED <<path, line, region, d, file_count, cwd, stale>>
     \/ /\ Element(line[focus]) = Junk
        /\ PrintFiles(path[focus], region[focus])
        /\ UNCHANGED <<path, line, region, cwd, stale>>
     \/ GoTo(Junk)
  /\ UNCHANGED <<focus, listing, changes, entered>>

(* 'h'.                                                                    *)
GoUp ==
  /\ running
  /\ GoTo(Parent[path[focus]])
  /\ UNCHANGED <<focus, listing, changes, entered>>

(* Mutant: the panel that had the focus is printed, not the new one.       *)
TabPrintsOld ==
  /\ running
  /\ focus' = (focus + 1) % 2
  /\ PrintFiles(path[focus], region[focus])
  /\ UNCHANGED <<path, line, region, cwd, listing, changes, stale, entered>>

(* TAB.                                                                    *)
Tab ==
  /\ running
  /\ focus' = (focus + 1) % 2
  /\ PrintFiles(path[focus'], region[focus'])
  /\ UNCHANGED <<path, line, region, cwd, listing, changes, stale, entered>>

(* What total_refresh() prints of panel w, through an array of its own that*)
(* only this reading of the directory fills.                               *)
Redrawable(w) ==
  /\ path[w] \in Readable
  /\ \A k \in Printed(Len(listing[path[w]]) - 1, region[w]) : k < Len(listing[path[w]])

(* 'y' shows a pop-up until ENTER, which redraws both panels, and leaves   *)
(* the case before it reaches copy().                                      *)
Yank ==
  /\ running
  /\ ReadFiles(path[focus])
  /\ Survives(Printable(region[focus]) /\ \A w \in Windows : Redrawable(w))
  /\ UNCHANGED <<path, line, region, focus, cwd, listing, changes, stale,
                 entered>>

(* Any other key does nothing; the focused panel is read again.            *)
OtherKey ==
  /\ running
  /\ PrintFiles(path[focus], region[focus])
  /\ UNCHANGED <<path, line, region, focus, cwd, listing, changes, stale,
                 entered>>

(* 'q': the panel is read once more and the program ends.                  *)
Quit ==
  /\ running
  /\ ReadFiles(path[focus])
  /\ running' = FALSE
  /\ UNCHANGED <<path, line, region, focus, cwd, listing, changes, stale,
                 entered>>

(* Somebody else adds or removes entries of directory x.                   *)
Change(x) ==
  /\ running /\ changes < MaxChanges
  /\ \E s \in Listings[x] : s # listing[x] /\ listing' = [listing EXCEPT ![x] = s]
  /\ changes' = changes + 1
  /\ stale' = [w \in Windows |-> stale[w] \/ path[w] = x]
  /\ UNCHANGED <<path, line, region, focus, d, file_count, cwd, running, entered>>

Next == \/ KeyDown \/ KeyUp \/ KeyPageDown \/ KeyPageUp
        \/ Enter \/ EnterFile \/ EnterJunk \/ GoUp \/ Tab \/ Yank \/ OtherKey
        \/ Quit
        \/ \E x \in Dirs : Change(x)

Spec == Init /\ [][Next]_vars

-----------------------------------------------------------------------------
(* Properties.                                                             *)

Fresh(w) == ~ stale[w] /\ path[w] \in Readable
Last(w) == Len(listing[path[w]]) - 1

(* A panel's cursor stays on the screen and on an entry that is shown,     *)
(* through any mixture of keys, directory changes and switches between the *)
(* panels; a scrolled panel is full. The exceptions are a directory that   *)
(* changed under the cursor and one that cannot be read, where             *)
(* current_line goes down to -2.                                           *)
CursorOnEntry ==
  \A w \in Windows : Fresh(w) =>
    /\ line[w] \in 0 .. Height - 1 /\ region[w] >= 0
    /\ region[w] + line[w] < Last(w)
    /\ region[w] > 0 => region[w] + Height <= Last(w)

(* What ENTER works on is what is on the screen: the entries in d are those*)
(* of the focused panel, as they were when it was last printed.            *)
ArrayIsFocusedPanel ==
  Fresh(focus) =>
    /\ file_count = Last(focus)
    /\ \A k \in 0 .. file_count : d[k] = listing[path[focus]][k + 1]

(* The program ends by 'q' only - it never follows an entry that was not   *)
(* read - unless the focused panel, or after 'y' either panel, shows a     *)
(* directory that cannot be opened or that changed under its cursor.       *)
EndsByQuit ==
  [][(running /\ ~ running' /\ ~ Quit)
       => \E w \in IF Yank THEN Windows ELSE {focus'} :
            path'[w] \notin Readable \/ stale[w]]_vars

(* navigate.c asks "Is directory selected?" before it enters the selected  *)
(* entry: nothing but a directory is ever appended to a path.              *)
OpensOnlyDirectories == entered \in Dirs \cup {Junk}
=============================================================================
