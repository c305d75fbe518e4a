------------------------------- MODULE StarMap -------------------------------
(***************************************************************************)
(* The star map's screen: what is selected, focused and drawn, and where   *)
(* (tui/screens/starmap.py, tui/starmap_layout.py).                        *)
(*                                                                         *)
(* The engine's graph changes under the screen: the screen holds the graph *)
(* itself, a view of its stars (hide_system), or a daemon's last frame.    *)
(* Abstracted: angles, radii and the distance a key moves over; a cell is  *)
(* a row of one column, and a new star may aim at any of them.  Labels,    *)
(* colours, lines and the panel's text are left out.                       *)
(***************************************************************************)
EXTENDS Integers, FiniteSetsExt, Functions

CONSTANTS
  Skies,         \* the graphs a refresh may leave: functions on stars
  Sizes,         \* of the terminal: "narrow" (a list), "folded" (no panel), "wide"
  LastCell,      \* the bottom row
  LowScale, HighScale,  \* SCALE_RANGE, in tenths
  DefaultScale,
  ZoomScale

ASSUME StarMapAssumption ==
  /\ "narrow" \in Sizes
  /\ LastCell \in Nat \ {0}
  /\ {LowScale, HighScale} \subseteq Nat
  /\ {DefaultScale, ZoomScale} \subseteq LowScale..HighScale

AllStarIds == UNION {DOMAIN g : g \in Skies}
NoneSelected == "no star"
Whole == "whole map"

VARIABLES
  sky,         \* the engine's graph: per star its kind, project, parent and whether it runs
  held,        \* how the screen holds it: "itself", "view", "frame"
  charted,     \* StarMapScreen.graph
  chosenStar, focusOn, hideIdle, scale, zoomed, scaleBeforeZoom,  \* .selected and the rest
  placements,  \* per drawn star its cell and the project of its wedge
  cacheKey,
  size,        \* of the terminal
  covered,     \* the details of a row are open on top of the map
  raised       \* a key raised KeyError, which ends the dashboard

viewVars == <<focusOn, hideIdle, scale, zoomed, scaleBeforeZoom>>
skyVars == <<sky, held, charted, chosenStar, viewVars, placements, cacheKey, size, covered, raised>>

-----------------------------------------------------------------------------
(* The layout. *)

\* visible_nodes: the services of a cluster only when it is focused.
Drawn(g, focus, idleHidden) ==
  {n \in DOMAIN g : /\ idleHidden => g[n].live
                    /\ g[n].parent \in {NoneSelected, focus}
                    /\ focus \in {Whole, n, g[n].project, g[n].parent}}

Cells(p) == {p[n].cell : n \in DOMAIN p}

\* A star takes the cell it aims at, or the first free one below; at the bottom it stays.
FreeCell(aim, taken) ==
  LET free == (aim..LastCell) \ taken IN IF free = {} THEN LastCell ELSE Min(free)

\* The cells of new stars, which are placed one after the other.
Placings(new, taken) ==
  {cells \in [new -> 1..LastCell] :
     \E turn \in Injection(new, 1..Cardinality(new)) : \A n \in new : \E aim \in 1..LastCell :
       cells[n] = FreeCell(aim, taken \cup {cells[m] : m \in {o \in new : turn[o] < turn[n]}})}

\* layout: stars drawn before keep their cells, the others are placed.
Layouts(g, focus, idleHidden, cached) ==
  LET stars == Drawn(g, focus, idleHidden)
      kept  == stars \cap DOMAIN cached
  IN {[n \in stars |-> IF n \in kept THEN cached[n]
                       ELSE [cell |-> cells[n], project |-> g[n].project]] :
        cells \in Placings(stars \ kept, {cached[n].cell : n \in kept})}

\* redraw: cells are kept while the size and what is shown stay the same; a narrow
\* terminal gets a list, and the cells are left as they are.
Redraw(key) ==
  LET newKey == <<size', focusOn', hideIdle', scale'>>
  IN IF size' = "narrow" THEN placements' = placements /\ cacheKey' = key
     ELSE /\ placements' \in Layouts(charted', focusOn', hideIdle', IF key = newKey THEN placements ELSE <<>>)
          /\ cacheKey' = newKey

-----------------------------------------------------------------------------
(* Refreshes. *)

\* observe changes the graph in place: the stars of a view too, but not which they are.
\* The map is told, and forgets a selected star that is gone, unless it is covered.
ViewOf(g) == Restrict(g, {n \in DOMAIN g : g[n].kind # "system"})
Rebuilt(g) == IF held = "view" THEN ViewOf(g) ELSE g

LeftAsItIs(g) ==
  CASE held = "itself" -> g
    [] held = "view"   -> [n \in DOMAIN charted |-> IF n \in DOMAIN g THEN g[n]
                                                    ELSE [charted[n] EXCEPT !.live = FALSE]]
    [] OTHER           -> charted

Refresh(g) ==
  /\ sky' = g
  /\ IF covered THEN charted' = LeftAsItIs(g) /\ UNCHANGED <<chosenStar, placements, cacheKey>>
     ELSE /\ charted' = Rebuilt(g)
          /\ chosenStar' = IF chosenStar \in DOMAIN charted' THEN chosenStar ELSE NoneSelected
          /\ size' = size /\ UNCHANGED viewVars /\ Redraw(cacheKey)
  /\ UNCHANGED <<held, viewVars, size, covered, raised>>

-----------------------------------------------------------------------------
(* Keys. *)

\* Arrows and Tab: another drawn star, the first one if none is selected.
Select(n) ==
  /\ ~covered
  /\ n \in DOMAIN placements
  /\ n # chosenStar \/ DOMAIN placements = {n}
  /\ chosenStar' = n
  /\ UNCHANGED <<sky, held, charted, viewVars, size, covered, raised>>
  /\ Redraw(cacheKey)

Wedge(n) == IF charted[n].kind = "cluster" THEN n ELSE charted[n].project

Raises == raised' = TRUE /\ UNCHANGED <<sky, held, charted, chosenStar, viewVars, placements, cacheKey, size, covered>>

\* A key that only changes what is drawn.
Shows == UNCHANGED <<sky, held, charted, chosenStar, size, covered, raised>> /\ Redraw(cacheKey)

FocusProject ==
  /\ ~covered /\ chosenStar # NoneSelected
  /\ \/ focusOn # Whole /\ focusOn' = Whole
     \/ focusOn = Whole /\ chosenStar \in DOMAIN charted /\ focusOn' = Wedge(chosenStar)
  /\ zoomed' = FALSE
  /\ UNCHANGED <<hideIdle, scale, scaleBeforeZoom>> /\ Shows

ZoomStar ==
  /\ ~covered /\ chosenStar # NoneSelected
  /\ \/ zoomed /\ focusOn' = Whole /\ scale' = scaleBeforeZoom /\ zoomed' = FALSE
               /\ UNCHANGED scaleBeforeZoom
     \/ ~zoomed /\ chosenStar \in DOMAIN charted /\ focusOn' = Wedge(chosenStar)
                /\ scaleBeforeZoom' = scale /\ scale' = ZoomScale /\ zoomed' = TRUE
  /\ UNCHANGED hideIdle /\ Shows

\* f and z ask the graph for the selected star: one that is gone raises KeyError.
KeyOfGoneStar ==
  /\ ~covered /\ chosenStar \notin DOMAIN charted \cup {NoneSelected}
  /\ focusOn = Whole \/ ~zoomed
  /\ Raises

HideIdle ==
  /\ ~covered
  /\ hideIdle' = ~hideIdle
  /\ UNCHANGED <<focusOn, scale, zoomed, scaleBeforeZoom>> /\ Shows

ZoomRings(step) ==
  /\ ~covered
  /\ scale' = Min({HighScale, Max({LowScale, scale + step})})
  /\ UNCHANGED <<focusOn, hideIdle, zoomed, scaleBeforeZoom>> /\ Shows

ResetScale ==
  /\ ~covered
  /\ scale' = DefaultScale
  /\ UNCHANGED <<focusOn, hideIdle, zoomed, scaleBeforeZoom>> /\ Shows

\* r: the graph anew, every star placed anew; the selection stays.
RedrawKey ==
  /\ ~covered
  /\ charted' = Rebuilt(sky)
  /\ UNCHANGED <<sky, held, chosenStar, viewVars, size, covered, raised>>
  /\ Redraw(<<>>)

\* i: the details of the selected star's row, on top of the map; and back.
Details ==
  /\ ~covered /\ chosenStar \in DOMAIN charted /\ charted[chosenStar].live
  /\ covered' = TRUE
  /\ UNCHANGED <<sky, held, charted, chosenStar, viewVars, placements, cacheKey, size, raised>>

CloseDetails ==
  /\ covered /\ covered' = FALSE
  /\ UNCHANGED <<sky, held, charted, chosenStar, viewVars, placements, cacheKey, size, raised>>

Resize(s) ==
  /\ ~covered /\ s # size /\ size' = s
  /\ UNCHANGED <<sky, held, charted, chosenStar, viewVars, covered, raised>>
  /\ Redraw(cacheKey)

\* Enter or Esc closes the map; M opens a new one.
Reopen ==
  /\ ~covered
  /\ charted' = Rebuilt(sky)
  /\ chosenStar' = NoneSelected /\ focusOn' = Whole /\ hideIdle' = FALSE /\ scale' = DefaultScale
  /\ zoomed' = FALSE /\ scaleBeforeZoom' = DefaultScale
  /\ IF size = "narrow" THEN placements' = <<>> /\ cacheKey' = <<>>
     ELSE /\ placements' \in Layouts(charted', Whole, FALSE, <<>>)
          /\ cacheKey' = <<size, Whole, FALSE, DefaultScale>>
  /\ UNCHANGED <<sky, held, size, covered, raised>>

\* The map before its first draw.
SkyInit ==
  /\ sky \in Skies /\ held \in {"itself", "view", "frame"}
  /\ charted = Rebuilt(sky)
  /\ chosenStar = NoneSelected /\ focusOn = Whole /\ hideIdle = FALSE /\ scale = DefaultScale
  /\ zoomed = FALSE /\ scaleBeforeZoom = DefaultScale
  /\ placements = <<>> /\ cacheKey = <<>> /\ size = "narrow" /\ covered = FALSE /\ raised = FALSE

SkyNext ==
  /\ ~raised
  /\ \/ \E g \in Skies \ {sky} : Refresh(g)
     \/ \E n \in AllStarIds : Select(n)
     \/ FocusProject \/ ZoomStar \/ KeyOfGoneStar \/ HideIdle \/ ResetScale \/ RedrawKey
     \/ \E step \in {-1, 1} : ZoomRings(step)
     \/ Details \/ CloseDetails \/ Reopen
     \/ \E s \in Sizes : Resize(s)

SkySpec == SkyInit /\ [][SkyNext]_skyVars

-----------------------------------------------------------------------------
\* The type of every variable.
SkyTypeOK ==
  /\ sky \in Skies /\ DOMAIN charted \subseteq AllStarIds
  /\ chosenStar \in AllStarIds \cup {NoneSelected}
  /\ {scale, scaleBeforeZoom} \subseteq LowScale..HighScale
  /\ DOMAIN placements \subseteq AllStarIds /\ Cells(placements) \subseteq 1..LastCell
  /\ {hideIdle, zoomed, covered, raised} \subseteq BOOLEAN
  /\ size \in Sizes

\* A refresh never moves a star that stays on the map, also after the map was resized,
\* focused, zoomed or covered, and a new one takes a free cell: however stars come, go and
\* come back, two of them lie on one cell only at the bottom, where nothing is free below
\* (starmap_layout.py:105, "a refresh never moves a star, new stars take a free cell").
CellsAreKept ==
  sky' # sky =>
    /\ \A n \in DOMAIN placements \cap DOMAIN placements' : placements'[n] = placements[n]
    /\ \A m, n \in DOMAIN placements' :
         m # n /\ placements'[m].cell = placements'[n].cell => placements'[m].cell = LastCell

StarsKeepTheirCells == [][CellsAreKept]_skyVars

\* Every drawn star is in the wedge of its project, so that a project reads as one
\* constellation (starmap_layout.py:5).  TLC refutes this: a star whose project changes
\* keeps its cell in the old wedge.  It has no run of its own (README, section 5).
ProjectsAreTogether ==
  ~covered /\ size # "narrow" =>
    \A n \in DOMAIN placements : placements[n].project = charted[n].project

\* No key of the map ends the dashboard.  TLC refutes this: a star that went while the
\* details were on top, or before r, stays selected, and f and z look it up
\* (starmap.py:162, 195).  It has no run of its own (README, section 5).
KeysFindTheirStar == ~raised

=============================================================================
