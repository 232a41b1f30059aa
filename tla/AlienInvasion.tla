---------------------------- MODULE AlienInvasion ----------------------------
(***************************************************************************)
(* src/python/alien_invasion: a ship, its bullets and a fleet of aliens.   *)
(* An event is one action; a frame, run_game() after the events, another.  *)
(* Positions are floats of which rect.x and rect.y keep the integer part;  *)
(* here they are counted in 1/Unit pixels, which makes 1.1 * 1.1 exact.    *)
(* The aliens of a fleet move together, so the fleet has one displacement. *)
(***************************************************************************)
EXTENDS Integers, Sequences, FiniteSets

CONSTANTS
  Window, Full,               \* the first screen and the full screen: [w, h]
  AlienW, AlienH, ShipW, ShipH, BulletW, BulletH,
  ShipSpeed, BulletSpeed, AlienSpeed,     \* at the start of a game, in 1/10 pixels
  DropSpeed,                  \* alien_drop_speed
  ShipLimit, BulletAllowed,
  MaxLevel,                   \* bound: how often the speed is increased
  Scale                       \* what speeds are multiplied with at each level, a
                              \* power of 1.1, in units that make it an integer

\* Aliens across and down: _create_fleet().
NumberX(s) == (s.w - 2 * AlienW) \div (2 * AlienW)
NumberRows(s) == (s.h - 3 * AlienH - ShipH) \div (2 * AlienH)

\* The full screen is taken not to be smaller than the window.
ASSUME GameAssumption ==
  /\ \A n \in {AlienW, AlienH, ShipW, ShipH, BulletW, BulletH, ShipSpeed,
               BulletSpeed, AlienSpeed, DropSpeed} : n \in Nat \ {0}
  /\ ShipLimit \in Nat /\ BulletAllowed \in Nat /\ MaxLevel \in Nat
  /\ Scale \in [0..MaxLevel -> Nat \ {0}]
  /\ \A l \in 1..MaxLevel : 10 * Scale[l] = 11 * Scale[l - 1]
  /\ {Window, Full} \subseteq [w : Nat, h : Nat]
  /\ Full.w >= Window.w /\ Full.h >= Window.h
  /\ NumberX(Window) > 0 /\ NumberRows(Window) > 0

VARIABLES
  game,         \* the game, a record with the fields of GameInit
  keysDown,     \* moving_left and moving_right: the directions whose key is down
  screen,       \* the screen, which settings.screen_width and _height repeat
  gameProc      \* "runs" or "quit"

gameVars == <<game, keysDown, screen, gameProc>>

Unit == 10 * Scale[0]
Speed(base, level) == base * Scale[level]

\* int(), which truncates towards zero.
Pixel(v) == IF v >= 0 THEN v \div Unit ELSE -((-v) \div Unit)

-----------------------------------------------------------------------------
(* Where things are.                                                       *)

\* Fleets of the screen s, one pair <<column, row>> for each alien.
Fleet(s) == (0..NumberX(s) - 1) \X (0..NumberRows(s) - 1)

AlienX(g, a) == Unit * (AlienW + 2 * AlienW * a[1]) + g.dx
AlienLeft(g, a) == Pixel(AlienX(g, a))
AlienTop(g, a) == AlienH + 2 * AlienH * a[2] + g.dy

\* ship.screen_rect is that of the window, whatever the screen is now.
Centre == Unit * ((Window.w \div 2) - (ShipW \div 2))
ShipTop == Window.h - ShipH

\* Two rectangles overlap.
Meet(l, t, w, h, left, top, width, height) ==
  l < left + width /\ left < l + w /\ t < top + height /\ top < t + h

MeetsAlien(g, a, left, top, width, height) ==
  Meet(AlienLeft(g, a), AlienTop(g, a), AlienW, AlienH, left, top, width, height)

-----------------------------------------------------------------------------
(* What a frame does, as functions of the game.                            *)

CreateFleet(g) == [g EXCEPT !.alive = Fleet(screen), !.dx = 0, !.dy = 0]

MoveShip(g) ==
  LET left == Pixel(g.x)
      by(key, free) == IF key \in keysDown /\ free THEN Speed(ShipSpeed, g.level) ELSE 0
  IN  [g EXCEPT !.x = @ + by("right", left + ShipW < Window.w) - by("left", left > 0)]

\* _update_bullets(): up, and away above the screen.
MoveBullets(g) ==
  LET up(b) == [b EXCEPT !.y = @ - Speed(BulletSpeed, g.level)]
      flying == [k \in DOMAIN g.bullets |-> up(g.bullets[k])]
  IN  [g EXCEPT !.bullets = SelectSeq(flying, LAMBDA b : Pixel(b.y) + BulletH > 0)]

Hits(g, k, a) ==
  MeetsAlien(g, a, g.bullets[k].x, Pixel(g.bullets[k].y), BulletW, BulletH)

\* groupcollide(): the bullets in turn; each takes every alien it meets that none
\* before it has taken, and goes if there is one.
Shoot(g) ==
  LET spent == {k \in DOMAIN g.bullets :
                  \E a \in g.alive : Hits(g, k, a) /\ \A j \in 1..k-1 : ~Hits(g, j, a)}
      flying == SelectSeq([k \in DOMAIN g.bullets |-> k], LAMBDA k : k \notin spent)
  IN  [g EXCEPT !.alive = {a \in @ : \A k \in DOMAIN g.bullets : ~Hits(g, k, a)},
                !.bullets = [n \in DOMAIN flying |-> g.bullets[flying[n]]]]

\* A fleet shot down: a new one, faster; fleet_direction stays as it is.
CheckCollisions(g) ==
  IF Shoot(g).alive # {} THEN Shoot(g)
  ELSE [CreateFleet(Shoot(g)) EXCEPT !.bullets = <<>>,
          !.level = IF @ < MaxLevel THEN @ + 1 ELSE @]

AtEdge(g, a) == AlienLeft(g, a) + AlienW >= screen.w \/ AlienLeft(g, a) <= 0

\* Fault: _check_fleet_deges() without the break.
TurnForEach(g) ==
  LET n == Cardinality({a \in g.alive : AtEdge(g, a)})
  IN  [g EXCEPT !.dy = @ + n * DropSpeed, !.dir = IF n % 2 = 1 THEN -@ ELSE @]

\* Fault: _change_fleet_direction() only turns.
TurnLevel(g) ==
  IF \E a \in g.alive : AtEdge(g, a) THEN [g EXCEPT !.dir = -@] ELSE g

\* _check_fleet_deges(): one alien at an edge turns the whole fleet, which drops.
CheckEdges(g) ==
  IF \E a \in g.alive : AtEdge(g, a)
    THEN [g EXCEPT !.dy = @ + DropSpeed, !.dir = -@]
    ELSE g

MoveFleet(g) == [g EXCEPT !.dx = @ + Speed(AlienSpeed, g.level) * g.dir]

\* Fault: the fleet that hit the ship stays where it is.
HitOnly(g) ==
  IF g.ships > 0
    THEN [g EXCEPT !.ships = @ - 1, !.bullets = <<>>, !.x = Centre]
    ELSE [g EXCEPT !.active = "no"]

\* _ship_hit(): the next ship and a new fleet, or the end of the game.
ShipHit(g) ==
  IF g.ships > 0
    THEN [CreateFleet(g) EXCEPT !.ships = @ - 1, !.bullets = <<>>, !.x = Centre]
    ELSE [g EXCEPT !.active = "no"]

CheckShip(g) ==
  IF \E a \in g.alive : MeetsAlien(g, a, Pixel(g.x), ShipTop, ShipW, ShipH)
    THEN ShipHit(g) ELSE g

CheckBottom(g) ==
  IF \E a \in g.alive : AlienTop(g, a) + AlienH >= screen.h THEN ShipHit(g) ELSE g

-----------------------------------------------------------------------------
\* __init__(): everything is in place, but nothing moves before Play.
GameInit ==
  /\ screen = Window
  /\ game = [active |-> "no", ships |-> ShipLimit, level |-> 0, x |-> Centre,
             bullets |-> <<>>, alive |-> Fleet(Window), dx |-> 0, dy |-> 0, dir |-> 1]
  /\ keysDown = {} /\ gameProc = "runs"

\* ship.update(), _update_bullets() and _update_aliens(), both of whose checks may
\* find the ship hit.
Frame ==
  /\ gameProc = "runs" /\ game.active = "yes"
  /\ \E flown \in {MoveBullets(MoveShip(game))} :
     \E shot \in {CheckCollisions(flown)} :
     \E moved \in {MoveFleet(CheckEdges(shot))} :
     \E checked \in {CheckShip(moved)} :
       game' = CheckBottom(checked)
  /\ UNCHANGED <<keysDown, screen, gameProc>>

\* _check_keydown_event(), _check_keyup_event()
PressOrRelease ==
  /\ gameProc = "runs"
  /\ \E key \in {"left", "right"} : keysDown' \in {keysDown \cup {key}, keysDown \ {key}}
  /\ UNCHANGED <<game, screen, gameProc>>

\* _fire_bullet(), which does not ask whether a game is on.
FireBullet ==
  /\ gameProc = "runs" /\ Len(game.bullets) < BulletAllowed
  /\ game' = [game EXCEPT !.bullets =
       Append(@, [x |-> Pixel(game.x) + (ShipW \div 2) - (BulletW \div 2), y |-> Unit * ShipTop])]
  /\ UNCHANGED <<keysDown, screen, gameProc>>

\* _check_play_button(): settings and statistics start again.
Play ==
  /\ gameProc = "runs" /\ game.active = "no"
  /\ game' = [CreateFleet(game) EXCEPT !.active = "yes", !.ships = ShipLimit, !.level = 0,
                !.dir = 1, !.bullets = <<>>, !.x = Centre]
  /\ UNCHANGED <<keysDown, screen, gameProc>>

\* _set_full_screen(): the screen and the settings change, the ship's rect does not.
SetFullScreen ==
  /\ gameProc = "runs"
  /\ screen' = Full
  /\ UNCHANGED <<game, keysDown, gameProc>>

Quit ==
  /\ gameProc = "runs"
  /\ gameProc' = "quit"
  /\ UNCHANGED <<game, keysDown, screen>>

GameEvent == PressOrRelease \/ FireBullet \/ Play \/ SetFullScreen \/ Quit

GameNext == Frame \/ GameEvent

GameSpec == GameInit /\ [][GameNext]_gameVars

\* run_game() goes round for ever; nobody need press a key.
GameFairSpec == GameSpec /\ WF_gameVars(Frame)

-----------------------------------------------------------------------------
\* A frame costs at most one ship, although it looks twice for a hit, and a game
\* ends only when the last ship is hit: the fleet that replaces the one that hit
\* is clear of the ship and of the bottom (175-231, 145-163).
OneShipPerFrame ==
  [][game.ships - game'.ships <= 1
     /\ (game.active = "yes" /\ game'.active = "no" => game.ships = 0)]_gameVars

\* No alien leaves the screen by more than one step to a side, however few are
\* left, whatever the speed, and at the moment the screen changes (190-201,
\* alien.py 20-29).
FleetOnScreen ==
  \A a \in game.alive :
    /\ AlienX(game, a) > -Speed(AlienSpeed, game.level)
    /\ AlienX(game, a) + Unit * AlienW < Unit * screen.w + Speed(AlienSpeed, game.level)

\* A game the player leaves alone comes to an end: the fleet always comes down
\* and every fleet that reaches the ship or the bottom costs a ship (47-51, 175-231).
UnattendedGameEnds ==
  <>[][Frame]_gameVars => <>[](game.active = "no" \/ gameProc = "quit")
=============================================================================
