----------------------------- MODULE MCZoneLog -----------------------------
(***************************************************************************)
(* Module ZoneLog over Februaries, short and long, and the end of a century.   *)
(***************************************************************************)
EXTENDS ZoneLog

Weekly(weekdays, restriction, starts) ==
  [enabled |-> TRUE, kind |-> "weekly", days |-> weekdays, interval |-> 0,
   restriction |-> restriction, starts |-> starts]

Every(n, starts) ==
  [enabled |-> TRUE, kind |-> "interval", days |-> {}, interval |-> n,
   restriction |-> 0, starts |-> starts]

World(y, m, d, plan, months) ==
  [date |-> [y |-> y, m |-> m, d |-> d], schedule |-> plan, retention |-> months]

MCWorlds ==
  {World(2100, 2, 19, Every(3, {0, 360}), 1),          \* no leap day
   World(2024, 1, 27, Every(1, {360}), 1),             \* a leap day
   World(2000, 2, 20, Every(20, {360}), 0),            \* nothing for two weeks
   World(1999, 12, 20, Weekly({1, 4}, 1, {360, 1439}), 2),
   World(2023, 2, 20, Weekly({2, 3, 6}, 2, {1080}), 1),        \* February 28 days long
   World(2023, 12, 20, [Every(2, {360}) EXCEPT !.enabled = FALSE], 1)}
=============================================================================
