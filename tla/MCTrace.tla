------------------------------ MODULE MCTrace ------------------------------
EXTENDS Trace

\* A connection before its hot spot, an attenuation and a colour out of the
\* ordinary; an element before the scenario, hot spots of one ID, defaults
\* written and missing; a second scenario, without a border; no scenario.
MCFiles ==
  {<<ScenarioElem(0), BuildingElem("rect", <<10, 20, 30>>, NoColor, 150),
     HotSpotElem(1), ConnectionElem(1, 2), HotSpotElem(2), ConnectionElem(1, 2),
     ConnectionElem(2, 1)>>,
   <<HotSpotElem(1), ScenarioElem(1), BuildingElem("circle", Gray, Gray, Missing),
     HotSpotElem(1), HotSpotElem(1), ConnectionElem(1, 1)>>,
   <<ScenarioElem(0), HotSpotElem(3), ScenarioElem(Missing)>>,
   <<BuildingElem("rect", NoColor, Red, 50)>>}

MCLooks ==
  {[pos |-> <<999999, 5>>, ar |-> 10000, color |-> Blue],
   [pos |-> <<1234567, 10>>, ar |-> 10000, color |-> Red],
   [pos |-> <<0, 12345678>>, ar |-> 0, color |-> Red]}
=============================================================================
