------------------------------ MODULE MCRelay -------------------------------
EXTENDS Relay

\* PACKET_MLAT_MHZ is 120; airspy_adsb sends at 20 MHz, beast at 12, json and
\* proto at 120.
MCRatio == [airspy_adsb |-> 6, beast |-> 10, json |-> 1, proto |-> 1, raw |-> 0]

\* The widths, scaled down so that the narrow ones wrap: 42 and 50 clock ticks.
MCMlatMax == 1023
MCPeriod ==
  [airspy_adsb |-> 7, beast |-> 5, json |-> MCMlatMax, proto |-> MCMlatMax, raw |-> 1]

OneWay(a, b, f) == {[from |-> a, to |-> b, format |-> f, both |-> FALSE]}

TwoWay(a, b, f, g) ==
  {[from |-> a, to |-> b, format |-> f, both |-> TRUE],
   [from |-> b, to |-> a, format |-> g, both |-> TRUE]}

MCNetworks == {
  \* a line of two-way connections in four formats
  [links |-> TwoWay("a", "b", "beast", "json") \cup TwoWay("b", "c", "raw", "proto"),
   sources |-> {"a", "c"}, packets |-> 2],
  \* lines in which the timestamp passes through two widths
  [links |-> OneWay("a", "b", "beast") \cup OneWay("b", "c", "airspy_adsb"),
   sources |-> {"a"}, packets |-> 4],
  [links |-> OneWay("a", "b", "airspy_adsb") \cup TwoWay("b", "c", "json", "beast"),
   sources |-> {"a"}, packets |-> 4],
  \* a ring
  [links |-> OneWay("a", "b", "json") \cup OneWay("b", "c", "proto") \cup OneWay("c", "a", "json"),
   sources |-> {"a"}, packets |-> 1],
  \* a ring of two-way connections
  [links |-> TwoWay("a", "b", "json", "json") \cup TwoWay("b", "c", "json", "proto")
             \cup TwoWay("c", "a", "json", "json"),
   sources |-> {"b"}, packets |-> 1],
  \* two processes connected twice, fed by a third
  [links |-> OneWay("a", "b", "json") \cup OneWay("b", "a", "proto") \cup OneWay("c", "b", "beast"),
   sources |-> {"a", "c"}, packets |-> 1]}
=============================================================================
