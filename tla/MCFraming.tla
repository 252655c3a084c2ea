------------------------------ MODULE MCFraming ------------------------------
EXTENDS Framing

\* The last one is beyond a limit of three bytes; zeros let the data of a packet
\* pass for the length of another.
MCPayload == {<< >>, <<1>>, <<0, 1>>, <<0, 0, 2>>, <<1, 0, 0, 0>>}
===============================================================================
