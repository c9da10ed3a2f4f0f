---------------------------- MODULE MCBackends ----------------------------
(* Programs without output, with headers that leave room in the buffer,    *)
(* and with headers that fill it; the bodies do not fit behind them.       *)
EXTENDS Backends

MCOutputs == {<<>>, <<"E", "B", "B">>, <<"H", "E", "B", "B">>}

=============================================================================
