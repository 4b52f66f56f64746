-------------------------------- MODULE MCSumomo -------------------------------
(* An instance of Sumomo: a server that may ask for simulcast with two layers and
   opens two data channels of the user's. *)
EXTENDS Sumomo

TwoChannels == <<"first", "second">>

TheTypeOf ==
  [signaling |-> "Signaling", video |-> "Track", audio |-> "Track",
   first |-> "DataChannel", second |-> "DataChannel"]
    @@ ("video description" :> "Media") @@ ("audio description" :> "Media")

TheObjects == DOMAIN TheTypeOf
TheTypes   == {TheTypeOf[o] : o \in TheObjects}
SixAddrs   == 1..6
=============================================================================
