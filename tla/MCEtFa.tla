-------------------------------- MODULE MCEtFa --------------------------------
(* Instances of EtFa for TLC: three flows, of which two share a next hop and  *)
(* two share a bucket.                                                        *)
EXTENDS EtFa, TLC

CONSTANTS fa, fb, fc, ma, mb, mc

Hops2 == fa :> ma @@ fb :> mb @@ fc :> ma
Hops3 == fa :> ma @@ fb :> mb @@ fc :> mc
Buckets == fa :> {1} @@ fb :> {1, 2} @@ fc :> {2}
Rows3 == fa :> {1} @@ fb :> {2} @@ fc :> {3}
Outward == fa :> 1 @@ fb :> 0 @@ fc :> 1
Remapped == fa :> ma @@ fb :> mb @@ fc :> ma
===============================================================================
