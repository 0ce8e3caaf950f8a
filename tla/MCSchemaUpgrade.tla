-------------------------- MODULE MCSchemaUpgrade --------------------------
(* An instance of SchemaUpgrade with four applications.                    *)
EXTENDS SchemaUpgrade

CONSTANTS t1, t2

(* One thread that upgrades again and again, to the same or a later version. *)
Alone == [threads |-> {t1}, targets |-> {0, 1, 3},
          callbacks |-> {"callback", "null"}, lowers |-> FALSE,
          calls |-> 4, crashes |-> 2]

(* Two that upgrade at once, to any version, with and without a callback.  *)
Careless == [threads |-> {t1, t2}, targets |-> {1, 2},
             callbacks |-> {"callback", "null"}, lowers |-> TRUE,
             calls |-> 3, crashes |-> 1]

(* Two that register a callback and ask for the same version.              *)
Agreed == [threads |-> {t1, t2}, targets |-> {2},
           callbacks |-> {"callback"}, lowers |-> FALSE,
           calls |-> 4, crashes |-> 1]

(* Two that register a callback and ask for different versions.            *)
Mixed == [threads |-> {t1, t2}, targets |-> {1, 3},
          callbacks |-> {"callback"}, lowers |-> TRUE,
          calls |-> 3, crashes |-> 1]

Applications == {Alone, Careless, Agreed, Mixed}
=============================================================================
