--------------------------- MODULE MCUploadHealth ---------------------------
(* The instance of UploadHealth for TLC, in units of 5 minutes.              *)
EXTENDS UploadHealth, TLC

(* The switch of the panel, its form with a longest and a shortest wait, and *)
(* parts of a body that are legal alone and not together.                    *)
PanelBodies == {
  [upload_enabled |-> FALSE], [upload_enabled |-> TRUE],
  [enabled |-> FALSE, interval |-> 2, interval_min |-> 0, interval_max |-> 0],
  [enabled |-> TRUE,  interval |-> 2, interval_min |-> 0, interval_max |-> 9],
  [enabled |-> TRUE,  interval |-> 2, interval_min |-> 0, interval_max |-> 0],
  [size_min |-> 3], [size_max |-> 2], [size |-> 0], [interval_min |-> -1] }

AnyHandler == Permutations(Handlers)
=============================================================================
