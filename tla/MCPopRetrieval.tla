--------------------------- MODULE MCPopRetrieval ---------------------------
(* Instances of PopRetrieval for TLC. *)
EXTENDS PopRetrieval

CONSTANTS u1, u2

OneUidl == {u1}
TwoUidls == {u1, u2}
OwnIds == [u \in Uidls |-> u]
SharedId == [u \in Uidls |-> u1]

Opt(n, m, d, f, a, h, b) ==
  [retrieveNew |-> n, retrieveMarked |-> m, deleteMarked |-> d,
   delFetched |-> f, deleteAll |-> a, headersOnly |-> h, skipBig |-> b]

(* Check Mail on an account that deletes what it fetches. *)
Deleting == Opt(TRUE, FALSE, FALSE, TRUE, FALSE, FALSE, FALSE)

(* New mail that is not big, and what the marks say, on an account that  *)
(* leaves mail.                                                           *)
AsMarked == Opt(TRUE, TRUE, TRUE, FALSE, FALSE, FALSE, TRUE)

(* Headers only, and deletions. *)
Headers == Opt(TRUE, FALSE, TRUE, FALSE, FALSE, TRUE, FALSE)

(* Headers only on an account that deletes what it fetches. *)
DeletingHeaders == Opt(TRUE, TRUE, FALSE, TRUE, FALSE, TRUE, FALSE)

(* Everything goes. *)
DeletingAll == Opt(TRUE, FALSE, FALSE, FALSE, TRUE, FALSE, FALSE)

AllMarks == {"Leave", "Fetch", "Delete", "FetchDelete"}
FetchDelete == {"FetchDelete"}

AllKinds == {Deleting, AsMarked, Headers, DeletingHeaders, DeletingAll}

(* Marks are acted on, and everything fetched is deleted. *)
DeletingAsMarked == {Opt(TRUE, TRUE, TRUE, TRUE, FALSE, FALSE, FALSE)}

=============================================================================
