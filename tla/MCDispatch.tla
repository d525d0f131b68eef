----------------------------- MODULE MCDispatch -----------------------------
(* Instances of Dispatch for TLC: messages of the server. *)
EXTENDS Dispatch

M(sid, kind, opr, o, e) ==
    [sid |-> sid, kind |-> kind, opr |-> opr, o |-> o, rc |-> Absent, ec |-> Absent, e |-> e]
Reply(rc, ec) ==
    [sid |-> 0, kind |-> "sync", opr |-> "reply", o |-> "res", rc |-> rc, ec |-> ec, e |-> <<>>]
Entry(n, sv) == [n |-> n, sv |-> sv]

DeleteSync == M(1, "sync", "delete", "d", <<>>)
DeleteAsync == M(2, "async", "delete", "d", <<>>)
\* URL and version; only the URL
Update == M(3, "sync", "write", "w", <<Entry(VersionUri, "text"), Entry(UrlUri, "text")>>)
UrlAlone == M(4, "sync", "write", "w", <<Entry(UrlUri, "text")>>)
\* a control request with a value, and one without
Execute == M(5, "sync", "execute", "e", <<Entry("other", "text")>>)
Read == M(6, "sync", "read", "r", <<Entry("other", Absent)>>)

OneDelete == {DeleteSync}
WipeReplies == {Reply(404, 40400)}
MixedRequests == {DeleteAsync, Update, UrlAlone, Execute, Read}
UnknownReply == Reply(404, 40443)
=============================================================================
