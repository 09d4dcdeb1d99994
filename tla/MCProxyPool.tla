----------------------------- MODULE MCProxyPool ----------------------------
(* Instances of ProxyPool for TLC.                                         *)
EXTENDS ProxyPool

CONSTANTS t1, t2, p, q, r, junk, comment

OneTask  == {t1}
TwoTasks == {t1, t2}

Mtproto(mode, secret) ==
    [is |-> "link", kind |-> "proxy", server |-> "h", port |-> "443",
     mode |-> mode, secret |-> secret]

(* Two links, a URI, a link whose secret is too short, and a comment.      *)
Lines == [l \in {p, q, r, junk, comment} |->
            CASE l = p    -> Mtproto("dd", <<"a", "+">>)
              [] l = q    -> Mtproto("plain", <<"a", "%2B">>)
              [] l = r    -> [is |-> "uri", scheme |-> "socks5", server |-> "h",
                              port |-> "443", user |-> <<>>]
              [] l = junk -> Mtproto("ee", <<"a">>)
              [] OTHER    -> [is |-> "comment"]]
Numbers == [n \in {"443"} |-> 443]

(* Lists with and without the primary p, of different lengths.             *)
ManyLists == {<<q, r>>, <<q, p>>, <<r>>}
DirtyLists == {<<comment, q, junk, r>>, <<q, p>>, <<junk, r>>}
TwoLists  == {<<q, r>>, <<r>>}
=============================================================================
