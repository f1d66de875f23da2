---------------------------- MODULE MCTokenChain ----------------------------
(* Instances of TokenChain for TLC.                                        *)
EXTENDS TokenChain

CONSTANTS root, a, b

Grant(axis, path, deep) == [axis |-> axis, path |-> path, deep |-> deep]

\* A tree, a directory in it, and a domain.
Tree == Grant("write", <<"ws">>, TRUE)
Sub == Grant("write", <<"ws", "src">>, FALSE)
Site == Grant("net", <<"pypi.org">>, FALSE)

MCGrants == {Tree, Sub, Site}
MCCaps == {{Tree, Site}, {Tree}}
MCActions == {[axis |-> "read", path |-> <<"ws", "src">>],
              [axis |-> "net", path |-> <<"pypi.org">>]}

\* By hand: a attenuates its own token to a directory of the tree and the domain,
\* which it may lack, without an expiry; b forges a token of the root's.
Body(issuer, subject, cap, signer) ==
  [issuer |-> issuer, subject |-> subject, cap |-> cap, notAfter |-> 0,
   signer |-> signer]
MCBodies == {Body(a, a, {Sub, Site}, a), Body(root, b, {Site}, b)}
=============================================================================
