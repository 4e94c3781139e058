-------------------------- MODULE MC_CompoundReply --------------------------
(* CompoundReply on encodings of one operation of each argument shape.  A  *)
(* word 7 is data; as an opcode it has no handler.                         *)
EXTENDS CompoundReply

Simple == {<<GETFH>>, <<RENEW, 0, 7>>, <<PUTFH, 5, 7, 7>>, <<REMOVE, 1, 7>>, <<7>>}

\* is_new FALSE with a stateid and a sequence number, and TRUE with an owner.
LockOld == <<LOCK, 2, 0, 0, 0, 0, 1, 0>> \o <<1, 0, 7, 0, 0>>
LockNew == <<LOCK, 2, 0, 0, 0, 0, 1, 1>> \o <<1, 1, 0, 7, 0, 1>> \o <<0, 7, 4, 7>>

\* Client id 1, and an owner of three bytes that read as REMOVE's opcode.
Release == <<RELEASE_LOCKOWNER, 0, 1, 3, REMOVE>>

AllEncodings == Simple \cup {LockOld, LockNew, Release}

ASSUME AllWellEncoded == WellEncoded
=============================================================================
