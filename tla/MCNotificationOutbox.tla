-------------------------- MODULE MCNotificationOutbox --------------------------
EXTENDS NotificationOutbox, TLC

Symmetry == Permutations(Workers) \cup Permutations(Chats) \cup Permutations(Events)
=============================================================================
