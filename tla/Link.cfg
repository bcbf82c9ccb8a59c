\* One receiver, senders of its own swarm and of others, datagrams of every length.
SPECIFICATION Spec
CONSTANTS
  Byte = 4
  Width = 8
  Home <- Receiver
  Senders <- Neighbours
  Lengths = {14, 15, 16}
  Timeout = 60
INVARIANT ReceivedAsSent
INVARIANT AppliedAsMeant
