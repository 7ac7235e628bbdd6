SPECIFICATION PresenceSpec
CONSTANTS
    Sockets = {s1, s2}
PROPERTY AnExpiryIsAnnounced
