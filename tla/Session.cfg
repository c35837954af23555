SPECIFICATION SessionFairSpec
CONSTANTS
    MaxHacker = 2
    MaxDocker = 2
    WishSets <- MCWishSets
    Tries = 2
CHECK_DEADLOCK FALSE
  
PROPERTIES  DockerReleased
