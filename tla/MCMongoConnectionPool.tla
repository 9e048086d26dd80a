----------------------- MODULE MCMongoConnectionPool -----------------------
(* Small instances of MongoConnectionPool for TLC.                         *)
EXTENDS MongoConnectionPool
=============================================================================
